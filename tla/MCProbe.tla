------------------------------ MODULE MCProbe ------------------------------
(* Small instances of Probe for TLC. *)
EXTENDS Probe

CONSTANTS ca, own  \* a certificate a WebPKI client accepts, a self-signed one

Pin(cert) == [usage |-> 3, cert |-> cert]
Web(plain, cert) == [http |-> plain, cert |-> cert]

\* A signed zone that pins its self-signed certificate, with two web servers.
Signed ==
  [reach |-> TRUE, alias |-> "no", a |-> TRUE, aaaa |-> TRUE, key |-> "valid",
   tlsa |-> {Pin(own)}, signed |-> TRUE, up |-> TRUE, ad |-> TRUE,
   web |-> [x \in Address |-> Web(x = "v4", own)]]

\* The same zone with something amiss, or served by the resolver only.
FewZones ==
  {Signed,
   [Signed EXCEPT !.key = "ds_mismatch", !.ad = FALSE],
   [Signed EXCEPT !.reach = FALSE],
   [Signed EXCEPT !.reach = FALSE, !.ad = FALSE],
   [Signed EXCEPT !.reach = FALSE, !.up = FALSE],
   [Signed EXCEPT !.alias = "loop", !.aaaa = FALSE],
   [Signed EXCEPT !.web["v4"] = Web(TRUE, None), !.web["v6"] = Web(FALSE, ca)]}

SomeZones ==
  FewZones \cup
  {[Signed EXCEPT !.alias = "inside"],
   [Signed EXCEPT !.alias = "outside"],
   [Signed EXCEPT !.signed = FALSE],
   [Signed EXCEPT !.tlsa = {[usage |-> 1, cert |-> own], Pin(ca)}],
   [Signed EXCEPT !.tlsa = {Pin(own)}, !.web["v4"] = Web(TRUE, ca)],
   [Signed EXCEPT !.tlsa = {Pin(ca)}, !.web["v6"] = Web(TRUE, ca)],
   [Signed EXCEPT !.web["v4"] = Web(FALSE, None), !.web["v6"] = Web(TRUE, own)],
   [Signed EXCEPT !.a = FALSE, !.aaaa = FALSE]}
=============================================================================
