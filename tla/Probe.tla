------------------------------- MODULE Probe -------------------------------
(***************************************************************************)
(* One probe of a host: probe_host of src/hns_topology/live_probe.py, with *)
(* the lookup by authoritative servers, the HNS DoH resolver it falls back *)
(* to, DNSSEC and TLSA, plain HTTP and HTTPS, and the verdict.             *)
(*                                                                         *)
(* A detailed probe (evidence queue) checks DNSSEC and TLSA in its first   *)
(* lookup; a broad one (sweeps) leaves them out and looks the host up a    *)
(* second time once a web server has responded.  Every query is a step of  *)
(* its own; it may be lost, and the zone and the servers may change        *)
(* between two of them.                                                    *)
(*                                                                         *)
(* A host has one A and one AAAA record.  Only public addresses count.     *)
(***************************************************************************)
EXTENDS Naturals, Sequences

CONSTANTS
  None,        \* no certificate
  Certs,       \* certificates servers show
  Trusted,     \* those a WebPKI client accepts for the host
  Zones,       \* states of the zone and its servers in the instance
  MaxHops,     \* aliases followed (6 in the code)
  MaxAddresses,
  MaxMoves,    \* bound: how often the zone changes during a probe
  Lossy        \* may a query be lost, or an error end the probe

Address == {"v4", "v6"}
KeyStatus == {"dnskey_missing", "rrsig_missing", "invalid", "ds_mismatch", "valid"}
Tlsa == [usage : {1, 3}, cert : Certs]

\* What the authoritative servers, the HNS DoH resolver and the web servers
\* would answer now (external).
Zone ==
  [reach : BOOLEAN,                \* authoritative servers can be found and answer
   alias : {"no", "inside", "loop", "outside"},  \* CNAME of the host
   a : BOOLEAN, aaaa : BOOLEAN,    \* its public addresses
   key : KeyStatus,                \* the DNSKEY set against the parent's DS
   tlsa : SUBSET Tlsa, signed : BOOLEAN,
   up : BOOLEAN, ad : BOOLEAN,     \* the resolver answers; and with AD
   web : [Address -> [http : BOOLEAN, cert : Certs \cup {None}]]]

ASSUME ProbeAssumption ==
  /\ Zones \subseteq Zone
  /\ None \notin Certs
  /\ Trusted \subseteq Certs
  /\ {MaxHops, MaxAddresses} \subseteq Nat \ {0}
  /\ MaxMoves \in Nat
  /\ Lossy \in BOOLEAN

\* A probe is detailed in the evidence queue and broad in the sweeps.  The rows a
\* sweep builds carry no sources: none of them counts as admitted by a preflight.
Candidate ==
  {c \in [ds : BOOLEAN, preflight : BOOLEAN, boot : BOOLEAN, details : BOOLEAN] :
     c.preflight => c.details}

DnsResult ==
  [status : {"resolved", "no_address", "unreachable", "no_bootstrap"},
   addrs : Seq(Address),
   dnssec : KeyStatus \cup {"unsigned", "not_checked", "unknown",
                            "resolver_validated", "resolver_unverified"},
   tlsa : SUBSET Tlsa, secure : BOOLEAN]

WebResult == [cert : Certs, valid : BOOLEAN]

VARIABLES
  \* the world
  zone, moves,
  \* the probe
  cand,      \* DS at the parent, admitted by a preflight, parent-side
             \* nameserver addresses; include_dns_details
  pc,
  lookup,    \* 1: the first, 2: the second one of a broad probe
  hop,       \* aliases followed
  look,      \* the running lookup: was there a response, all of them with AD,
             \* the addresses, the DNSKEY status
  fallback,  \* what the lookup returns if the resolver has nothing
  dns,       \* dns_result
  i,         \* the address to try
  http,      \* http_result.status = "response"
  https,     \* responses to HTTPS without authentication, or the one with it
  category,
  \* auxiliary
  quiet,     \* nothing was lost and nothing changed so far
  vouched    \* TLSA sets read from a signed answer

worldVars == <<zone, moves>>
lookVars == <<lookup, hop, look, fallback, dns>>
webVars == <<i, http, https>>
auxVars == <<quiet, vouched>>
vars == <<worldVars, cand, pc, lookVars, webVars, category, auxVars>>

-----------------------------------------------------------------------------
(* Queries *)

\* The answers to a question whose true answer is b.
Heard(b) == IF Lossy THEN {FALSE, b} ELSE {b}

QuietIf(b) == quiet' = (quiet /\ b)

\* What the name reached after h aliases has.
Here(h) ==
  CASE zone.alias = "loop" -> "alias"
    [] zone.alias = "inside" -> IF h = 0 THEN "alias" ELSE "addresses"
    [] OTHER -> IF h > 0 THEN "nothing"
                ELSE IF zone.alias = "no" THEN "addresses" ELSE "outside"

Records(heard) ==
  (IF zone.a /\ "A" \in heard THEN <<"v4">> ELSE <<>>)
    \o (IF zone.aaaa /\ "AAAA" \in heard THEN <<"v6">> ELSE <<>>)

\* The A and the AAAA query of one hop.
AnswersFrom(source) ==
  {heard \in SUBSET {"A", "AAAA"} :
     /\ ~source => heard = {}
     /\ ~Lossy /\ source => heard = {"A", "AAAA"}}

Taken(addrs) == SubSeq(addrs, 1, IF Len(addrs) < MaxAddresses THEN Len(addrs) ELSE MaxAddresses)

Details == cand.details \/ lookup = 2

NoLook == [heard |-> FALSE, ad |-> TRUE, addrs |-> <<>>, key |-> "dnskey_missing"]

Nothing(status, dnssec) ==
  [status |-> status, addrs |-> <<>>, dnssec |-> dnssec, tlsa |-> {}, secure |-> FALSE]

\* A lookup ends.
LookedUp(result) ==
  /\ dns' = result
  /\ pc' = IF lookup = 1 THEN "http" ELSE "conclude"
  /\ i' = 1
  /\ hop' = 0
  /\ look' = NoLook
  /\ UNCHANGED fallback

ToResolver(result) ==
  /\ fallback' = result
  /\ pc' = "resolver"
  /\ hop' = 0
  /\ look' = NoLook
  /\ UNCHANGED <<dns, i>>

-----------------------------------------------------------------------------
(* probe_dns: authoritative servers *)

\* Addresses of nameservers come from the parent, else from a lookup of the
\* nameserver under its own HNS root, else from the conventional resolver.
ServersFound == IF cand.boot THEN {TRUE} ELSE Heard(zone.reach)

FindServers ==
  /\ pc = "servers"
  /\ \/ /\ cand.preflight
        /\ ToResolver(Nothing("no_bootstrap", "unknown"))
        /\ UNCHANGED quiet
     \/ /\ ~cand.preflight
        /\ \E found \in ServersFound :
             /\ \/ /\ found
                   /\ pc' = IF Details /\ cand.ds THEN "dnskey" ELSE "addresses"
                   /\ UNCHANGED <<hop, look, fallback, dns, i>>
                \/ ~found /\ ToResolver(Nothing("no_bootstrap", "unknown"))
             /\ QuietIf(cand.boot \/ found = zone.reach)
  /\ UNCHANGED <<worldVars, cand, lookup, http, https, category, vouched>>

\* _dnskey_response and _dnssec_status
AskDnskey ==
  /\ pc = "dnskey"
  /\ \E heard \in Heard(zone.reach) :
       /\ look' = [look EXCEPT !.key = IF heard THEN zone.key ELSE "dnskey_missing"]
       /\ QuietIf(heard = zone.reach)
  /\ pc' = "addresses"
  /\ UNCHANGED <<worldVars, cand, lookup, hop, fallback, dns, webVars, category, vouched>>

Dnssec ==
  CASE ~Details -> "not_checked"
    [] Details /\ ~cand.ds -> "unsigned"
    [] OTHER -> look.key

\* Mutant: any response makes the host resolved.
EndDirectResponded(l, tlsa, secure) ==
  LET result(status) == [status |-> status, addrs |-> Taken(l.addrs), dnssec |-> Dnssec,
                         tlsa |-> tlsa, secure |-> secure]
  IN  \/ l.addrs # <<>> /\ LookedUp(result("resolved"))
      \/ l.addrs = <<>> /\ ToResolver(result(IF l.heard THEN "resolved" ELSE "unreachable"))

\* What the servers gave; the resolver is asked when they have no address.
EndDirect(l, tlsa, secure) ==
  LET result(status) == [status |-> status, addrs |-> Taken(l.addrs), dnssec |-> Dnssec,
                         tlsa |-> tlsa, secure |-> secure]
  IN  \/ l.addrs # <<>> /\ LookedUp(result("resolved"))
      \/ l.addrs = <<>> /\ ToResolver(result(IF l.heard THEN "no_address" ELSE "unreachable"))

AfterAddresses(l) ==
  \/ Details /\ look' = l /\ pc' = "tlsa" /\ UNCHANGED <<hop, fallback, dns, i>>
  \/ ~Details /\ EndDirect(l, {}, FALSE)

\* Mutant: aliases are followed without a limit (counted in a circle).
FollowForever(heard) ==
  /\ Here(hop) = "alias" /\ heard # {}
  /\ hop' = 1 + (hop % 2)
  /\ UNCHANGED <<pc, fallback, dns, i>>

\* An alias inside the zone is followed, up to a limit.
Follow(heard) ==
  /\ Here(hop) = "alias" /\ heard # {} /\ hop + 1 < MaxHops
  /\ hop' = hop + 1
  /\ UNCHANGED <<pc, fallback, dns, i>>

\* One round of _resolve_addresses.
AskAddresses ==
  /\ pc = "addresses"
  /\ \E heard \in AnswersFrom(zone.reach) :
       LET here == Here(hop)
           l == [look EXCEPT !.heard = @ \/ heard # {},
                             !.addrs = IF here = "addresses" THEN Records(heard) ELSE <<>>]
       IN  /\ \/ Follow(heard) /\ look' = l
              \/ /\ here = "outside" /\ heard # {}
                 /\ look' = l
                 /\ pc' = "outside"
                 /\ UNCHANGED <<hop, fallback, dns, i>>
              \/ /\ \/ here \in {"addresses", "nothing"}
                    \/ heard = {}
                    \/ here = "alias" /\ hop + 1 >= MaxHops
                 /\ AfterAddresses(l)
           /\ QuietIf(zone.reach => heard = {"A", "AAAA"})
  /\ UNCHANGED <<worldVars, cand, lookup, http, https, category, vouched>>

\* _fallback_addresses: an alias out of the zone is left to the conventional
\* resolver.
AskOutside ==
  /\ pc = "outside"
  /\ \E heard \in AnswersFrom(TRUE) :
       /\ AfterAddresses([look EXCEPT !.addrs = Records(heard)])
       /\ QuietIf(heard = {"A", "AAAA"})
  /\ UNCHANGED <<worldVars, cand, lookup, http, https, category, vouched>>

\* _resolve_tlsa: secure under the validated DNSKEY set.
AskTlsa ==
  /\ pc = "tlsa"
  /\ \E heard \in Heard(zone.reach) :
       LET records == IF heard THEN zone.tlsa ELSE {}
           truly == zone.signed /\ zone.key = "valid"
       IN  /\ EndDirect(look, records, records # {} /\ Dnssec = "valid" /\ truly)
           /\ vouched' = IF records # {} /\ cand.ds /\ truly
                         THEN vouched \cup {records} ELSE vouched
           /\ QuietIf(heard = zone.reach)
  /\ UNCHANGED <<worldVars, cand, lookup, http, https, category>>

-----------------------------------------------------------------------------
(* _resolve_hns_doh: the HNS-aware resolver *)

ResolverStatus(l) == IF l.heard /\ l.ad THEN "resolver_validated" ELSE "resolver_unverified"

\* One round of _resolve_hns_doh_addresses; an alias out of the zone leaves only
\* the responses of its own round.
AskResolver ==
  /\ pc = "resolver"
  /\ \E heard \in AnswersFrom(zone.up) :
       LET here == Here(hop)
           before == IF here = "outside" /\ heard # {} THEN NoLook ELSE look
           l == [before EXCEPT !.heard = @ \/ heard # {},
                               !.ad = @ /\ (heard = {} \/ zone.ad),
                               !.addrs = IF here = "addresses" THEN Records(heard) ELSE <<>>]
       IN  /\ \/ Follow(heard) /\ look' = l
              \/ /\ \/ here # "alias"
                    \/ heard = {}
                    \/ hop + 1 >= MaxHops
                 /\ \/ /\ l.addrs # <<>> /\ Details
                       /\ pc' = "resolver tlsa" /\ look' = l
                       /\ UNCHANGED <<hop, fallback, dns, i>>
                    \/ /\ l.addrs # <<>> /\ ~Details
                       /\ LookedUp([Nothing("resolved", ResolverStatus(l))
                                      EXCEPT !.addrs = Taken(l.addrs)])
                    \/ /\ l.addrs = <<>> /\ l.heard
                       /\ LookedUp(Nothing("no_address", ResolverStatus(l)))
                    \/ /\ l.addrs = <<>> /\ ~l.heard
                       /\ LookedUp(fallback)
           /\ QuietIf(zone.up => heard = {"A", "AAAA"})
  /\ UNCHANGED <<worldVars, cand, lookup, http, https, category, vouched>>

AskResolverTlsa ==
  /\ pc = "resolver tlsa"
  /\ \E heard \in Heard(zone.up) :
       LET records == IF heard THEN zone.tlsa ELSE {}
       IN  /\ LookedUp([status |-> "resolved", addrs |-> Taken(look.addrs),
                        dnssec |-> ResolverStatus(look), tlsa |-> records,
                        secure |-> records # {} /\ zone.ad])
           /\ vouched' = IF records # {} /\ zone.ad THEN vouched \cup {records} ELSE vouched
           /\ QuietIf(heard = zone.up)
  /\ UNCHANGED <<worldVars, cand, lookup, http, https, category>>

-----------------------------------------------------------------------------
(* _probe_web and _probe_authenticated_https *)

Server == zone.web[dns.addrs[i]]

AskHttp ==
  /\ pc = "http"
  /\ \/ /\ i > Len(dns.addrs)
        /\ pc' = "https" /\ i' = 1
        /\ UNCHANGED <<http, quiet>>
     \/ /\ i <= Len(dns.addrs)
        /\ \E answer \in Heard(Server.http) :
             /\ http' = answer
             /\ i' = IF answer THEN 1 ELSE i + 1
             /\ pc' = IF answer THEN "https" ELSE "http"
             /\ QuietIf(answer = Server.http)
  /\ UNCHANGED <<worldVars, cand, lookVars, https, category, vouched>>

\* Mutant: any TLSA record counts, signed or not.
DaneUnsigned(result, response) ==
  \E record \in result.tlsa :
    record.cert = response.cert /\ (record.usage = 3 \/ (record.usage = 1 /\ response.valid))

\* _dane_status = "valid"
Dane(result, response) ==
  /\ result.secure
  /\ \E record \in result.tlsa :
       record.cert = response.cert /\ (record.usage = 3 \/ (record.usage = 1 /\ response.valid))

Authenticated(result, response) == response.valid \/ Dane(result, response)

\* Mutant: the first address that responds decides.
StopAtFirst(response) ==
  /\ https' = <<response>>
  /\ pc' = "responded"
  /\ i' = i

\* The first authenticated response ends the search; without one the first
\* response is kept.
Respond(response) ==
  \/ /\ Authenticated(dns, response)
     /\ https' = <<response>>
     /\ pc' = "responded"
     /\ i' = i
  \/ /\ ~Authenticated(dns, response)
     /\ https' = IF https = <<>> THEN <<response>> ELSE https
     /\ pc' = "https"
     /\ i' = i + 1

NoResponse == pc' = "https" /\ i' = i + 1 /\ UNCHANGED https

\* A connection that verifies the certificate.
AskHttps ==
  /\ pc = "https"
  /\ \/ /\ i > Len(dns.addrs)
        /\ pc' = "responded"
        /\ UNCHANGED <<i, https, quiet>>
     \/ /\ i <= Len(dns.addrs)
        /\ \E answer \in Heard(Server.cert # None) :
             /\ \/ answer /\ Server.cert \in Trusted /\ Respond([cert |-> Server.cert, valid |-> TRUE])
                \/ answer /\ Server.cert \notin Trusted /\ pc' = "retry" /\ UNCHANGED <<i, https>>
                \/ ~answer /\ NoResponse
             /\ QuietIf(answer = (Server.cert # None))
  /\ UNCHANGED <<worldVars, cand, lookVars, http, category, vouched>>

\* Verification failed: a second connection accepts any certificate.
AskAgain ==
  /\ pc = "retry"
  /\ \E answer \in Heard(Server.cert # None) :
       /\ \/ answer /\ Respond([cert |-> Server.cert, valid |-> FALSE])
          \/ ~answer /\ NoResponse
       /\ QuietIf(answer = (Server.cert # None))
  /\ UNCHANGED <<worldVars, cand, lookVars, http, category, vouched>>

\* A broad probe collects DNSSEC and TLSA once a web server has responded.
Responded ==
  /\ pc = "responded"
  /\ \/ /\ ~cand.details /\ (http \/ https # <<>>)
        /\ lookup' = 2
        /\ pc' = "servers"
     \/ /\ cand.details \/ ~(http \/ https # <<>>)
        /\ pc' = "conclude"
        /\ UNCHANGED lookup
  /\ UNCHANGED <<worldVars, cand, hop, look, fallback, dns, webVars, category, auxVars>>

-----------------------------------------------------------------------------
(* The verdict *)

\* _classify_web
Classified ==
  CASE https # <<>> /\ Authenticated(dns, https[1]) -> "https"
    [] OTHER -> IF http THEN "http_only" ELSE "offline"

Validated == dns.dnssec \in {"valid", "resolver_validated"}

\* Mutant: only a parent DS makes validation mandatory.
BlockedByDs == cand.ds /\ dns.status = "resolved" /\ ~Validated

\* blocked_dnssec
Blocked == (cand.ds \/ cand.preflight) /\ dns.status = "resolved" /\ ~Validated

Conclude ==
  /\ pc = "conclude"
  /\ category' = IF Blocked THEN "offline" ELSE Classified
  /\ pc' = "done"
  /\ UNCHANGED <<worldVars, cand, lookVars, webVars, auxVars>>

\* Any other exception is caught and reported as a failed probe.
ProbeError ==
  /\ Lossy
  /\ pc # "done"
  /\ pc' = "done"
  /\ category' = "offline"
  /\ quiet' = FALSE
  /\ UNCHANGED <<worldVars, cand, lookVars, webVars, vouched>>

\* The zone or its servers change.
Move ==
  /\ moves < MaxMoves
  /\ pc # "done"
  /\ moves' = moves + 1
  /\ zone' \in Zones \ {zone}
  /\ quiet' = FALSE
  /\ UNCHANGED <<cand, pc, lookVars, webVars, category, vouched>>

Done == pc = "done" /\ UNCHANGED vars

-----------------------------------------------------------------------------
Init ==
  /\ zone \in Zones /\ moves = 0
  /\ cand \in Candidate
  /\ pc = "servers" /\ lookup = 1 /\ hop = 0
  /\ look = NoLook
  /\ fallback = Nothing("no_bootstrap", "unknown")
  /\ dns = Nothing("no_bootstrap", "unknown")
  /\ i = 1 /\ http = FALSE /\ https = <<>>
  /\ category = "offline"
  /\ quiet = TRUE /\ vouched = {}

Step ==
  \/ FindServers \/ AskDnskey \/ AskAddresses \/ AskOutside \/ AskTlsa
  \/ AskResolver \/ AskResolverTlsa
  \/ AskHttp \/ AskHttps \/ AskAgain \/ Responded \/ Conclude

Next == Step \/ ProbeError \/ Move \/ Done

\* Every query has a timeout.
Spec == Init /\ [][Next]_vars /\ WF_vars(Step)

-----------------------------------------------------------------------------
(* Properties *)

\* A lookup is resolved when it has addresses, and then only.
Consistent(result) ==
  /\ result.status = "resolved" <=> result.addrs # <<>>
  /\ Len(result.addrs) <= MaxAddresses
  /\ result.secure => result.tlsa # {}

TypeOK ==
  /\ zone \in Zone /\ moves \in Nat
  /\ cand \in Candidate
  /\ pc \in {"servers", "dnskey", "addresses", "outside", "tlsa", "resolver", "resolver tlsa",
             "http", "https", "retry", "responded", "conclude", "done"}
  /\ lookup \in {1, 2} /\ hop \in Nat
  /\ look \in [heard : BOOLEAN, ad : BOOLEAN, addrs : Seq(Address), key : KeyStatus]
  /\ fallback \in DnsResult /\ Consistent(fallback) /\ fallback.status # "resolved"
  /\ dns \in DnsResult /\ Consistent(dns)
  /\ i \in Nat \ {0} /\ http \in BOOLEAN
  /\ https = <<>> \/ \E response \in WebResult : https = <<response>>
  /\ category \in {"https", "http_only", "offline"}
  /\ quiet \in BOOLEAN /\ vouched \in SUBSET SUBSET Tlsa

Online == pc = "done" /\ category # "offline"

MustValidate == cand.ds \/ cand.preflight

\* "A parent DS makes DNSSEC validation mandatory" (live_probe.py), and so does
\* an admission by the resolver: whatever is lost, times out or changes, a probe
\* never reports such a host online without a validated lookup.
OnlineIsValidated == Online /\ MustValidate => Validated

\* The same of detailed probes, which look the host up once: all those of the
\* evidence queue, and so every one of a host a preflight admitted.
QueuedIsValidated == Online /\ MustValidate /\ cand.details => Validated

\* A host is reported under https only if its server proved itself to a WebPKI
\* client, or showed a certificate that a TLSA record names which was read
\* from a signed answer, also when certificate and record were read at different
\* times and in two lookups.
HttpsIsAuthenticated ==
  Online /\ category = "https" =>
    \/ https[1].valid /\ https[1].cert \in Trusted
    \/ /\ dns.tlsa \in vouched
       /\ \E record \in dns.tlsa : record.cert = https[1].cert

\* What a client that sees the whole zone at once would say of a host.
DirectAddresses == IF zone.alias = "loop" THEN <<>> ELSE Records({"A", "AAAA"})
UsesServers == ~cand.preflight /\ zone.reach /\ DirectAddresses # <<>>
ResolverAddresses ==
  IF zone.up /\ zone.alias \in {"no", "inside"} THEN Records({"A", "AAAA"}) ELSE <<>>
Reachable ==
  {a \in Address : LET addrs == IF UsesServers THEN DirectAddresses ELSE ResolverAddresses
                   IN  \E k \in DOMAIN addrs : addrs[k] = a}
Secure == IF UsesServers THEN cand.ds /\ zone.key = "valid" ELSE zone.ad
SecureTlsa ==
  IF Secure /\ (UsesServers => zone.signed) THEN {r.cert : r \in {t \in zone.tlsa : t.usage = 3}} ELSE {}
Verdict ==
  IF MustValidate /\ ~Secure THEN "offline"
  ELSE IF \E a \in Reachable : zone.web[a].cert \in Trusted \cup SecureTlsa THEN "https"
  ELSE IF \E a \in Reachable : zone.web[a].http THEN "http_only" ELSE "offline"

Rank(c) == CASE c = "offline" -> 0 [] c = "http_only" -> 1 [] c = "https" -> 2

\* When nothing is lost and nothing changes, a detailed probe finds exactly what
\* such a client would, and a broad one claims nothing more, although it chooses
\* its HTTPS address before it knows any TLSA record.
AgreesWhenQuiet ==
  pc = "done" /\ quiet =>
    IF cand.details THEN category = Verdict ELSE Rank(category) <= Rank(Verdict)

\* Every probe ends, also on a loop of aliases.
ProbeEnds == <>(pc = "done")
=============================================================================
