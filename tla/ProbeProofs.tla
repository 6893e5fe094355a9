---------------------------- MODULE ProbeProofs ----------------------------
(***************************************************************************)
(* Theorems about one probe, for any zones, certificates and limits: its   *)
(* results are consistent, a detailed probe validates what it reports, and *)
(* https always rests on an authentication.                                *)
(***************************************************************************)
EXTENDS Probe, TLAPS

-----------------------------------------------------------------------------
(* Lookups *)

\* The answers of one round are addresses, and no more of them are taken than
\* the limit allows.
LEMMA RecordsType == \A heard \in SUBSET {"A", "AAAA"} : Records(heard) \in Seq(Address)
<1> TAKE heard \in SUBSET {"A", "AAAA"}
<1> DEFINE v4 == IF zone.a /\ "A" \in heard THEN <<"v4">> ELSE <<>>
           v6 == IF zone.aaaa /\ "AAAA" \in heard THEN <<"v6">> ELSE <<>>
<1>0. <<>> \in Seq(Address) /\ <<"v4">> \in Seq(Address) /\ <<"v6">> \in Seq(Address)
  BY DEF Address
<1>1. v4 \in Seq(Address)
  BY <1>0, Zenon
<1>2. v6 \in Seq(Address)
  BY <1>0, Zenon
<1>3. v4 \o v6 \in Seq(Address)
  <2> HIDE DEF v4, v6
  <2> QED BY <1>1, <1>2
<1> QED BY <1>3 DEF Records

\* No more addresses are taken than the limit allows, and some if there are any.
LEMMA TakenType ==
  ASSUME NEW addrs \in Seq(Address)
  PROVE  /\ Taken(addrs) \in Seq(Address)
         /\ Len(Taken(addrs)) <= MaxAddresses
         /\ Taken(addrs) = <<>> <=> addrs = <<>>
<1> DEFINE n == IF Len(addrs) < MaxAddresses THEN Len(addrs) ELSE MaxAddresses
<1>1. n \in 0 .. Len(addrs) /\ n <= MaxAddresses /\ (n = 0 <=> addrs = <<>>)
  BY ProbeAssumption
<1>2. SubSeq(addrs, 1, n) \in Seq(Address) /\ Len(SubSeq(addrs, 1, n)) = n
  BY <1>1
<1>3. SubSeq(addrs, 1, n) = <<>> <=> n = 0
  BY <1>2
<1> QED BY <1>1, <1>2, <1>3 DEF Taken

\* Answers are Booleans, and rounds ask for A and AAAA.
LEMMA AnswersType ==
  /\ \A b \in BOOLEAN : Heard(b) \subseteq BOOLEAN
  /\ \A source : AnswersFrom(source) \subseteq SUBSET {"A", "AAAA"}
BY DEF Heard, AnswersFrom

\* The types of the running lookup.
Look == [heard : BOOLEAN, ad : BOOLEAN, addrs : Seq(Address), key : KeyStatus]
OkResult == {result \in DnsResult : Consistent(result)}
NoAddress == {result \in OkResult : result.status # "resolved"}
PcAll == {"servers", "dnskey", "addresses", "outside", "tlsa", "resolver", "resolver tlsa",
          "http", "https", "retry", "responded", "conclude", "done"}

\* A lookup that begins is typed.
LEMMA NoLookType == NoLook \in Look
BY DEF NoLook, Look, KeyStatus

\* A result without addresses is consistent, and never secure.
LEMMA NothingType ==
  ASSUME NEW status \in {"no_address", "unreachable", "no_bootstrap"},
         NEW dnssec \in {"unknown", "resolver_validated", "resolver_unverified"}
  PROVE  Nothing(status, dnssec) \in NoAddress /\ ~Nothing(status, dnssec).secure
<1>1. <<>> \in Seq(Address) /\ Len(<<>>) = 0 /\ {} \in SUBSET Tlsa
  OBVIOUS
<1>2. Nothing(status, dnssec) \in DnsResult
  BY <1>1 DEF Nothing, DnsResult
<1> QED BY <1>1, <1>2, ProbeAssumption DEF Nothing, NoAddress, OkResult, Consistent

-----------------------------------------------------------------------------
(* Types *)

\* What a lookup step leaves well typed.
LookTyped ==
  /\ pc \in PcAll
  /\ hop \in Nat
  /\ look \in Look
  /\ fallback \in NoAddress
  /\ dns \in OkResult
  /\ i \in Nat \ {0}

OtherTyped ==
  /\ zone \in Zone /\ moves \in Nat /\ cand \in Candidate /\ lookup \in {1, 2}
  /\ http \in BOOLEAN
  /\ https = <<>> \/ \E response \in WebResult : https = <<response>>
  /\ category \in {"https", "http_only", "offline"}
  /\ quiet \in BOOLEAN /\ vouched \in SUBSET SUBSET Tlsa

\* A second connection is made to an address of the lookup; the resolver is asked
\* for TLSA records of a host that has an address.
InRange ==
  /\ pc = "retry" => i <= Len(dns.addrs)
  /\ pc = "resolver tlsa" => look.addrs # <<>>

TypeInv == LookTyped /\ OtherTyped /\ InRange

\* A lookup that ends with a consistent result leaves the types,
LEMMA LookedUpTyped ==
  ASSUME LookTyped, NEW result \in OkResult, LookedUp(result)
  PROVE  LookTyped' /\ InRange'
<1>1. pc' \in {"http", "conclude"}
  BY DEF LookedUp
<1>2. pc' \in PcAll /\ InRange'
  BY <1>1 DEF PcAll, InRange
<1> QED BY <1>2, NoLookType DEF LookTyped, LookedUp

\* and so does one passed to the resolver,
LEMMA ToResolverTyped ==
  ASSUME LookTyped, NEW result \in NoAddress, ToResolver(result)
  PROVE  LookTyped' /\ InRange'
BY NoLookType DEF LookTyped, ToResolver, PcAll, InRange

\* one that follows an alias,
LEMMA FollowTyped ==
  ASSUME LookTyped, NEW heard, pc \in {"addresses", "resolver"}, Follow(heard), look' \in Look
  PROVE  LookTyped' /\ InRange'
<1>1. hop' \in Nat /\ pc' = pc
  BY DEF LookTyped, Follow
<1>2. InRange'
  BY <1>1 DEF InRange
<1> QED BY <1>1, <1>2 DEF LookTyped, Follow

\* one the authoritative servers end,
LEMMA EndDirectTyped ==
  ASSUME LookTyped, OtherTyped, NEW l \in Look, NEW tlsa \in SUBSET Tlsa, NEW secure \in BOOLEAN,
         secure => tlsa # {}, EndDirect(l, tlsa, secure)
  PROVE  LookTyped' /\ InRange'
<1> DEFINE result(status) == [status |-> status, addrs |-> Taken(l.addrs), dnssec |-> Dnssec,
                              tlsa |-> tlsa, secure |-> secure]
<1>1. l.addrs \in Seq(Address) /\ l.heard \in BOOLEAN /\ look.key \in KeyStatus
  BY DEF Look, LookTyped
<1>2. Dnssec \in KeyStatus \cup {"unsigned", "not_checked"}
  BY <1>1 DEF Dnssec
<1>3. \A status \in {"resolved", "no_address", "unreachable"} :
        /\ result(status) \in DnsResult
        /\ (status = "resolved" <=> l.addrs # <<>>) => result(status) \in OkResult
  BY <1>1, <1>2, TakenType DEF DnsResult, OkResult, Consistent
<1>4. CASE l.addrs # <<>> /\ LookedUp(result("resolved"))
  BY <1>3, <1>4, LookedUpTyped
<1>5. CASE l.addrs = <<>> /\ ToResolver(result(IF l.heard THEN "no_address" ELSE "unreachable"))
  <2> DEFINE status == IF l.heard THEN "no_address" ELSE "unreachable"
  <2>1. status \in {"no_address", "unreachable"}
    OBVIOUS
  <2>2. result(status) \in OkResult
    BY <1>3, <1>5, <2>1
  <2>3. result(status) \in NoAddress
    BY <2>1, <2>2 DEF NoAddress
  <2> QED BY <1>5, <2>3, ToResolverTyped
<1> QED BY <1>4, <1>5 DEF EndDirect

\* and one that has its addresses.
LEMMA AfterAddressesTyped ==
  ASSUME LookTyped, OtherTyped, NEW l \in Look, AfterAddresses(l)
  PROVE  LookTyped' /\ InRange'
<1>1. CASE Details /\ look' = l /\ pc' = "tlsa" /\ UNCHANGED <<hop, fallback, dns, i>>
  BY <1>1 DEF LookTyped, PcAll, InRange
<1>2. CASE ~Details /\ EndDirect(l, {}, FALSE)
  BY <1>2, EndDirectTyped
<1> QED BY <1>1, <1>2 DEF AfterAddresses

\* A probe that starts is typed.
LEMMA InitTyped == Init => TypeInv
<1> SUFFICES ASSUME Init PROVE TypeInv
  OBVIOUS
<1>1. Nothing("no_bootstrap", "unknown") \in NoAddress
  BY NothingType
<1>2. LookTyped
  BY <1>1, NoLookType DEF Init, LookTyped, PcAll, NoAddress
<1>3. OtherTyped
  BY ProbeAssumption DEF Init, OtherTyped
<1> QED BY <1>2, <1>3 DEF Init, TypeInv, InRange

\* What a step does to the rest of the state.
OtherSame == UNCHANGED <<worldVars, cand, lookup, http, https, category>>

\* What a lookup step leaves alone stays typed.
LEMMA OtherTypedStep ==
  ASSUME OtherTyped, OtherSame, quiet' \in BOOLEAN, vouched' \in SUBSET SUBSET Tlsa
  PROVE  OtherTyped'
BY DEF OtherTyped, OtherSame, worldVars

\* The mark of an undisturbed probe is a Boolean.
LEMMA QuietTyped == ASSUME OtherTyped, NEW b \in BOOLEAN, QuietIf(b) PROVE quiet' \in BOOLEAN
BY DEF OtherTyped, QuietIf

\* The zone's fields.
LEMMA ZoneTyped ==
  ASSUME OtherTyped
  PROVE  /\ zone.reach \in BOOLEAN /\ zone.up \in BOOLEAN /\ zone.ad \in BOOLEAN
         /\ zone.signed \in BOOLEAN /\ zone.key \in KeyStatus /\ zone.tlsa \in SUBSET Tlsa
         /\ cand.ds \in BOOLEAN /\ cand.preflight \in BOOLEAN
         /\ cand.boot \in BOOLEAN /\ cand.details \in BOOLEAN
         /\ \A a \in Address : /\ zone.web[a].http \in BOOLEAN
                               /\ zone.web[a].cert \in Certs \cup {None}
BY DEF OtherTyped, Zone, Candidate

\* Each step of a probe keeps the types: the search for servers,
LEMMA FindServersTyped == TypeInv /\ FindServers => TypeInv'
<1> SUFFICES ASSUME TypeInv, FindServers PROVE TypeInv'
  OBVIOUS
<1> USE DEF TypeInv
<1>1. Nothing("no_bootstrap", "unknown") \in NoAddress
  BY NothingType
<1>4. LookTyped' /\ InRange'
  <2>1. CASE ToResolver(Nothing("no_bootstrap", "unknown"))
    BY <1>1, <2>1, ToResolverTyped
  <2>2. CASE /\ pc' = IF Details /\ cand.ds THEN "dnskey" ELSE "addresses"
             /\ UNCHANGED <<hop, look, fallback, dns, i>>
    <3>1. pc' \in {"dnskey", "addresses"}
      BY <2>2
    <3>2. pc' \in PcAll /\ InRange'
      BY <3>1 DEF PcAll, InRange
    <3> QED BY <2>2, <3>2 DEF LookTyped
  <2> QED BY <2>1, <2>2 DEF FindServers
<1>5. quiet' \in BOOLEAN
  <2>1. CASE UNCHANGED quiet
    BY <2>1 DEF OtherTyped
  <2>2. CASE \E found \in ServersFound :
               QuietIf(cand.boot \/ found = zone.reach)
    <3>1. PICK found \in ServersFound :
            QuietIf(cand.boot \/ found = zone.reach)
      BY <2>2
    <3>2. (cand.boot \/ found = zone.reach) \in BOOLEAN
      OBVIOUS
    <3> QED BY <3>1, <3>2, QuietTyped
  <2> QED BY <2>1, <2>2 DEF FindServers
<1>6. OtherTyped'
  BY <1>5, OtherTypedStep DEF FindServers, OtherSame, OtherTyped
<1> QED BY <1>4, <1>6

\* the DNSKEY query,
LEMMA AskDnskeyTyped == TypeInv /\ AskDnskey => TypeInv'
<1> SUFFICES ASSUME TypeInv, AskDnskey PROVE TypeInv'
  OBVIOUS
<1> USE DEF TypeInv
<1>1. PICK heard \in Heard(zone.reach) :
        /\ look' = [look EXCEPT !.key = IF heard THEN zone.key ELSE "dnskey_missing"]
        /\ QuietIf(heard = zone.reach)
  BY DEF AskDnskey
<1>2. look' \in Look
  BY <1>1, ZoneTyped DEF LookTyped, Look, KeyStatus
<1>3. quiet' \in BOOLEAN
  BY <1>1, QuietTyped
<1>4. LookTyped' /\ InRange'
  BY <1>2 DEF AskDnskey, LookTyped, PcAll, InRange, webVars
<1>5. OtherTyped'
  BY <1>3, OtherTypedStep DEF AskDnskey, OtherSame, OtherTyped, webVars
<1> QED BY <1>4, <1>5

\* a round of address queries to the servers,
LEMMA AskAddressesTyped == TypeInv /\ AskAddresses => TypeInv'
<1> SUFFICES ASSUME TypeInv, AskAddresses PROVE TypeInv'
  OBVIOUS
<1> USE DEF TypeInv
<1> DEFINE addrs(heard) == IF Here(hop) = "addresses" THEN Records(heard) ELSE <<>>
           next(heard) == [look EXCEPT !.heard = @ \/ heard # {}, !.addrs = addrs(heard)]
<1>1. PICK heard \in AnswersFrom(zone.reach) :
        /\ \/ Follow(heard) /\ look' = next(heard)
           \/ /\ look' = next(heard)
              /\ pc' = "outside"
              /\ UNCHANGED <<hop, fallback, dns, i>>
           \/ AfterAddresses(next(heard))
        /\ QuietIf(zone.reach => heard = {"A", "AAAA"})
  BY Zenon DEF AskAddresses
<1>2. addrs(heard) \in Seq(Address)
  <2>1. Records(heard) \in Seq(Address) /\ <<>> \in Seq(Address)
    BY RecordsType, AnswersType
  <2> QED BY <2>1
<1>3. next(heard) \in Look
  <2> HIDE DEF addrs
  <2> QED BY <1>2 DEF LookTyped, Look
<1>4. LookTyped' /\ InRange'
  <2> HIDE DEF next
  <2>1. CASE Follow(heard) /\ look' = next(heard)
    BY <1>3, <2>1, FollowTyped DEF AskAddresses
  <2>2. CASE look' = next(heard) /\ pc' = "outside" /\ UNCHANGED <<hop, fallback, dns, i>>
    BY <1>3, <2>2 DEF LookTyped, PcAll, InRange
  <2>3. CASE AfterAddresses(next(heard))
    BY <1>3, <2>3, AfterAddressesTyped
  <2> QED BY <1>1, <2>1, <2>2, <2>3
<1>5. quiet' \in BOOLEAN
  BY <1>1, QuietTyped, ZoneTyped
<1>6. OtherTyped'
  BY <1>5, OtherTypedStep DEF AskAddresses, OtherSame, OtherTyped
<1> QED BY <1>4, <1>6

\* one to the conventional resolver,
LEMMA AskOutsideTyped == TypeInv /\ AskOutside => TypeInv'
<1> SUFFICES ASSUME TypeInv, AskOutside PROVE TypeInv'
  OBVIOUS
<1> USE DEF TypeInv
<1>1. PICK heard \in AnswersFrom(TRUE) :
        /\ AfterAddresses([look EXCEPT !.addrs = Records(heard)])
        /\ QuietIf(heard = {"A", "AAAA"})
  BY DEF AskOutside
<1>2. [look EXCEPT !.addrs = Records(heard)] \in Look
  <2>1. Records(heard) \in Seq(Address)
    BY RecordsType, AnswersType
  <2> QED BY <2>1 DEF LookTyped, Look
<1>3. LookTyped' /\ InRange'
  BY <1>1, <1>2, AfterAddressesTyped
<1>4. quiet' \in BOOLEAN
  BY <1>1, QuietTyped
<1>5. OtherTyped'
  BY <1>4, OtherTypedStep DEF AskOutside, OtherSame, OtherTyped
<1> QED BY <1>3, <1>5

\* the TLSA query,
LEMMA AskTlsaTyped == TypeInv /\ AskTlsa => TypeInv'
<1> SUFFICES ASSUME TypeInv, AskTlsa PROVE TypeInv'
  OBVIOUS
<1> USE DEF TypeInv
<1> DEFINE records(heard) == IF heard THEN zone.tlsa ELSE {}
           truly == zone.signed /\ zone.key = "valid"
           secure(heard) == records(heard) # {} /\ Dnssec = "valid" /\ truly
<1>1. PICK heard \in Heard(zone.reach) :
        /\ EndDirect(look, records(heard), secure(heard))
        /\ vouched' = IF records(heard) # {} /\ cand.ds /\ truly
                      THEN vouched \cup {records(heard)} ELSE vouched
        /\ QuietIf(heard = zone.reach)
  BY DEF AskTlsa
<1>2. records(heard) \in SUBSET Tlsa
  BY ZoneTyped
<1>3. secure(heard) \in BOOLEAN /\ (secure(heard) => records(heard) # {})
  BY ZoneTyped
<1>4. LookTyped' /\ InRange'
  <2> HIDE DEF records, secure
  <2> QED BY <1>1, <1>2, <1>3, EndDirectTyped DEF LookTyped
<1>5. vouched' \in SUBSET SUBSET Tlsa
  <2> HIDE DEF records, truly
  <2> QED BY <1>1, <1>2 DEF OtherTyped
<1>6. quiet' \in BOOLEAN
  BY <1>1, QuietTyped
<1>7. OtherTyped'
  BY <1>5, <1>6, OtherTypedStep DEF AskTlsa, OtherSame
<1> QED BY <1>4, <1>7

\* the resolver's two statuses,
LEMMA ResolverStatusType ==
  \A l : ResolverStatus(l) \in {"resolver_validated", "resolver_unverified"}
BY DEF ResolverStatus

\* a round of queries to the resolver,
LEMMA AskResolverTyped == TypeInv /\ AskResolver => TypeInv'
<1> SUFFICES ASSUME TypeInv, AskResolver PROVE TypeInv'
  OBVIOUS
<1> USE DEF TypeInv
<1> DEFINE before(heard) == IF Here(hop) = "outside" /\ heard # {} THEN NoLook ELSE look
           addrs(heard) == IF Here(hop) = "addresses" THEN Records(heard) ELSE <<>>
           next(heard) == [before(heard) EXCEPT !.heard = @ \/ heard # {},
                                                !.ad = @ /\ (heard = {} \/ zone.ad),
                                                !.addrs = addrs(heard)]
<1>1. PICK heard \in AnswersFrom(zone.up) :
        /\ \/ Follow(heard) /\ look' = next(heard)
           \/ /\ next(heard).addrs # <<>>
              /\ pc' = "resolver tlsa" /\ look' = next(heard)
              /\ UNCHANGED <<hop, fallback, dns, i>>
           \/ /\ next(heard).addrs # <<>>
              /\ LookedUp([Nothing("resolved", ResolverStatus(next(heard)))
                             EXCEPT !.addrs = Taken(next(heard).addrs)])
           \/ LookedUp(Nothing("no_address", ResolverStatus(next(heard))))
           \/ LookedUp(fallback)
        /\ QuietIf(zone.up => heard = {"A", "AAAA"})
  BY ZenonT(60) DEF AskResolver
<1>2. addrs(heard) \in Seq(Address)
  <2>1. Records(heard) \in Seq(Address) /\ <<>> \in Seq(Address)
    BY RecordsType, AnswersType
  <2> QED BY <2>1
<1>3. before(heard) \in Look
  BY NoLookType DEF LookTyped
<1>4. next(heard) \in Look
  <2> HIDE DEF addrs, before
  <2> QED BY <1>2, <1>3, ZoneTyped DEF Look
<1> HIDE DEF next
<1> DEFINE status == ResolverStatus(next(heard))
<1>5. status \in {"resolver_validated", "resolver_unverified"}
  BY ResolverStatusType
<1>6. LookTyped' /\ InRange'
  <2>1. CASE Follow(heard) /\ look' = next(heard)
    <3>1. pc \in {"addresses", "resolver"}
      BY DEF AskResolver
    <3>2. look' \in Look
      BY <1>4, <2>1
    <3> QED BY <2>1, <3>1, <3>2, FollowTyped
  <2>2. CASE /\ next(heard).addrs # <<>>
             /\ pc' = "resolver tlsa" /\ look' = next(heard)
             /\ UNCHANGED <<hop, fallback, dns, i>>
    BY <1>4, <2>2 DEF LookTyped, PcAll, InRange
  <2>3. CASE /\ next(heard).addrs # <<>>
             /\ LookedUp([Nothing("resolved", status) EXCEPT !.addrs = Taken(next(heard).addrs)])
    <3> DEFINE taken == Taken(next(heard).addrs)
               result == [Nothing("resolved", status) EXCEPT !.addrs = taken]
    <3>1. taken \in Seq(Address) /\ Len(taken) <= MaxAddresses /\ taken # <<>>
      BY <1>4, <2>3, TakenType DEF Look
    <3> HIDE DEF taken, status
    <3>2. result \in DnsResult
      BY <1>5, <3>1 DEF Nothing, DnsResult
    <3>3. result \in OkResult
      BY <3>1, <3>2 DEF OkResult, Consistent, Nothing
    <3> HIDE DEF result
    <3>4. LookedUp(result)
      BY <2>3 DEF result, taken, status
    <3> QED BY <3>3, <3>4, LookedUpTyped
  <2>4. CASE LookedUp(Nothing("no_address", status))
    <3>1. Nothing("no_address", status) \in OkResult
      BY <1>5, NothingType DEF NoAddress
    <3> QED BY <2>4, <3>1, LookedUpTyped
  <2>5. CASE LookedUp(fallback)
    <3>1. fallback \in OkResult
      BY DEF LookTyped, NoAddress
    <3> QED BY <2>5, <3>1, LookedUpTyped
  <2> QED BY <1>1, <2>1, <2>2, <2>3, <2>4, <2>5
<1>12. quiet' \in BOOLEAN
  BY <1>1, QuietTyped, ZoneTyped
<1>13. OtherTyped'
  BY <1>12, OtherTypedStep DEF AskResolver, OtherSame, OtherTyped
<1> QED BY <1>6, <1>13

\* its TLSA query,
LEMMA AskResolverTlsaTyped == TypeInv /\ AskResolverTlsa => TypeInv'
<1> SUFFICES ASSUME TypeInv, AskResolverTlsa PROVE TypeInv'
  OBVIOUS
<1> USE DEF TypeInv
<1> DEFINE records(heard) == IF heard THEN zone.tlsa ELSE {}
           result(heard) == [status |-> "resolved", addrs |-> Taken(look.addrs),
                             dnssec |-> ResolverStatus(look), tlsa |-> records(heard),
                             secure |-> records(heard) # {} /\ zone.ad]
<1>1. PICK heard \in Heard(zone.up) :
        /\ LookedUp(result(heard))
        /\ vouched' = IF records(heard) # {} /\ zone.ad THEN vouched \cup {records(heard)} ELSE vouched
        /\ QuietIf(heard = zone.up)
  BY DEF AskResolverTlsa
<1>2. records(heard) \in SUBSET Tlsa
  BY ZoneTyped
<1>3. vouched' \in SUBSET SUBSET Tlsa
  <2> HIDE DEF records
  <2> QED BY <1>1, <1>2 DEF OtherTyped
<1>4. quiet' \in BOOLEAN
  BY <1>1, QuietTyped
<1>5. OtherTyped'
  BY <1>3, <1>4, OtherTypedStep DEF AskResolverTlsa, OtherSame
<1>6. result(heard) \in OkResult
  <2>1. look.addrs \in Seq(Address) /\ look.addrs # <<>>
    BY DEF LookTyped, Look, InRange, AskResolverTlsa
  <2>2. Taken(look.addrs) \in Seq(Address) /\ Len(Taken(look.addrs)) <= MaxAddresses
          /\ Taken(look.addrs) # <<>>
    BY <2>1, TakenType
  <2>3. (records(heard) # {} /\ zone.ad) \in BOOLEAN
    BY ZoneTyped
  <2> HIDE DEF records
  <2>4. result(heard) \in DnsResult
    BY <1>2, <2>2, <2>3, ResolverStatusType DEF DnsResult
  <2> QED BY <2>2, <2>4 DEF OkResult, Consistent
<1>7. LookTyped' /\ InRange'
  BY <1>1, <1>6, LookedUpTyped
<1> QED BY <1>5, <1>7

-----------------------------------------------------------------------------
(* The web and the verdict *)

\* what a web server shows,
LEMMA ServerTyped ==
  ASSUME TypeInv, i <= Len(dns.addrs)
  PROVE  Server.http \in BOOLEAN /\ Server.cert \in Certs \cup {None}
<1>1. dns.addrs \in Seq(Address) /\ i \in 1 .. Len(dns.addrs)
  BY DEF TypeInv, LookTyped, OkResult, DnsResult
<1>2. dns.addrs[i] \in Address
  BY <1>1
<1> QED BY <1>2, ZoneTyped DEF TypeInv, Server

\* plain HTTP,
LEMMA AskHttpTyped == TypeInv /\ AskHttp => TypeInv'
<1> SUFFICES ASSUME TypeInv, AskHttp PROVE TypeInv'
  OBVIOUS
<1> USE DEF TypeInv
<1>1. CASE i > Len(dns.addrs) /\ pc' = "https" /\ i' = 1 /\ UNCHANGED <<http, quiet>>
  BY <1>1 DEF AskHttp, LookTyped, OtherTyped, InRange, PcAll, lookVars, worldVars
<1>2. CASE /\ i <= Len(dns.addrs)
           /\ \E answer \in Heard(Server.http) :
                /\ http' = answer
                /\ i' = IF answer THEN 1 ELSE i + 1
                /\ pc' = IF answer THEN "https" ELSE "http"
                /\ QuietIf(answer = Server.http)
  <2>1. PICK answer \in Heard(Server.http) :
          /\ http' = answer
          /\ i' = IF answer THEN 1 ELSE i + 1
          /\ pc' = IF answer THEN "https" ELSE "http"
          /\ QuietIf(answer = Server.http)
    BY <1>2
  <2>2. answer \in BOOLEAN
    BY <1>2, ServerTyped, AnswersType
  <2>3. i' \in Nat \ {0} /\ pc' \in {"http", "https"} /\ http' \in BOOLEAN
    BY <2>1, <2>2 DEF LookTyped
  <2>4. quiet' \in BOOLEAN
    BY <2>1, QuietTyped
  <2>5. LookTyped' /\ InRange'
    <3>1. pc' \in PcAll /\ InRange'
      BY <2>3 DEF PcAll, InRange
    <3> QED BY <2>3, <3>1 DEF AskHttp, LookTyped, lookVars
  <2>6. OtherTyped'
    BY <2>3, <2>4 DEF AskHttp, OtherTyped, lookVars, worldVars
  <2> QED BY <2>5, <2>6
<1> QED BY <1>1, <1>2 DEF AskHttp

\* a response to HTTPS,
LEMMA RespondTyped ==
  ASSUME TypeInv, NEW response \in WebResult, Respond(response)
  PROVE  /\ pc' \in {"https", "responded"} /\ i' \in Nat \ {0}
         /\ https' = <<>> \/ \E r \in WebResult : https' = <<r>>
<1>1. CASE https' = <<response>> /\ pc' = "responded" /\ i' = i
  BY <1>1 DEF TypeInv, LookTyped
<1>2. CASE /\ https' = IF https = <<>> THEN <<response>> ELSE https
           /\ pc' = "https" /\ i' = i + 1
  <2>1. https' = <<>> \/ \E r \in WebResult : https' = <<r>>
    <3>1. CASE https = <<>>
      BY <1>2, <3>1
    <3>2. CASE https # <<>>
      BY <1>2, <3>2 DEF TypeInv, OtherTyped
    <3> QED BY <3>1, <3>2
  <2> QED BY <1>2, <2>1 DEF TypeInv, LookTyped
<1> QED BY <1>1, <1>2 DEF Respond

\* none,
LEMMA NoResponseTyped ==
  ASSUME TypeInv, NoResponse
  PROVE  /\ pc' \in {"https", "responded"} /\ i' \in Nat \ {0}
         /\ https' = <<>> \/ \E r \in WebResult : https' = <<r>>
BY DEF NoResponse, TypeInv, LookTyped, OtherTyped

\* The rest of a step of the HTTPS search.
LEMMA SearchTyped ==
  ASSUME TypeInv, pc' \in {"https", "retry", "responded"}, i' \in Nat \ {0},
         https' = <<>> \/ \E r \in WebResult : https' = <<r>>,
         pc' = "retry" => i' <= Len(dns.addrs),
         quiet' \in BOOLEAN,
         UNCHANGED <<worldVars, cand, lookVars, http, category, vouched>>
  PROVE  TypeInv'
<1> USE DEF TypeInv
<1>1. pc' \in PcAll /\ InRange'
  BY DEF PcAll, InRange, lookVars
<1>2. LookTyped'
  BY <1>1 DEF LookTyped, lookVars
<1>3. OtherTyped'
  BY DEF OtherTyped, worldVars, lookVars
<1> QED BY <1>1, <1>2, <1>3

\* a verified connection,
LEMMA AskHttpsTyped == TypeInv /\ AskHttps => TypeInv'
<1> SUFFICES ASSUME TypeInv, AskHttps PROVE TypeInv'
  OBVIOUS
<1>1. UNCHANGED <<worldVars, cand, lookVars, http, category, vouched>>
  BY DEF AskHttps
<1>2. CASE i > Len(dns.addrs) /\ pc' = "responded" /\ UNCHANGED <<i, https, quiet>>
  <2>1. i' \in Nat \ {0} /\ quiet' \in BOOLEAN
          /\ (https' = <<>> \/ \E r \in WebResult : https' = <<r>>)
    BY <1>2 DEF TypeInv, LookTyped, OtherTyped
  <2> QED BY <1>1, <1>2, <2>1, SearchTyped
<1>3. CASE /\ i <= Len(dns.addrs)
           /\ \E answer \in Heard(Server.cert # None) :
                /\ \/ answer /\ Server.cert \in Trusted /\ Respond([cert |-> Server.cert, valid |-> TRUE])
                   \/ answer /\ Server.cert \notin Trusted /\ pc' = "retry" /\ UNCHANGED <<i, https>>
                   \/ ~answer /\ NoResponse
                /\ QuietIf(answer = (Server.cert # None))
  <2>1. PICK answer \in Heard(Server.cert # None) :
          /\ \/ answer /\ Server.cert \in Trusted /\ Respond([cert |-> Server.cert, valid |-> TRUE])
             \/ answer /\ Server.cert \notin Trusted /\ pc' = "retry" /\ UNCHANGED <<i, https>>
             \/ ~answer /\ NoResponse
          /\ QuietIf(answer = (Server.cert # None))
    BY <1>3
  <2>2. quiet' \in BOOLEAN
    BY <2>1, QuietTyped DEF TypeInv
  <2>3. answer => Server.cert \in Certs
    BY <1>3, ServerTyped DEF Heard
  <2>4. CASE answer /\ Server.cert \in Trusted /\ Respond([cert |-> Server.cert, valid |-> TRUE])
    <3>1. [cert |-> Server.cert, valid |-> TRUE] \in WebResult
      BY <2>3, <2>4 DEF WebResult
    <3>2. /\ pc' \in {"https", "responded"} /\ i' \in Nat \ {0}
          /\ https' = <<>> \/ \E r \in WebResult : https' = <<r>>
      BY <2>4, <3>1, RespondTyped
    <3> QED BY <1>1, <2>2, <3>2, SearchTyped
  <2>5. CASE answer /\ Server.cert \notin Trusted /\ pc' = "retry" /\ UNCHANGED <<i, https>>
    <3>1. /\ i' \in Nat \ {0} /\ i' <= Len(dns.addrs)
          /\ https' = <<>> \/ \E r \in WebResult : https' = <<r>>
      BY <1>3, <2>5 DEF TypeInv, LookTyped, OtherTyped
    <3> QED BY <1>1, <2>2, <2>5, <3>1, SearchTyped
  <2>6. CASE ~answer /\ NoResponse
    <3>1. /\ pc' \in {"https", "responded"} /\ i' \in Nat \ {0}
          /\ https' = <<>> \/ \E r \in WebResult : https' = <<r>>
      BY <2>6, NoResponseTyped
    <3> QED BY <1>1, <2>2, <3>1, SearchTyped
  <2> QED BY <2>1, <2>4, <2>5, <2>6
<1> QED BY <1>2, <1>3 DEF AskHttps

\* an unverified one,
LEMMA AskAgainTyped == TypeInv /\ AskAgain => TypeInv'
<1> SUFFICES ASSUME TypeInv, AskAgain PROVE TypeInv'
  OBVIOUS
<1>1. UNCHANGED <<worldVars, cand, lookVars, http, category, vouched>>
  BY DEF AskAgain
<1>2. PICK answer \in Heard(Server.cert # None) :
        /\ \/ answer /\ Respond([cert |-> Server.cert, valid |-> FALSE])
           \/ ~answer /\ NoResponse
        /\ QuietIf(answer = (Server.cert # None))
  BY DEF AskAgain
<1>3. quiet' \in BOOLEAN
  BY <1>2, QuietTyped DEF TypeInv
<1>4. i <= Len(dns.addrs)
  BY DEF AskAgain, TypeInv, InRange
<1>5. /\ pc' \in {"https", "responded"} /\ i' \in Nat \ {0}
      /\ https' = <<>> \/ \E r \in WebResult : https' = <<r>>
  <2>1. CASE answer /\ Respond([cert |-> Server.cert, valid |-> FALSE])
    <3>1. Server.cert \in Certs
      BY <1>2, <1>4, <2>1, ServerTyped DEF Heard
    <3>2. [cert |-> Server.cert, valid |-> FALSE] \in WebResult
      BY <3>1 DEF WebResult
    <3> QED BY <2>1, <3>2, RespondTyped
  <2>2. CASE ~answer /\ NoResponse
    BY <2>2, NoResponseTyped
  <2> QED BY <1>2, <2>1, <2>2
<1> QED BY <1>1, <1>3, <1>5, SearchTyped

\* the turn to the second lookup,
LEMMA RespondedTyped == TypeInv /\ Responded => TypeInv'
<1> SUFFICES ASSUME TypeInv, Responded PROVE TypeInv'
  OBVIOUS
<1>1. pc' \in {"servers", "conclude"} /\ lookup' \in {1, 2}
  BY DEF Responded, TypeInv, OtherTyped
<1>2. pc' \in PcAll /\ InRange'
  BY <1>1 DEF PcAll, InRange
<1>3. LookTyped'
  BY <1>2 DEF Responded, TypeInv, LookTyped, webVars
<1>4. OtherTyped'
  BY <1>1 DEF Responded, TypeInv, OtherTyped, webVars, auxVars, worldVars
<1> QED BY <1>2, <1>3, <1>4 DEF TypeInv

\* the verdict,
LEMMA ConcludeTyped == TypeInv /\ Conclude => TypeInv'
<1> SUFFICES ASSUME TypeInv, Conclude PROVE TypeInv'
  OBVIOUS
<1>1. category' \in {"https", "http_only", "offline"}
  BY DEF Conclude, Classified
<1>2. LookTyped' /\ InRange'
  BY DEF Conclude, TypeInv, LookTyped, PcAll, InRange, lookVars, webVars
<1>3. OtherTyped'
  BY <1>1 DEF Conclude, TypeInv, OtherTyped, lookVars, webVars, auxVars, worldVars
<1> QED BY <1>2, <1>3 DEF TypeInv

\* an error,
LEMMA ProbeErrorTyped == TypeInv /\ ProbeError => TypeInv'
<1> SUFFICES ASSUME TypeInv, ProbeError PROVE TypeInv'
  OBVIOUS
<1>1. LookTyped' /\ InRange'
  BY DEF ProbeError, TypeInv, LookTyped, PcAll, InRange, lookVars, webVars
<1>2. OtherTyped'
  BY DEF ProbeError, TypeInv, OtherTyped, lookVars, webVars, worldVars
<1> QED BY <1>1, <1>2 DEF TypeInv

\* and a change of the zone.
LEMMA MoveTyped == TypeInv /\ Move => TypeInv'
<1> SUFFICES ASSUME TypeInv, Move PROVE TypeInv'
  OBVIOUS
<1>1. zone' \in Zone /\ moves' \in Nat
  BY ProbeAssumption DEF Move, TypeInv, OtherTyped
<1>2. LookTyped' /\ InRange'
  BY DEF Move, TypeInv, LookTyped, InRange, lookVars, webVars
<1>3. OtherTyped'
  BY <1>1 DEF Move, TypeInv, OtherTyped, lookVars, webVars
<1> QED BY <1>2, <1>3 DEF TypeInv

\* Every step keeps the types.
LEMMA TypeInvStep == TypeInv /\ [Next]_vars => TypeInv'
<1> SUFFICES ASSUME TypeInv, [Next]_vars PROVE TypeInv'
  OBVIOUS
<1>1. CASE Step
  BY <1>1, FindServersTyped, AskDnskeyTyped, AskAddressesTyped, AskOutsideTyped, AskTlsaTyped,
     AskResolverTyped, AskResolverTlsaTyped, AskHttpTyped, AskHttpsTyped, AskAgainTyped,
     RespondedTyped, ConcludeTyped DEF Step
<1>2. CASE ProbeError
  BY <1>2, ProbeErrorTyped
<1>3. CASE Move
  BY <1>3, MoveTyped
<1>4. CASE UNCHANGED vars
  <2>1. LookTyped' /\ InRange'
    BY <1>4 DEF vars, TypeInv, LookTyped, InRange, lookVars, webVars
  <2>2. OtherTyped'
    BY <1>4 DEF vars, TypeInv, OtherTyped, lookVars, webVars, auxVars, worldVars
  <2> QED BY <2>1, <2>2 DEF TypeInv
<1> QED BY <1>1, <1>2, <1>3, <1>4 DEF Next, Done

\* The types hold in every behaviour.
LEMMA TypeInvAlways == Spec => []TypeInv
BY InitTyped, TypeInvStep, PTL DEF Spec

\* Every result of a probe is typed and consistent: a lookup is resolved exactly
\* when it has addresses, and never has more than the limit.
THEOREM ResultsConsistent == Spec => []TypeOK
<1>1. TypeInv => TypeOK
  BY DEF TypeInv, LookTyped, OtherTyped, TypeOK, PcAll, Look, OkResult, NoAddress
<1> QED BY <1>1, TypeInvAlways, PTL

-----------------------------------------------------------------------------
(* Validation *)

LookupStep ==
  \/ FindServers \/ AskDnskey \/ AskAddresses \/ AskOutside \/ AskTlsa
  \/ AskResolver \/ AskResolverTlsa

LookupPcs == {"servers", "dnskey", "addresses", "outside", "tlsa", "resolver", "resolver tlsa"}

\* A response to the addresses of the first lookup stays next to them until the
\* verdict, which is given once.
WebInv ==
  /\ cand.details => lookup = 1
  /\ lookup = 1 /\ (http \/ https # <<>>) =>
       /\ dns.addrs # <<>>
       /\ pc \in {"http", "https", "retry", "responded", "conclude", "done"}
  /\ pc # "done" => category = "offline"
  /\ Online => ~Blocked /\ category = Classified

\* No step of a lookup gives the verdict: not one that ends it,
LEMMA LookedUpPc == ASSUME NEW result, LookedUp(result) PROVE pc' # "done"
BY DEF LookedUp

\* nor one that passes it to the resolver,
LEMMA ToResolverPc == ASSUME NEW result, ToResolver(result) PROVE pc' # "done"
BY DEF ToResolver

\* nor what the servers end,
LEMMA EndDirectPc ==
  ASSUME NEW l, NEW tlsa, NEW secure, EndDirect(l, tlsa, secure) PROVE pc' # "done"
<1> DEFINE result(status) == [status |-> status, addrs |-> Taken(l.addrs), dnssec |-> Dnssec,
                              tlsa |-> tlsa, secure |-> secure]
<1>1. \/ LookedUp(result("resolved"))
      \/ ToResolver(result(IF l.heard THEN "no_address" ELSE "unreachable"))
  BY Zenon DEF EndDirect
<1> HIDE DEF result
<1> QED BY <1>1, LookedUpPc, ToResolverPc

\* nor what comes after the addresses,
LEMMA AfterAddressesPc == ASSUME NEW l, AfterAddresses(l) PROVE pc' # "done"
BY EndDirectPc DEF AfterAddresses

\* nor an alias.
LEMMA FollowPc ==
  ASSUME NEW heard, pc \in LookupPcs, Follow(heard) PROVE pc' # "done"
BY DEF Follow, LookupPcs

\* A step of a lookup touches neither the web results nor the verdict.
LEMMA LookupStepShape ==
  ASSUME LookupStep
  PROVE  /\ pc \in LookupPcs /\ pc' # "done"
         /\ UNCHANGED <<cand, lookup, http, https, category>>
<1>1. CASE FindServers
  <2>1. \/ ToResolver(Nothing("no_bootstrap", "unknown"))
        \/ pc' = IF Details /\ cand.ds THEN "dnskey" ELSE "addresses"
    BY <1>1 DEF FindServers
  <2> QED BY <1>1, <2>1, ToResolverPc DEF FindServers, LookupPcs
<1>2. CASE AskDnskey
  BY <1>2 DEF AskDnskey, LookupPcs, webVars
<1>3. CASE AskAddresses
  <2>1. pc \in LookupPcs /\ UNCHANGED <<cand, lookup, http, https, category>>
    BY <1>3 DEF AskAddresses, LookupPcs
  <2>2. (\E heard : Follow(heard)) \/ pc' = "outside" \/ \E l : AfterAddresses(l)
    BY <1>3, Zenon DEF AskAddresses
  <2> QED BY <2>1, <2>2, FollowPc, AfterAddressesPc
<1>4. CASE AskOutside
  <2>1. \E l : AfterAddresses(l)
    BY <1>4, Zenon DEF AskOutside
  <2> QED BY <1>4, <2>1, AfterAddressesPc DEF AskOutside, LookupPcs
<1>5. CASE AskTlsa
  <2>1. \E tlsa, secure : EndDirect(look, tlsa, secure)
    BY <1>5, Zenon DEF AskTlsa
  <2> QED BY <1>5, <2>1, EndDirectPc DEF AskTlsa, LookupPcs
<1>6. CASE AskResolver
  <2>1. pc \in LookupPcs /\ UNCHANGED <<cand, lookup, http, https, category>>
    BY <1>6 DEF AskResolver, LookupPcs
  <2>2. (\E heard : Follow(heard)) \/ pc' = "resolver tlsa" \/ \E result : LookedUp(result)
    BY <1>6, ZenonT(60) DEF AskResolver
  <2> QED BY <2>1, <2>2, FollowPc, LookedUpPc
<1>7. CASE AskResolverTlsa
  <2>1. \E result : LookedUp(result)
    BY <1>7, Zenon DEF AskResolverTlsa
  <2> QED BY <1>7, <2>1, LookedUpPc DEF AskResolverTlsa, LookupPcs
<1> QED BY <1>1, <1>2, <1>3, <1>4, <1>5, <1>6, <1>7 DEF LookupStep

\* A probe starts without responses and without a verdict.
LEMMA WebInvInit == Init => WebInv
BY DEF Init, WebInv, Online

\* A lookup has no response of its own to keep.
LEMMA LookupStepWeb == WebInv /\ LookupStep => WebInv'
<1> SUFFICES ASSUME WebInv, LookupStep PROVE WebInv'
  OBVIOUS
<1>1. /\ UNCHANGED <<cand, lookup, http, https, category>> /\ pc # "done" /\ pc' # "done"
      /\ pc \notin {"http", "https", "retry", "responded", "conclude", "done"}
  BY LookupStepShape DEF LookupPcs
<1>2. ~(lookup = 1 /\ (http \/ https # <<>>))
  BY <1>1 DEF WebInv
<1> QED BY <1>1, <1>2 DEF WebInv, Online

\* A step of the web probes leaves the lookup alone and gives no verdict.
LEMMA WebStepWeb ==
  ASSUME TypeInv, WebInv, AskHttp \/ AskHttps \/ AskAgain
  PROVE  WebInv'
<1>1. /\ UNCHANGED <<cand, dns, lookup, category>>
      /\ pc \in {"http", "https", "retry"} /\ pc' \in {"http", "https", "retry", "responded"}
  BY DEF AskHttp, AskHttps, AskAgain, Respond, NoResponse, lookVars
<1>2. lookup = 1 /\ (http' \/ https' # <<>>) => dns.addrs # <<>>
  <2>1. CASE i > Len(dns.addrs) /\ UNCHANGED <<http, https>>
    BY <2>1 DEF WebInv
  <2>2. CASE i <= Len(dns.addrs)
    <3>1. dns.addrs \in Seq(Address) /\ i \in Nat \ {0}
      BY DEF TypeInv, LookTyped, OkResult, DnsResult
    <3> QED BY <2>2, <3>1
  <2> QED BY <2>1, <2>2 DEF AskHttp, AskHttps, AskAgain, TypeInv, InRange
<1> QED BY <1>1, <1>2 DEF WebInv, Online

\* Every step keeps what a response says of the lookup before it.
LEMMA WebInvStep == TypeInv /\ WebInv /\ [Next]_vars => WebInv'
<1> SUFFICES ASSUME TypeInv, WebInv, [Next]_vars PROVE WebInv'
  OBVIOUS
<1>1. CASE LookupStep
  BY <1>1, LookupStepWeb
<1>2. CASE AskHttp \/ AskHttps \/ AskAgain
  BY <1>2, WebStepWeb
<1>3. CASE Responded
  <2>1. /\ UNCHANGED <<cand, dns, http, https, category>>
        /\ pc = "responded" /\ pc' \in {"servers", "conclude"}
    BY <1>3 DEF Responded, webVars
  <2>2. \/ ~cand.details /\ lookup' = 2
        \/ pc' = "conclude" /\ lookup' = lookup
    BY <1>3 DEF Responded
  <2> QED BY <2>1, <2>2 DEF WebInv, Online
<1>4. CASE Conclude
  <2>1. UNCHANGED <<cand, lookup, dns, http, https>> /\ pc' = "done" /\ pc = "conclude"
    BY <1>4 DEF Conclude, lookVars, webVars
  <2>2. Blocked' = Blocked /\ Classified' = Classified
    BY <2>1 DEF Blocked, Validated, Classified, Authenticated, Dane
  <2>3. category' = IF Blocked THEN "offline" ELSE Classified
    BY <1>4 DEF Conclude
  <2>4. Online' => ~Blocked' /\ category' = Classified'
    BY <2>2, <2>3 DEF Online
  <2> QED BY <2>1, <2>4 DEF WebInv
<1>5. CASE ProbeError
  BY <1>5 DEF ProbeError, WebInv, Online, lookVars, webVars
<1>6. CASE Move
  BY <1>6 DEF Move, WebInv, Online, lookVars, webVars
<1>7. CASE UNCHANGED vars
  BY <1>7 DEF vars, WebInv, Online, Blocked, Validated, Classified, Authenticated, Dane,
     lookVars, webVars
<1> QED BY <1>1, <1>2, <1>3, <1>4, <1>5, <1>6, <1>7 DEF Next, Step, LookupStep, Done

\* So it holds in every behaviour.
LEMMA WebInvAlways == Spec => []WebInv
BY WebInvInit, WebInvStep, TypeInvAlways, PTL, InitTyped DEF Spec

\* A detailed probe never reports a host online that has a DS at its parent, or
\* was admitted by a preflight, unless its one lookup was validated.
THEOREM QueuedValidated == Spec => []QueuedIsValidated
<1>1. TypeInv /\ WebInv => QueuedIsValidated
  <2> SUFFICES ASSUME TypeInv, WebInv, Online, MustValidate, cand.details PROVE Validated
    BY DEF QueuedIsValidated
  <2>1. http \/ https # <<>>
    BY DEF WebInv, Online, Classified
  <2>2. dns.addrs # <<>>
    BY <2>1 DEF WebInv
  <2>3. dns.status = "resolved"
    BY <2>2 DEF TypeInv, LookTyped, OkResult, Consistent
  <2> QED BY <2>3 DEF WebInv, Blocked, MustValidate
<1> QED BY <1>1, TypeInvAlways, WebInvAlways, PTL

-----------------------------------------------------------------------------
(* Authentication *)

\* A verified connection showed a trusted certificate; a secure TLSA set was read
\* from a signed answer.
AuthInv ==
  /\ https # <<>> /\ https[1].valid => https[1].cert \in Trusted
  /\ dns.secure => dns.tlsa \in vouched
  /\ fallback.secure => fallback.tlsa \in vouched

\* The lookups that end or pass to the resolver with a result.
LEMMA ResultVouched ==
  ASSUME AuthInv, NEW result, LookedUp(result) \/ ToResolver(result), https' = https,
         vouched \subseteq vouched', result.secure => result.tlsa \in vouched'
  PROVE  AuthInv'
<1>1. CASE LookedUp(result)
  BY <1>1 DEF AuthInv, LookedUp
<1>2. CASE ToResolver(result)
  BY <1>2 DEF AuthInv, ToResolver
<1> QED BY <1>1, <1>2

\* The ones that go on.
LEMMA SameResults ==
  ASSUME AuthInv, UNCHANGED <<fallback, dns, https>>, vouched \subseteq vouched'
  PROVE  AuthInv'
BY DEF AuthInv

\* A result of the servers is secure only if its TLSA set was vouched for,
LEMMA EndDirectVouched ==
  ASSUME AuthInv, NEW l, NEW tlsa, NEW secure, EndDirect(l, tlsa, secure), https' = https,
         vouched \subseteq vouched', secure => tlsa \in vouched'
  PROVE  AuthInv'
<1> DEFINE result(status) == [status |-> status, addrs |-> Taken(l.addrs), dnssec |-> Dnssec,
                              tlsa |-> tlsa, secure |-> secure]
<1>1. \E status : LookedUp(result(status)) \/ ToResolver(result(status))
  BY Zenon DEF EndDirect
<1>2. \A status : result(status).secure = secure /\ result(status).tlsa = tlsa
  OBVIOUS
<1> HIDE DEF result
<1> QED BY <1>1, <1>2, ResultVouched

\* also when it is ended without TLSA records.
LEMMA AfterAddressesVouched ==
  ASSUME AuthInv, NEW l, AfterAddresses(l), UNCHANGED <<https, vouched>>
  PROVE  AuthInv'
BY EndDirectVouched, SameResults DEF AfterAddresses

\* A result without addresses is not secure.
LEMMA NothingInsecure ==
  \A status, dnssec : ~Nothing(status, dnssec).secure
BY DEF Nothing

\* Every step of a lookup keeps its results vouched for.
LEMMA LookupStepAuth == AuthInv /\ LookupStep => AuthInv'
<1> SUFFICES ASSUME AuthInv, LookupStep PROVE AuthInv'
  OBVIOUS
<1>0. https' = https
  BY LookupStepShape
<1>1. CASE FindServers
  <2>1. CASE ToResolver(Nothing("no_bootstrap", "unknown"))
    BY <1>0, <1>1, <2>1, ResultVouched, NothingInsecure DEF FindServers
  <2>2. CASE UNCHANGED <<fallback, dns>>
    BY <1>0, <1>1, <2>2, SameResults DEF FindServers
  <2> QED BY <1>1, <2>1, <2>2 DEF FindServers
<1>2. CASE AskDnskey
  BY <1>0, <1>2, SameResults DEF AskDnskey
<1>3. CASE AskAddresses
  <2>1. (\E l : AfterAddresses(l)) \/ UNCHANGED <<fallback, dns>>
    BY <1>3, Zenon DEF AskAddresses, Follow
  <2> QED BY <1>0, <1>3, <2>1, SameResults, AfterAddressesVouched DEF AskAddresses
<1>4. CASE AskOutside
  <2>1. \E l : AfterAddresses(l)
    BY <1>4, Zenon DEF AskOutside
  <2> QED BY <1>0, <1>4, <2>1, AfterAddressesVouched DEF AskOutside
<1>5. CASE AskTlsa
  <2> DEFINE records(heard) == IF heard THEN zone.tlsa ELSE {}
             truly == zone.signed /\ zone.key = "valid"
             secure(heard) == records(heard) # {} /\ Dnssec = "valid" /\ truly
  <2>1. PICK heard \in Heard(zone.reach) :
          /\ EndDirect(look, records(heard), secure(heard))
          /\ vouched' = IF records(heard) # {} /\ cand.ds /\ truly
                        THEN vouched \cup {records(heard)} ELSE vouched
    BY <1>5, ZenonT(60) DEF AskTlsa
  <2>2. Dnssec = "valid" => cand.ds
    BY DEF Dnssec
  <2>3. vouched \subseteq vouched'
    <3> HIDE DEF records, truly
    <3> QED BY <2>1
  <2>4. secure(heard) => records(heard) \in vouched'
    <3> HIDE DEF records, truly
    <3> QED BY <2>1, <2>2
  <2> HIDE DEF records, truly, secure
  <2> QED BY <1>0, <2>1, <2>3, <2>4, EndDirectVouched
<1>6. CASE AskResolver
  <2>1. \/ UNCHANGED <<fallback, dns>>
        \/ \E status, addrs :
             LookedUp([Nothing("resolved", status) EXCEPT !.addrs = addrs])
        \/ \E status : LookedUp(Nothing("no_address", status))
        \/ LookedUp(fallback)
    BY <1>6, ZenonT(60) DEF AskResolver, Follow
  <2>2. \A status, addrs : ~[Nothing("resolved", status) EXCEPT !.addrs = addrs].secure
    BY DEF Nothing
  <2>3. vouched' = vouched
    BY <1>6 DEF AskResolver
  <2>4. fallback.secure => fallback.tlsa \in vouched'
    BY <2>3 DEF AuthInv
  <2> QED BY <1>0, <2>1, <2>2, <2>3, <2>4, ResultVouched, SameResults, NothingInsecure
<1>7. CASE AskResolverTlsa
  <2> DEFINE records(heard) == IF heard THEN zone.tlsa ELSE {}
             result(heard) == [status |-> "resolved", addrs |-> Taken(look.addrs),
                               dnssec |-> ResolverStatus(look), tlsa |-> records(heard),
                               secure |-> records(heard) # {} /\ zone.ad]
  <2>1. PICK heard \in Heard(zone.up) :
          /\ LookedUp(result(heard))
          /\ vouched' = IF records(heard) # {} /\ zone.ad
                        THEN vouched \cup {records(heard)} ELSE vouched
    BY <1>7 DEF AskResolverTlsa
  <2> HIDE DEF records
  <2>2. vouched \subseteq vouched'
    BY <2>1
  <2>3. result(heard).secure => result(heard).tlsa \in vouched'
    BY <2>1
  <2> HIDE DEF result
  <2> QED BY <1>0, <2>1, <2>2, <2>3, ResultVouched
<1> QED BY <1>1, <1>2, <1>3, <1>4, <1>5, <1>6, <1>7 DEF LookupStep

\* A response that is kept as valid showed a trusted certificate.
LEMMA RespondAuth ==
  ASSUME AuthInv, NEW response, Respond(response), response.valid => response.cert \in Trusted,
         UNCHANGED <<fallback, dns, vouched>>
  PROVE  AuthInv'
<1>1. https' = <<response>> \/ https' = https
  BY DEF Respond
<1>2. CASE https' = <<response>>
  BY <1>2 DEF AuthInv
<1>3. CASE https' = https
  BY <1>3, SameResults
<1> QED BY <1>1, <1>2, <1>3

\* Every step keeps the authentication invariant,
LEMMA AuthInvStep == AuthInv /\ [Next]_vars => AuthInv'
<1> SUFFICES ASSUME AuthInv, [Next]_vars PROVE AuthInv'
  OBVIOUS
<1>1. CASE LookupStep
  BY <1>1, LookupStepAuth
<1>2. CASE AskHttp
  BY <1>2, SameResults DEF AskHttp, lookVars
<1>3. CASE AskHttps
  <2>1. \/ https' = https
        \/ Server.cert \in Trusted /\ Respond([cert |-> Server.cert, valid |-> TRUE])
    BY <1>3 DEF AskHttps, NoResponse
  <2> QED BY <1>3, <2>1, SameResults, RespondAuth DEF AskHttps, lookVars
<1>4. CASE AskAgain
  <2>1. https' = https \/ Respond([cert |-> Server.cert, valid |-> FALSE])
    BY <1>4 DEF AskAgain, NoResponse
  <2> QED BY <1>4, <2>1, SameResults, RespondAuth DEF AskAgain, lookVars
<1>5. CASE Responded \/ Conclude \/ ProbeError \/ Move \/ UNCHANGED vars
  BY <1>5, SameResults DEF Responded, Conclude, ProbeError, Move, vars, lookVars, webVars, auxVars
<1> QED BY <1>1, <1>2, <1>3, <1>4, <1>5 DEF Next, Step, LookupStep, Done

\* so it holds in every behaviour.
LEMMA AuthInvAlways == Spec => []AuthInv
<1>1. Init => AuthInv
  BY NothingInsecure DEF Init, AuthInv
<1> QED BY <1>1, AuthInvStep, PTL DEF Spec

\* A host is reported under https only on a verified connection with a trusted
\* certificate, or on one whose certificate a TLSA record from a signed answer
\* names, whatever was lost or changed during the probe.
THEOREM HttpsAuthenticated == Spec => []HttpsIsAuthenticated
<1>1. WebInv /\ AuthInv => HttpsIsAuthenticated
  <2> SUFFICES ASSUME WebInv, AuthInv, Online, category = "https"
               PROVE  \/ https[1].valid /\ https[1].cert \in Trusted
                      \/ /\ dns.tlsa \in vouched
                         /\ \E record \in dns.tlsa : record.cert = https[1].cert
    BY DEF HttpsIsAuthenticated
  <2>1. https # <<>> /\ Authenticated(dns, https[1])
    BY DEF WebInv, Classified
  <2>2. CASE https[1].valid
    BY <2>1, <2>2 DEF AuthInv
  <2>3. CASE Dane(dns, https[1])
    BY <2>3 DEF AuthInv, Dane
  <2> QED BY <2>1, <2>2, <2>3 DEF Authenticated
<1> QED BY <1>1, WebInvAlways, AuthInvAlways, PTL

-----------------------------------------------------------------------------
(* The verdict of an undisturbed probe *)

\* An ordinary configuration: an alias within a zone can be followed and all the
\* addresses of a host are tried (the code follows five and tries two).
Roomy == MaxHops >= 2 /\ MaxAddresses >= 2

\* Where the lookup of a client that sees the whole zone would end, and what the
\* authoritative servers themselves give.
TheAddresses == IF UsesServers THEN DirectAddresses ELSE ResolverAddresses
ServedAddresses == IF zone.reach THEN DirectAddresses ELSE <<>>

\* Aliases are followed only where there are some.
HopFits == hop > 0 => zone.alias = "loop" \/ (zone.alias = "inside" /\ hop = 1)

\* The DNSKEY set was read where the lookup needs it.
KeyRead == Details /\ cand.ds => look.key = IF zone.reach THEN zone.key ELSE "dnskey_missing"

\* A result is what such a client would find.
Found(result) ==
  /\ result.addrs = TheAddresses
  /\ result.addrs # <<>> =>
       IF Details
       THEN /\ result.dnssec \in {"valid", "resolver_validated"} <=> Secure
            /\ result.tlsa = zone.tlsa
            /\ result.secure <=> zone.tlsa # {} /\ Secure /\ (UsesServers => zone.signed)
       ELSE ~result.secure

\* The running lookup is on the way to such a result.
LookInv ==
  /\ pc \in {"servers", "dnskey", "http", "https", "retry", "responded"} => hop = 0
  /\ pc = "dnskey" => ~cand.preflight
  /\ pc \in {"addresses", "outside", "tlsa"} => ~cand.preflight /\ KeyRead
  /\ pc \in {"addresses", "resolver"} => HopFits
  /\ pc = "outside" => zone.reach /\ zone.alias = "outside"
  /\ pc = "tlsa" => Details /\ look.addrs = ServedAddresses
  /\ pc = "resolver" =>
       /\ ~UsesServers /\ fallback.addrs = <<>>
       /\ look.heard => look.ad = zone.ad
       /\ ~look.heard => look.ad
  /\ pc = "resolver tlsa" =>
       /\ ~UsesServers /\ Details
       /\ look.heard /\ look.ad = zone.ad /\ look.addrs = ResolverAddresses

\* What the server of an address shows.
Shown(a) == [cert |-> zone.web[a].cert, valid |-> zone.web[a].cert \in Trusted]
Unproved(a) == zone.web[a].cert = None \/ ~Authenticated(dns, Shown(a))

\* What was asked of the servers, and what is kept of it.
SearchInv ==
  /\ pc \in {"http", "https", "retry", "responded", "conclude"} => Found(dns)
  /\ pc \in {"http", "https", "retry", "responded"} => lookup = 1
  /\ pc = "http" =>
       /\ ~http /\ https = <<>>
       /\ \A j \in DOMAIN dns.addrs : j < i => ~zone.web[dns.addrs[j]].http
  /\ lookup = 2 \/ pc \in {"https", "retry", "responded", "conclude"} =>
       (http <=> \E a \in Reachable : zone.web[a].http)
  /\ https # <<>> =>
       \E a \in Reachable : zone.web[a].cert # None /\ https[1] = Shown(a)
  /\ pc \in {"https", "retry"} =>
       \A j \in DOMAIN dns.addrs : j < i => Unproved(dns.addrs[j])
  /\ pc = "retry" => Server.cert # None /\ Server.cert \notin Trusted
  /\ cand.details /\ pc \in {"responded", "conclude"} =>
       \/ https # <<>> /\ Authenticated(dns, https[1])
       \/ \A a \in Reachable : Unproved(a)
  /\ pc = "conclude" /\ ~Details => ~http /\ https = <<>>

QuietInv == quiet => LookInv /\ SearchInv /\ AgreesWhenQuiet

\* While the zone stays, so does what a client would find in it.
LEMMA WorldKept ==
  ASSUME UNCHANGED <<zone, cand>>
  PROVE  /\ UsesServers' = UsesServers /\ TheAddresses' = TheAddresses
         /\ ServedAddresses' = ServedAddresses /\ ResolverAddresses' = ResolverAddresses
         /\ Secure' = Secure /\ Reachable' = Reachable /\ Verdict' = Verdict
<1>1. Records({"A", "AAAA"})' = Records({"A", "AAAA"})
  BY DEF Records
<1>2. DirectAddresses' = DirectAddresses /\ ResolverAddresses' = ResolverAddresses
  BY <1>1 DEF DirectAddresses, ResolverAddresses
<1>3. UsesServers' = UsesServers
  BY <1>2 DEF UsesServers
<1>4. Secure' = Secure
  BY <1>3 DEF Secure
<1>5. Reachable' = Reachable
  BY <1>2, <1>3 DEF Reachable
<1>6. SecureTlsa' = SecureTlsa
  BY <1>3, <1>4 DEF SecureTlsa
<1>7. Verdict' = Verdict
  BY <1>4, <1>5, <1>6 DEF Verdict, MustValidate
<1> QED BY <1>2, <1>3, <1>4, <1>5, <1>7 DEF TheAddresses, ServedAddresses

\* The answers of the records when both queries, or neither, are answered.
LEMMA RecordsAre ==
  /\ Records({}) = <<>>
  /\ Records({"A", "AAAA"}) \in Seq(Address) /\ Len(Records({"A", "AAAA"})) <= 2
<1> DEFINE v4(heard) == IF zone.a /\ "A" \in heard THEN <<"v4">> ELSE <<>>
           v6(heard) == IF zone.aaaa /\ "AAAA" \in heard THEN <<"v6">> ELSE <<>>
<1>0. <<>> \in Seq(Address) /\ <<"v4">> \in Seq(Address) /\ <<"v6">> \in Seq(Address)
        /\ Len(<<>>) = 0 /\ Len(<<"v4">>) = 1 /\ Len(<<"v6">>) = 1
  BY DEF Address
<1>1. \A heard : Records(heard) = v4(heard) \o v6(heard)
  BY DEF Records
<1>2. v4({}) = <<>> /\ v6({}) = <<>> /\ <<>> \o <<>> = <<>>
  OBVIOUS
<1>3. \A heard : v4(heard) \in {<<>>, <<"v4">>} /\ v6(heard) \in {<<>>, <<"v6">>}
  OBVIOUS
<1>4. \A heard : /\ v4(heard) \in Seq(Address) /\ Len(v4(heard)) <= 1
                 /\ v6(heard) \in Seq(Address) /\ Len(v6(heard)) <= 1
  BY <1>0, <1>3
<1> HIDE DEF v4, v6
<1> QED BY <1>1, <1>2, <1>4

\* A host has at most two addresses,
LEMMA ServedFew ==
  /\ ServedAddresses \in Seq(Address) /\ Len(ServedAddresses) <= 2
  /\ ResolverAddresses \in Seq(Address) /\ Len(ResolverAddresses) <= 2
<1>1. <<>> \in Seq(Address) /\ Len(<<>>) = 0
  OBVIOUS
<1> QED BY <1>1, RecordsAre DEF ServedAddresses, ResolverAddresses, DirectAddresses

\* and an ordinary configuration takes them all.
LEMMA AllTaken ==
  ASSUME Roomy, NEW addrs \in Seq(Address), Len(addrs) <= 2
  PROVE  Taken(addrs) = addrs
<1>1. (IF Len(addrs) < MaxAddresses THEN Len(addrs) ELSE MaxAddresses) = Len(addrs)
  BY ProbeAssumption DEF Roomy
<1>2. SubSeq(addrs, 1, Len(addrs)) = addrs
  OBVIOUS
<1> QED BY <1>1, <1>2 DEF Taken


\* Where a lookup ends with a result a client would find, the search of a web
\* server begins, or the verdict of the second lookup follows.
LEMMA LookupEnds ==
  ASSUME TypeInv, WebInv, LookInv, SearchInv, pc \in LookupPcs,
         UNCHANGED <<zone, cand, lookup, http, https>>,
         NEW result, LookedUp(result), Found(result)
  PROVE  LookInv' /\ SearchInv' /\ pc' # "done"
<1>1. pc' = (IF lookup = 1 THEN "http" ELSE "conclude") /\ i' = 1 /\ hop' = 0 /\ dns' = result
  BY DEF LookedUp
<1>2. lookup \in {1, 2} /\ (lookup = 2 => ~cand.details)
  BY DEF TypeInv, OtherTyped, WebInv
<1>3. LookInv'
  BY <1>1, <1>2 DEF LookInv
<1>4. Found(dns)'
  BY <1>1, WorldKept DEF Found, Details
<1>5. lookup = 1 => ~http /\ https = <<>>
  BY DEF WebInv, LookupPcs
<1>6. /\ lookup = 2 => (http <=> \E a \in Reachable : zone.web[a].http)
      /\ https # <<>> => \E a \in Reachable : zone.web[a].cert # None /\ https[1] = Shown(a)
  BY DEF SearchInv
<1>7. /\ lookup' = 2 => (http' <=> \E a \in Reachable' : zone'.web[a].http)
      /\ https' # <<>> => \E a \in Reachable' : zone'.web[a].cert # None /\ https'[1] = Shown(a)'
  BY <1>6, WorldKept DEF Shown
<1>8. pc' = "http" => \A j \in DOMAIN dns'.addrs : j < i' => ~zone'.web[dns'.addrs[j]].http
  <2>1. result.addrs \in Seq(Address)
    BY ServedFew DEF Found, TheAddresses, UsesServers, ServedAddresses
  <2>2. \A j \in DOMAIN result.addrs : ~(j < 1)
    BY <2>1
  <2> QED BY <1>1, <2>2
<1>9. SearchInv'
  <2>1. pc' \in {"http", "conclude"} /\ (pc' = "http" => lookup' = 1) /\ (pc' = "conclude" => lookup' = 2)
    BY <1>1, <1>2
  <2>2. pc' = "conclude" => ~cand.details' /\ Details'
    BY <1>2, <2>1 DEF Details
  <2> QED BY <1>4, <1>5, <1>7, <1>8, <2>1, <2>2 DEF SearchInv
<1> QED BY <1>1, <1>3, <1>9

\* While a lookup goes on, what the web servers showed stays true.
LEMMA LookupGoesOn ==
  ASSUME SearchInv, pc \in LookupPcs, pc' \in LookupPcs,
         UNCHANGED <<zone, cand, lookup, http, https>>
  PROVE  SearchInv'
<1>1. /\ lookup = 2 => (http <=> \E a \in Reachable : zone.web[a].http)
      /\ https # <<>> => \E a \in Reachable : zone.web[a].cert # None /\ https[1] = Shown(a)
  BY DEF SearchInv
<1>2. /\ lookup' = 2 => (http' <=> \E a \in Reachable' : zone'.web[a].http)
      /\ https' # <<>> => \E a \in Reachable' : zone'.web[a].cert # None /\ https'[1] = Shown(a)'
  BY <1>1, WorldKept DEF Shown
<1> QED BY <1>2 DEF SearchInv, LookupPcs

\* The resolver is asked where the servers have nothing.
LEMMA ToResolverQuiet ==
  ASSUME LookInv, SearchInv, pc \in LookupPcs, UNCHANGED <<zone, cand, lookup, http, https>>,
         NEW result, ToResolver(result), result.addrs = <<>>, ~UsesServers
  PROVE  LookInv' /\ SearchInv' /\ pc' # "done"
<1>1. /\ pc' = "resolver" /\ hop' = 0 /\ look' = NoLook /\ fallback' = result
  BY DEF ToResolver
<1>2. HopFits' /\ ~UsesServers' /\ fallback'.addrs = <<>> /\ ~look'.heard /\ look'.ad
  BY <1>1, WorldKept DEF HopFits, NoLook
<1>3. LookInv'
  BY <1>1, <1>2 DEF LookInv
<1> QED BY <1>1, <1>3, LookupGoesOn DEF LookupPcs

\* What the servers gave of the zone is what a client finds there, or nothing.
LEMMA EndDirectQuiet ==
  ASSUME Roomy, TypeInv, WebInv, LookInv, SearchInv, pc \in LookupPcs,
         UNCHANGED <<zone, cand, lookup, http, https>>,
         ~cand.preflight, KeyRead, NEW l \in Look, l.addrs = ServedAddresses,
         NEW tlsa, NEW secure \in BOOLEAN, EndDirect(l, tlsa, secure),
         ~Details => ~secure,
         Details /\ zone.reach =>
           /\ tlsa = zone.tlsa
           /\ secure <=> zone.tlsa # {} /\ Dnssec = "valid" /\ zone.signed /\ zone.key = "valid"
  PROVE  LookInv' /\ SearchInv' /\ pc' # "done"
<1> DEFINE result(status) == [status |-> status, addrs |-> Taken(l.addrs), dnssec |-> Dnssec,
                              tlsa |-> tlsa, secure |-> secure]
<1>0. Taken(l.addrs) = ServedAddresses
  BY AllTaken, ServedFew
<1>1. CASE l.addrs # <<>> /\ LookedUp(result("resolved"))
  <2>1. zone.reach /\ UsesServers /\ TheAddresses = ServedAddresses
    BY <1>1 DEF ServedAddresses, UsesServers, TheAddresses
  <2>2. Details => /\ Dnssec \in {"valid", "resolver_validated"} <=> Secure
                   /\ Dnssec = "valid" <=> Secure
    <3>1. zone.key \in KeyStatus
      BY ZoneTyped DEF TypeInv
    <3> QED BY <2>1, <3>1 DEF Dnssec, Secure, KeyRead, KeyStatus
  <2>3. Details => /\ tlsa = zone.tlsa
                   /\ secure <=> zone.tlsa # {} /\ Secure /\ zone.signed
    BY <2>1, <2>2 DEF Secure
  <2>4. Found(result("resolved"))
    BY <1>0, <2>1, <2>2, <2>3 DEF Found
  <2> HIDE DEF result
  <2> QED BY <1>1, <2>4, LookupEnds
<1>2. CASE l.addrs = <<>> /\ ToResolver(result(IF l.heard THEN "no_address" ELSE "unreachable"))
  <2>1. ~UsesServers
    BY <1>2 DEF UsesServers, ServedAddresses
  <2>2. \A status : result(status).addrs = <<>>
    BY <1>0, <1>2
  <2> HIDE DEF result
  <2> QED BY <1>2, <2>1, <2>2, ToResolverQuiet
<1> QED BY <1>1, <1>2 DEF EndDirect

\* The same when TLSA records are still to be asked for.
LEMMA AfterAddressesQuiet ==
  ASSUME Roomy, TypeInv, WebInv, LookInv, SearchInv, pc \in {"addresses", "outside"},
         UNCHANGED <<zone, cand, lookup, http, https>>,
         NEW l \in Look, l.addrs = ServedAddresses, l.key = look.key, AfterAddresses(l)
  PROVE  LookInv' /\ SearchInv' /\ pc' # "done"
<1>1. pc \in LookupPcs /\ ~cand.preflight /\ KeyRead
  BY DEF LookInv, LookupPcs
<1>2. CASE Details /\ look' = l /\ pc' = "tlsa" /\ UNCHANGED <<hop, fallback, dns, i>>
  <2>1. LookInv'
    <3>1. KeyRead' /\ Details'
      BY <1>1, <1>2 DEF KeyRead, Details
    <3> QED BY <1>1, <1>2, <3>1, WorldKept DEF LookInv
  <2> QED BY <1>1, <1>2, <2>1, LookupGoesOn DEF LookupPcs
<1>3. CASE ~Details /\ EndDirect(l, {}, FALSE)
  BY <1>1, <1>3, EndDirectQuiet
<1> QED BY <1>2, <1>3 DEF AfterAddresses


\* A quiet round has every answer of a source that is there.
LEMMA QuietRound ==
  ASSUME NEW source \in BOOLEAN, NEW heard \in AnswersFrom(source),
         QuietIf(source => heard = {"A", "AAAA"}), quiet'
  PROVE  heard = IF source THEN {"A", "AAAA"} ELSE {}
BY DEF AnswersFrom, QuietIf

\* A quiet answer is the true one.
LEMMA QuietAnswer ==
  ASSUME NEW b \in BOOLEAN, NEW answer \in Heard(b), QuietIf(answer = b), quiet'
  PROVE  answer = b
BY DEF QuietIf

\* Each step of an undisturbed lookup keeps it on its way: the search for servers,
LEMMA FindServersQuiet ==
  ASSUME TypeInv, WebInv, LookInv, SearchInv, FindServers, quiet'
  PROVE  LookInv' /\ SearchInv' /\ pc' # "done"
<1>0. pc \in LookupPcs /\ UNCHANGED <<zone, cand, lookup, http, https>> /\ hop = 0
  BY DEF FindServers, LookupPcs, worldVars, LookInv
<1>1. Nothing("no_bootstrap", "unknown").addrs = <<>>
  BY DEF Nothing
<1>2. CASE cand.preflight /\ ToResolver(Nothing("no_bootstrap", "unknown"))
  BY <1>0, <1>1, <1>2, ToResolverQuiet DEF UsesServers
<1>3. CASE /\ ~cand.preflight
           /\ pc' = IF Details /\ cand.ds THEN "dnskey" ELSE "addresses"
           /\ UNCHANGED <<hop, look, fallback, dns, i>>
  <2>1. pc' = "dnskey" => ~cand.preflight'
    BY <1>0, <1>3
  <2>2. pc' = "addresses" => ~cand.preflight' /\ KeyRead' /\ HopFits'
    BY <1>0, <1>3 DEF KeyRead, HopFits, Details
  <2>3. LookInv'
    BY <1>0, <1>3, <2>1, <2>2 DEF LookInv
  <2> QED BY <1>0, <1>3, <2>3, LookupGoesOn DEF LookupPcs
<1>4. CASE ~cand.preflight /\ \E found \in ServersFound :
             /\ ~found /\ ToResolver(Nothing("no_bootstrap", "unknown"))
             /\ QuietIf(cand.boot \/ found = zone.reach)
  <2>1. PICK found \in ServersFound :
          /\ ~found /\ ToResolver(Nothing("no_bootstrap", "unknown"))
          /\ QuietIf(cand.boot \/ found = zone.reach)
    BY <1>4
  <2>2. ~zone.reach
    <3>1. ~cand.boot
      BY <2>1 DEF ServersFound
    <3>2. zone.reach \in BOOLEAN
      BY ZoneTyped DEF TypeInv
    <3> QED BY <2>1, <3>1, <3>2 DEF QuietIf
  <2> QED BY <1>0, <1>1, <2>1, <2>2, ToResolverQuiet DEF UsesServers
<1> QED BY <1>2, <1>3, <1>4, Zenon DEF FindServers

\* the DNSKEY query,
LEMMA AskDnskeyQuiet ==
  ASSUME TypeInv, WebInv, LookInv, SearchInv, AskDnskey, quiet'
  PROVE  LookInv' /\ SearchInv' /\ pc' # "done"
<1>1. /\ pc = "dnskey" /\ pc' = "addresses" /\ ~cand.preflight /\ hop' = 0
      /\ UNCHANGED <<zone, cand, lookup, http, https>>
  BY DEF AskDnskey, worldVars, webVars, LookInv
<1>2. PICK heard \in Heard(zone.reach) :
        /\ look' = [look EXCEPT !.key = IF heard THEN zone.key ELSE "dnskey_missing"]
        /\ QuietIf(heard = zone.reach)
  BY DEF AskDnskey
<1>3. heard = zone.reach
  BY <1>2, ZoneTyped, QuietAnswer DEF TypeInv
<1>4. look'.key = IF zone.reach THEN zone.key ELSE "dnskey_missing"
  BY <1>2, <1>3 DEF TypeInv, LookTyped, Look
<1>5. KeyRead' /\ HopFits'
  BY <1>1, <1>4 DEF KeyRead, HopFits
<1>6. LookInv'
  BY <1>1, <1>5 DEF LookInv
<1> QED BY <1>1, <1>6, LookupGoesOn DEF LookupPcs

\* An alias followed in a quiet round is one of those the lookup can meet.
LEMMA FollowFits ==
  ASSUME TypeInv, HopFits, NEW heard, Follow(heard), zone' = zone
  PROVE  HopFits' /\ pc' = pc
<1>1. hop \in Nat /\ hop' = hop + 1 /\ pc' = pc /\ Here(hop) = "alias"
  BY DEF Follow, TypeInv, LookTyped
<1>2. zone.alias = "loop" \/ (zone.alias = "inside" /\ hop = 0)
  BY <1>1 DEF Here
<1> QED BY <1>1, <1>2 DEF HopFits

\* What a whole round gives at a name the lookup can meet, unless it goes on.
LEMMA RoundGives ==
  ASSUME Roomy, TypeInv, HopFits
  PROVE  /\ Here(hop) = "addresses" => zone.alias \in {"no", "inside"}
         /\ Here(hop) = "alias" /\ hop + 1 >= MaxHops => zone.alias = "loop"
         /\ Here(hop) = "outside" <=> zone.alias = "outside"
         /\ Here(hop) # "nothing"
<1>1. hop \in Nat /\ zone.alias \in {"no", "inside", "loop", "outside"}
  BY DEF TypeInv, LookTyped, OtherTyped, Zone
<1>2. 1 >= MaxHops <=> FALSE
  BY ProbeAssumption DEF Roomy
<1> QED BY <1>1, <1>2 DEF HopFits, Here

\* a round of address queries, at an alias, out of the zone or at the end,
LEMMA AskAddressesQuiet ==
  ASSUME Roomy, TypeInv, WebInv, LookInv, SearchInv, AskAddresses, quiet'
  PROVE  LookInv' /\ SearchInv' /\ pc' # "done"
<1> DEFINE addrs(heard) == IF Here(hop) = "addresses" THEN Records(heard) ELSE <<>>
           next(heard) == [look EXCEPT !.heard = @ \/ heard # {}, !.addrs = addrs(heard)]
<1>0. /\ pc = "addresses" /\ ~cand.preflight /\ KeyRead /\ HopFits
      /\ UNCHANGED <<zone, cand, lookup, http, https>>
  BY DEF AskAddresses, worldVars, LookInv
<1>1. PICK heard \in AnswersFrom(zone.reach) :
        /\ \/ Follow(heard) /\ look' = next(heard)
           \/ /\ Here(hop) = "outside" /\ heard # {}
              /\ look' = next(heard)
              /\ pc' = "outside"
              /\ UNCHANGED <<hop, fallback, dns, i>>
           \/ /\ \/ Here(hop) \in {"addresses", "nothing"}
                 \/ heard = {}
                 \/ Here(hop) = "alias" /\ hop + 1 >= MaxHops
              /\ AfterAddresses(next(heard))
        /\ QuietIf(zone.reach => heard = {"A", "AAAA"})
  BY Zenon DEF AskAddresses
<1>2. heard = IF zone.reach THEN {"A", "AAAA"} ELSE {}
  BY <1>1, ZoneTyped, QuietRound DEF TypeInv
<1>3. addrs(heard) \in Seq(Address)
  <2>1. Records(heard) \in Seq(Address) /\ <<>> \in Seq(Address)
    BY RecordsType, AnswersType
  <2> QED BY <2>1
<1>4. /\ next(heard) \in Look /\ next(heard).addrs = addrs(heard)
      /\ next(heard).key = look.key
  <2> HIDE DEF addrs
  <2> QED BY <1>3 DEF TypeInv, LookTyped, Look
<1>5. CASE Follow(heard) /\ look' = next(heard)
  <2> HIDE DEF next
  <2>1. HopFits' /\ pc' = "addresses"
    BY <1>0, <1>5, FollowFits
  <2>2. KeyRead'
    BY <1>0, <1>4, <1>5 DEF KeyRead, Details
  <2>3. LookInv'
    BY <1>0, <2>1, <2>2 DEF LookInv
  <2> QED BY <1>0, <2>1, <2>3, LookupGoesOn DEF LookupPcs
<1>6. CASE /\ Here(hop) = "outside" /\ heard # {}
           /\ look' = next(heard)
           /\ pc' = "outside"
  <2> HIDE DEF next
  <2>1. KeyRead'
    BY <1>0, <1>4, <1>6 DEF KeyRead, Details
  <2>2. zone.reach /\ zone.alias = "outside"
    BY <1>0, <1>2, <1>6, RoundGives
  <2>3. LookInv'
    BY <1>0, <1>6, <2>1, <2>2 DEF LookInv
  <2> QED BY <1>0, <1>6, <2>3, LookupGoesOn DEF LookupPcs
<1>7. CASE /\ \/ Here(hop) \in {"addresses", "nothing"}
              \/ heard = {}
              \/ Here(hop) = "alias" /\ hop + 1 >= MaxHops
           /\ AfterAddresses(next(heard))
  <2>1. addrs(heard) = ServedAddresses
    <3>1. CASE zone.reach
      <4>1. \/ Here(hop) = "addresses" /\ zone.alias \in {"no", "inside"}
            \/ Here(hop) = "alias" /\ zone.alias = "loop"
        BY <1>0, <1>2, <1>7, <3>1, RoundGives
      <4>2. addrs(heard) = DirectAddresses
        BY <1>2, <3>1, <4>1 DEF DirectAddresses
      <4> QED BY <3>1, <4>2 DEF ServedAddresses
    <3>2. CASE ~zone.reach
      BY <1>2, <3>2, RecordsAre DEF ServedAddresses
    <3> QED BY <3>1, <3>2
  <2> HIDE DEF next, addrs
  <2> QED BY <1>0, <1>4, <1>7, <2>1, AfterAddressesQuiet
<1> QED BY <1>1, <1>5, <1>6, <1>7

\* the addresses of an alias out of the zone,
LEMMA AskOutsideQuiet ==
  ASSUME Roomy, TypeInv, WebInv, LookInv, SearchInv, AskOutside, quiet'
  PROVE  LookInv' /\ SearchInv' /\ pc' # "done"
<1>1. /\ pc = "outside" /\ zone.reach /\ zone.alias = "outside"
      /\ UNCHANGED <<zone, cand, lookup, http, https>>
  BY DEF AskOutside, worldVars, LookInv
<1>2. PICK heard \in AnswersFrom(TRUE) :
        /\ AfterAddresses([look EXCEPT !.addrs = Records(heard)])
        /\ QuietIf(heard = {"A", "AAAA"})
  BY DEF AskOutside
<1>3. heard = {"A", "AAAA"}
  BY <1>2 DEF QuietIf
<1>4. Records(heard) = ServedAddresses
  BY <1>1, <1>3 DEF ServedAddresses, DirectAddresses
<1>5. /\ [look EXCEPT !.addrs = Records(heard)] \in Look
      /\ [look EXCEPT !.addrs = Records(heard)].addrs = ServedAddresses
      /\ [look EXCEPT !.addrs = Records(heard)].key = look.key
  BY <1>4, ServedFew DEF TypeInv, LookTyped, Look
<1> QED BY <1>1, <1>2, <1>5, AfterAddressesQuiet

\* the TLSA query,
LEMMA AskTlsaQuiet ==
  ASSUME Roomy, TypeInv, WebInv, LookInv, SearchInv, AskTlsa, quiet'
  PROVE  LookInv' /\ SearchInv' /\ pc' # "done"
<1> DEFINE records(heard) == IF heard THEN zone.tlsa ELSE {}
           truly == zone.signed /\ zone.key = "valid"
           secure(heard) == records(heard) # {} /\ Dnssec = "valid" /\ truly
<1>1. /\ pc \in LookupPcs /\ ~cand.preflight /\ KeyRead /\ Details
      /\ look.addrs = ServedAddresses
      /\ UNCHANGED <<zone, cand, lookup, http, https>>
  BY DEF AskTlsa, worldVars, LookInv, LookupPcs
<1>2. PICK heard \in Heard(zone.reach) :
        /\ EndDirect(look, records(heard), secure(heard))
        /\ QuietIf(heard = zone.reach)
  BY DEF AskTlsa
<1>3. heard = zone.reach
  BY <1>2, ZoneTyped, QuietAnswer DEF TypeInv
<1>4. look \in Look /\ secure(heard) \in BOOLEAN
  BY ZoneTyped DEF TypeInv, LookTyped
<1>5. zone.reach => /\ records(heard) = zone.tlsa
                    /\ secure(heard) <=>
                         zone.tlsa # {} /\ Dnssec = "valid" /\ zone.signed /\ zone.key = "valid"
  BY <1>3
<1> HIDE DEF records, truly, secure
<1> QED BY <1>1, <1>2, <1>4, <1>5, EndDirectQuiet


\* a round of queries to the resolver, which is secure only if all of them were,
LEMMA AskResolverQuiet ==
  ASSUME Roomy, TypeInv, WebInv, LookInv, SearchInv, AskResolver, quiet'
  PROVE  LookInv' /\ SearchInv' /\ pc' # "done"
<1> DEFINE before(heard) == IF Here(hop) = "outside" /\ heard # {} THEN NoLook ELSE look
           addrs(heard) == IF Here(hop) = "addresses" THEN Records(heard) ELSE <<>>
           next(heard) == [before(heard) EXCEPT !.heard = @ \/ heard # {},
                                                !.ad = @ /\ (heard = {} \/ zone.ad),
                                                !.addrs = addrs(heard)]
           status(heard) == ResolverStatus(next(heard))
<1>0. /\ pc = "resolver" /\ HopFits /\ ~UsesServers /\ fallback.addrs = <<>>
      /\ look.heard => look.ad = zone.ad
      /\ ~look.heard => look.ad
      /\ UNCHANGED <<zone, cand, lookup, http, https>>
  BY DEF AskResolver, worldVars, LookInv
<1>1. PICK heard \in AnswersFrom(zone.up) :
        /\ \/ Follow(heard) /\ look' = next(heard)
           \/ /\ Here(hop) # "alias" \/ heard = {} \/ hop + 1 >= MaxHops
              /\ \/ /\ next(heard).addrs # <<>> /\ Details
                    /\ pc' = "resolver tlsa" /\ look' = next(heard)
                 \/ /\ next(heard).addrs # <<>> /\ ~Details
                    /\ LookedUp([Nothing("resolved", status(heard))
                                   EXCEPT !.addrs = Taken(next(heard).addrs)])
                 \/ /\ next(heard).addrs = <<>>
                    /\ LookedUp(Nothing("no_address", status(heard)))
                 \/ /\ next(heard).addrs = <<>>
                    /\ LookedUp(fallback)
        /\ QuietIf(zone.up => heard = {"A", "AAAA"})
  BY ZenonT(60) DEF AskResolver
<1>2. heard = IF zone.up THEN {"A", "AAAA"} ELSE {}
  BY <1>1, ZoneTyped, QuietRound DEF TypeInv
<1>3. before(heard) \in Look
  BY NoLookType DEF TypeInv, LookTyped
<1>4. /\ before(heard).heard => before(heard).ad = zone.ad
      /\ ~before(heard).heard => before(heard).ad
  BY <1>0 DEF NoLook
<1>5. /\ next(heard).addrs = addrs(heard)
      /\ next(heard).heard <=> before(heard).heard \/ heard # {}
      /\ next(heard).ad <=> before(heard).ad /\ (heard = {} \/ zone.ad)
  <2> HIDE DEF before, addrs
  <2> QED BY <1>3 DEF Look
<1>6. /\ next(heard).heard => (next(heard).ad <=> zone.ad)
      /\ ~next(heard).heard => next(heard).ad
  <2> HIDE DEF before, addrs, next
  <2> QED BY <1>4, <1>5
<1>7. heard # {} => next(heard).heard
  BY <1>5
<1> HIDE DEF before, next
<1>8. TheAddresses = ResolverAddresses
  BY <1>0 DEF TheAddresses
<1>9. CASE Follow(heard) /\ look' = next(heard)
  <2>1. HopFits' /\ pc' = "resolver"
    BY <1>0, <1>9, FollowFits
  <2>2. /\ look'.heard => look'.ad = zone'.ad
        /\ ~look'.heard => look'.ad
        /\ fallback'.addrs = <<>> /\ ~UsesServers'
    <3>1. fallback' = fallback /\ next(heard).heard
      BY <1>7, <1>9 DEF Follow
    <3>2. next(heard) \in Look /\ zone.ad \in BOOLEAN
      <4>1. addrs(heard) \in Seq(Address)
        <5>1. Records(heard) \in Seq(Address) /\ <<>> \in Seq(Address)
          BY RecordsType, AnswersType
        <5> QED BY <5>1
      <4> HIDE DEF addrs
      <4> QED BY <1>3, <4>1, ZoneTyped DEF next, Look, TypeInv
    <3> QED BY <1>0, <1>6, <1>9, <3>1, <3>2, WorldKept DEF Look
  <2>3. LookInv'
    BY <2>1, <2>2 DEF LookInv
  <2> QED BY <1>0, <2>1, <2>3, LookupGoesOn DEF LookupPcs
<1>10. ASSUME Here(hop) # "alias" \/ heard = {} \/ hop + 1 >= MaxHops
       PROVE  addrs(heard) = ResolverAddresses
  <2>1. CASE zone.up
    <3>1. \/ Here(hop) = "addresses" /\ zone.alias \in {"no", "inside"}
          \/ Here(hop) = "alias" /\ zone.alias = "loop"
          \/ Here(hop) = "outside" /\ zone.alias = "outside"
      <4>1. Here(hop) \in {"addresses", "alias", "outside"}
        BY <1>0, RoundGives DEF Here
      <4>2. heard # {}
        BY <1>2, <2>1
      <4> QED BY <1>0, <1>10, <4>1, <4>2, RoundGives
    <3> QED BY <1>2, <2>1, <3>1 DEF ResolverAddresses
  <2>2. CASE ~zone.up
    BY <1>2, <2>2, RecordsAre DEF ResolverAddresses
  <2> QED BY <2>1, <2>2
<1>11. pc \in LookupPcs
  BY <1>0 DEF LookupPcs
<1>12. CASE /\ Here(hop) # "alias" \/ heard = {} \/ hop + 1 >= MaxHops
            /\ next(heard).addrs # <<>> /\ Details
            /\ pc' = "resolver tlsa" /\ look' = next(heard)
  <2>1. addrs(heard) = ResolverAddresses
    BY <1>10, <1>12
  <2>2. look'.addrs = ResolverAddresses /\ ResolverAddresses # <<>>
    BY <1>5, <1>12, <2>1
  <2>3. zone.up
    BY <2>2 DEF ResolverAddresses
  <2>4. look'.heard
    BY <1>2, <1>7, <1>12, <2>3
  <2>5. look'.ad = zone.ad
    <3>1. look'.ad \in BOOLEAN /\ zone.ad \in BOOLEAN
      <4>1. look' \in Look
        BY AskResolverTyped DEF TypeInv, LookTyped
      <4> QED BY <4>1, ZoneTyped DEF Look, TypeInv
    <3> QED BY <1>6, <1>12, <2>4, <3>1
  <2>6. ~UsesServers' /\ Details' /\ look'.ad = zone'.ad /\ look'.addrs = ResolverAddresses'
    <3>1. Details'
      BY <1>0, <1>12 DEF Details
    <3>2. ~UsesServers' /\ look'.addrs = ResolverAddresses'
      BY <1>0, <2>2, WorldKept
    <3> QED BY <1>0, <2>5, <3>1, <3>2
  <2>7. LookInv'
    BY <1>12, <2>4, <2>6 DEF LookInv
  <2> QED BY <1>0, <1>11, <1>12, <2>7, LookupGoesOn DEF LookupPcs
<1>13. CASE /\ Here(hop) # "alias" \/ heard = {} \/ hop + 1 >= MaxHops
            /\ next(heard).addrs # <<>> /\ ~Details
            /\ LookedUp([Nothing("resolved", status(heard))
                           EXCEPT !.addrs = Taken(next(heard).addrs)])
  <2> DEFINE result == [Nothing("resolved", status(heard)) EXCEPT !.addrs = Taken(next(heard).addrs)]
  <2>1. addrs(heard) = ResolverAddresses
    BY <1>10, <1>13
  <2>2. Taken(next(heard).addrs) = ResolverAddresses
    BY <1>5, <2>1, ServedFew, AllTaken
  <2>3. result.addrs = Taken(next(heard).addrs) /\ ~result.secure
    BY DEF Nothing
  <2>4. Found(result)
    <3> HIDE DEF result
    <3> QED BY <1>8, <1>13, <2>2, <2>3 DEF Found
  <2> HIDE DEF result
  <2>5. LookedUp(result)
    BY <1>13 DEF result
  <2> QED BY <1>0, <1>11, <2>4, <2>5, LookupEnds
<1>14. CASE /\ Here(hop) # "alias" \/ heard = {} \/ hop + 1 >= MaxHops
            /\ next(heard).addrs = <<>>
            /\ \E result : result.addrs = <<>> /\ LookedUp(result)
  <2>1. PICK result : result.addrs = <<>> /\ LookedUp(result)
    BY <1>14
  <2>2. addrs(heard) = ResolverAddresses
    BY <1>10, <1>14
  <2>3. Found(result)
    BY <1>5, <1>8, <1>14, <2>1, <2>2 DEF Found
  <2> QED BY <1>0, <1>11, <2>1, <2>3, LookupEnds
<1>15. \A s : Nothing("no_address", s).addrs = <<>>
  BY DEF Nothing
<1> QED
  <2> HIDE DEF status, addrs
  <2>1. CASE Follow(heard) /\ look' = next(heard)
    BY <1>9, <2>1
  <2>2. CASE /\ Here(hop) # "alias" \/ heard = {} \/ hop + 1 >= MaxHops
             /\ \/ /\ next(heard).addrs # <<>> /\ Details
                   /\ pc' = "resolver tlsa" /\ look' = next(heard)
                \/ /\ next(heard).addrs # <<>> /\ ~Details
                   /\ LookedUp([Nothing("resolved", status(heard))
                                  EXCEPT !.addrs = Taken(next(heard).addrs)])
                \/ /\ next(heard).addrs = <<>>
                   /\ \E result : result.addrs = <<>> /\ LookedUp(result)
    BY <1>12, <1>13, <1>14, <2>2
  <2> QED BY <1>0, <1>1, <1>15, <2>1, <2>2

\* and the resolver's TLSA query.
LEMMA AskResolverTlsaQuiet ==
  ASSUME Roomy, TypeInv, WebInv, LookInv, SearchInv, AskResolverTlsa, quiet'
  PROVE  LookInv' /\ SearchInv' /\ pc' # "done"
<1> DEFINE records(heard) == IF heard THEN zone.tlsa ELSE {}
           result(heard) == [status |-> "resolved", addrs |-> Taken(look.addrs),
                             dnssec |-> ResolverStatus(look), tlsa |-> records(heard),
                             secure |-> records(heard) # {} /\ zone.ad]
<1>1. /\ pc = "resolver tlsa" /\ ~UsesServers /\ Details
      /\ look.heard /\ look.ad = zone.ad /\ look.addrs = ResolverAddresses
      /\ look.addrs # <<>>
      /\ UNCHANGED <<zone, cand, lookup, http, https>>
  BY DEF AskResolverTlsa, worldVars, LookInv, TypeInv, InRange
<1>2. PICK heard \in Heard(zone.up) : LookedUp(result(heard)) /\ QuietIf(heard = zone.up)
  BY DEF AskResolverTlsa
<1>3. heard = zone.up /\ zone.up
  BY <1>1, <1>2, ZoneTyped, QuietAnswer DEF TypeInv, ResolverAddresses
<1>4. Taken(look.addrs) = ResolverAddresses
  BY <1>1, ServedFew, AllTaken
<1>5. ResolverStatus(look) \in {"valid", "resolver_validated"} <=> zone.ad
  BY <1>1 DEF ResolverStatus
<1>6. records(heard) = zone.tlsa
  BY <1>3
<1>7. Found(result(heard))
  <2> HIDE DEF records
  <2> QED BY <1>1, <1>4, <1>5, <1>6 DEF Found, TheAddresses, Secure
<1> HIDE DEF result
<1> QED BY <1>1, <1>2, <1>7, LookupEnds DEF LookupPcs

\* Every step of a lookup.
LEMMA LookupStepQuiet ==
  ASSUME Roomy, TypeInv, WebInv, LookInv, SearchInv, LookupStep, quiet'
  PROVE  LookInv' /\ SearchInv' /\ pc' # "done"
BY FindServersQuiet, AskDnskeyQuiet, AskAddressesQuiet, AskOutsideQuiet, AskTlsaQuiet,
   AskResolverQuiet, AskResolverTlsaQuiet DEF LookupStep


\* The addresses that were looked up are those a client can reach.
LEMMA ReachableAre ==
  ASSUME Found(dns)
  PROVE  /\ dns.addrs \in Seq(Address)
         /\ \A a : a \in Reachable <=> a \in Address /\ \E k \in DOMAIN dns.addrs : dns.addrs[k] = a
         /\ \A k \in DOMAIN dns.addrs : dns.addrs[k] \in Reachable
<1>1. dns.addrs = TheAddresses
  BY DEF Found
<1>2. dns.addrs \in Seq(Address)
  BY <1>1, ServedFew DEF TheAddresses, UsesServers, ServedAddresses
<1>3. \A a : a \in Reachable <=> a \in Address /\ \E k \in DOMAIN dns.addrs : dns.addrs[k] = a
  BY <1>1 DEF Reachable, TheAddresses
<1> QED BY <1>2, <1>3

\* A web step leaves the lookup and what it found.
LEMMA WebStepFound ==
  ASSUME SearchInv, pc \in {"http", "https", "retry"},
         UNCHANGED <<zone, cand, lookVars>>
  PROVE  /\ Found(dns) /\ Found(dns)' /\ lookup = 1 /\ lookup' = 1
         /\ \A a : Shown(a)' = Shown(a) /\ Unproved(a)' = Unproved(a)
<1>1. Found(dns) /\ lookup = 1 /\ lookup' = 1
  BY DEF SearchInv, lookVars
<1>2. Found(dns)'
  BY <1>1, WorldKept DEF Found, Details, lookVars
<1>3. \A a : Shown(a)' = Shown(a)
  BY DEF Shown
<1>4. \A a : Unproved(a)' = Unproved(a)
  BY <1>3 DEF Unproved, Authenticated, Dane, lookVars
<1> QED BY <1>1, <1>2, <1>3, <1>4

\* Plain HTTP is found if and only if some address serves it.
LEMMA AskHttpQuiet ==
  ASSUME TypeInv, WebInv, LookInv, SearchInv, AskHttp, quiet'
  PROVE  LookInv' /\ SearchInv' /\ pc' # "done"
<1>1. /\ pc = "http" /\ pc' \in {"http", "https"} /\ UNCHANGED <<zone, cand, lookVars>>
      /\ https' = <<>> /\ ~http
      /\ \A j \in DOMAIN dns.addrs : j < i => ~zone.web[dns.addrs[j]].http
  BY DEF AskHttp, worldVars, SearchInv
<1>2. Found(dns) /\ Found(dns)' /\ lookup' = 1
  BY <1>1, WebStepFound
<1>3. dns.addrs \in Seq(Address) /\ i \in Nat \ {0}
  BY <1>2, ReachableAre DEF TypeInv, LookTyped
<1>4. LookInv'
  BY <1>1 DEF LookInv, lookVars
<1>5. CASE i > Len(dns.addrs) /\ pc' = "https" /\ i' = 1 /\ UNCHANGED <<http, quiet>>
  <2>1. ~\E a \in Reachable : zone.web[a].http
    <3>1. \A j \in DOMAIN dns.addrs : ~zone.web[dns.addrs[j]].http
      BY <1>1, <1>3, <1>5
    <3> QED BY <1>2, <3>1, ReachableAre
  <2>2. ~http' /\ ~\E a \in Reachable' : zone'.web[a].http
    BY <1>1, <1>5, <2>1, WorldKept
  <2>3. \A j \in DOMAIN dns'.addrs : ~(j < i')
    BY <1>1, <1>3, <1>5 DEF lookVars
  <2> QED BY <1>1, <1>2, <1>4, <1>5, <2>2, <2>3 DEF SearchInv
<1>6. CASE i <= Len(dns.addrs) /\ \E answer \in Heard(Server.http) :
             /\ http' = answer
             /\ i' = IF answer THEN 1 ELSE i + 1
             /\ pc' = IF answer THEN "https" ELSE "http"
             /\ QuietIf(answer = Server.http)
  <2>1. PICK answer \in Heard(Server.http) :
          /\ http' = answer
          /\ i' = IF answer THEN 1 ELSE i + 1
          /\ pc' = IF answer THEN "https" ELSE "http"
          /\ QuietIf(answer = Server.http)
    BY <1>6
  <2>2. answer = Server.http
    BY <1>6, <2>1, ServerTyped, QuietAnswer
  <2>3. i \in DOMAIN dns.addrs
    BY <1>3, <1>6
  <2>4. CASE answer
    <3>1. \E a \in Reachable : zone.web[a].http
      BY <1>2, <2>2, <2>3, <2>4, ReachableAre DEF Server
    <3>2. http' /\ \E a \in Reachable' : zone'.web[a].http
      BY <1>1, <2>1, <2>4, <3>1, WorldKept
    <3>3. pc' = "https" /\ \A j \in DOMAIN dns'.addrs : ~(j < i')
      BY <1>1, <1>3, <2>1, <2>4 DEF lookVars
    <3> QED BY <1>1, <1>2, <1>4, <3>2, <3>3 DEF SearchInv
  <2>5. CASE ~answer
    <3>1. pc' = "http" /\ ~http' /\ i' = i + 1
      BY <2>1, <2>5
    <3>2. \A j \in DOMAIN dns.addrs : j < i' => ~zone.web[dns.addrs[j]].http
      <4>1. \A j \in DOMAIN dns.addrs : j < i' => j < i \/ j = i
        BY <1>3, <3>1
      <4> QED BY <1>1, <2>2, <2>5, <4>1 DEF Server
    <3>3. \A j \in DOMAIN dns'.addrs : j < i' => ~zone'.web[dns'.addrs[j]].http
      BY <1>1, <3>2 DEF lookVars
    <3> QED BY <1>1, <1>2, <1>4, <3>1, <3>3 DEF SearchInv
  <2> QED BY <2>4, <2>5
<1> QED BY <1>5, <1>6 DEF AskHttp

\* How one address of the HTTPS search ends: it proved itself, or the search goes
\* on with what is kept.
LEMMA SearchStep ==
  ASSUME TypeInv, LookInv, SearchInv, pc \in {"https", "retry"},
         UNCHANGED <<zone, cand, lookVars, http>>, i <= Len(dns.addrs),
         \/ /\ Server.cert # None
            /\ Respond(Shown(dns.addrs[i]))
         \/ Server.cert = None /\ NoResponse
  PROVE  LookInv' /\ SearchInv' /\ pc' # "done"
<1> DEFINE a == dns.addrs[i]
<1>1. /\ Found(dns) /\ Found(dns)' /\ lookup' = 1
      /\ \A x : Shown(x)' = Shown(x) /\ Unproved(x)' = Unproved(x)
  BY WebStepFound
<1>2. dns.addrs \in Seq(Address) /\ i \in Nat \ {0} /\ i \in DOMAIN dns.addrs
  BY <1>1, ReachableAre DEF TypeInv, LookTyped
<1>3. a \in Reachable
  BY <1>1, <1>2, ReachableAre
<1>4. pc' \in {"https", "responded"}
  BY DEF Respond, NoResponse
<1>5. LookInv'
  BY <1>4 DEF LookInv, lookVars
<1>6. http' <=> \E x \in Reachable' : zone'.web[x].http
  BY WorldKept DEF SearchInv
<1>7. /\ https # <<>> => \E x \in Reachable : zone.web[x].cert # None /\ https[1] = Shown(x)
      /\ \A j \in DOMAIN dns.addrs : j < i => Unproved(dns.addrs[j])
  BY DEF SearchInv
<1>8. CASE /\ Server.cert # None /\ Authenticated(dns, Shown(a))
           /\ https' = <<Shown(a)>> /\ pc' = "responded"
  <2>1. https' # <<>> /\ https'[1] = Shown(a)
    BY <1>8
  <2>2. \E x \in Reachable' : zone'.web[x].cert # None /\ https'[1] = Shown(x)'
    BY <1>1, <1>3, <1>8, <2>1, WorldKept DEF Server
  <2>3. Authenticated(dns, https[1])'
    BY <1>8, <2>1 DEF Authenticated, Dane, lookVars
  <2> HIDE DEF a
  <2> QED BY <1>1, <1>5, <1>6, <1>8, <2>1, <2>2, <2>3 DEF SearchInv
<1>9. CASE /\ Unproved(a) /\ pc' = "https" /\ i' = i + 1
           /\ https' = https \/ (Server.cert # None /\ https' = <<Shown(a)>>)
  <2>1. https' # <<>> => \E x \in Reachable : zone.web[x].cert # None /\ https'[1] = Shown(x)
    <3>1. CASE https' = https
      BY <1>7, <3>1
    <3>2. CASE Server.cert # None /\ https' = <<Shown(a)>>
      BY <1>3, <3>2 DEF Server
    <3> QED BY <1>9, <3>1, <3>2
  <2>2. https' # <<>> => \E x \in Reachable' : zone'.web[x].cert # None /\ https'[1] = Shown(x)'
    BY <1>1, <2>1, WorldKept
  <2>3. \A j \in DOMAIN dns.addrs : j < i' => Unproved(dns.addrs[j])
    <3>1. \A j \in DOMAIN dns.addrs : j < i' => j < i \/ j = i
      BY <1>2, <1>9
    <3> QED BY <1>7, <1>9, <3>1
  <2>4. \A j \in DOMAIN dns'.addrs : j < i' => Unproved(dns.addrs[j])'
    <3>1. dns' = dns
      BY DEF lookVars
    <3> QED BY <1>1, <2>3, <3>1
  <2> HIDE DEF a
  <2> QED BY <1>1, <1>5, <1>6, <1>9, <2>2, <2>4 DEF SearchInv
<1> QED
  <2>1. CASE Server.cert # None /\ Respond(Shown(dns.addrs[i]))
    <3>1. CASE Authenticated(dns, Shown(a))
      BY <1>8, <2>1, <3>1 DEF Respond
    <3>2. CASE ~Authenticated(dns, Shown(a))
      <4>1. Unproved(a) /\ pc' = "https" /\ i' = i + 1
              /\ (https' = https \/ https' = <<Shown(a)>>)
        BY <2>1, <3>2 DEF Respond, Unproved
      <4> QED BY <1>5, <1>9, <2>1, <4>1
    <3> QED BY <3>1, <3>2
  <2>2. CASE Server.cert = None /\ NoResponse
    <3>1. Unproved(a) /\ pc' = "https" /\ i' = i + 1 /\ https' = https
      BY <2>2 DEF NoResponse, Unproved, Server
    <3> QED BY <1>5, <1>9, <3>1
  <2> QED BY <2>1, <2>2


\* An undisturbed search for an authenticated server goes through every address,
LEMMA AskHttpsQuiet ==
  ASSUME TypeInv, WebInv, LookInv, SearchInv, AskHttps, quiet'
  PROVE  LookInv' /\ SearchInv' /\ pc' # "done"
<1>1. pc = "https" /\ UNCHANGED <<zone, cand, lookVars, http>>
  BY DEF AskHttps, worldVars
<1>2. /\ Found(dns) /\ Found(dns)' /\ lookup' = 1
      /\ \A x : Shown(x)' = Shown(x) /\ Unproved(x)' = Unproved(x)
  BY <1>1, WebStepFound
<1>3. dns.addrs \in Seq(Address) /\ i \in Nat \ {0}
  BY <1>2, ReachableAre DEF TypeInv, LookTyped
<1>4. http' <=> \E x \in Reachable' : zone'.web[x].http
  BY <1>1, WorldKept DEF SearchInv
<1>5. https # <<>> => \E x \in Reachable' : zone'.web[x].cert # None /\ https[1] = Shown(x)'
  <2>1. https # <<>> => \E x \in Reachable : zone.web[x].cert # None /\ https[1] = Shown(x)
    BY DEF SearchInv
  <2> QED BY <1>1, <1>2, <2>1, WorldKept
<1>6. CASE i > Len(dns.addrs) /\ pc' = "responded" /\ UNCHANGED <<i, https, quiet>>
  <2>1. LookInv'
    BY <1>1, <1>6 DEF LookInv, lookVars
  <2>2. \A a \in Reachable : Unproved(a)
    <3>1. \A j \in DOMAIN dns.addrs : j < i
      BY <1>3, <1>6
    <3> QED BY <1>1, <1>2, <3>1, ReachableAre DEF SearchInv
  <2>3. \A a \in Reachable' : Unproved(a)'
    BY <1>1, <1>2, <2>2, WorldKept
  <2> QED BY <1>2, <1>4, <1>5, <1>6, <2>1, <2>3 DEF SearchInv
<1>7. CASE /\ i <= Len(dns.addrs)
           /\ \E answer \in Heard(Server.cert # None) :
                /\ \/ answer /\ Server.cert \in Trusted /\ Respond([cert |-> Server.cert, valid |-> TRUE])
                   \/ answer /\ Server.cert \notin Trusted /\ pc' = "retry" /\ UNCHANGED <<i, https>>
                   \/ ~answer /\ NoResponse
                /\ QuietIf(answer = (Server.cert # None))
  <2>1. PICK answer \in Heard(Server.cert # None) :
          /\ \/ answer /\ Server.cert \in Trusted /\ Respond([cert |-> Server.cert, valid |-> TRUE])
             \/ answer /\ Server.cert \notin Trusted /\ pc' = "retry" /\ UNCHANGED <<i, https>>
             \/ ~answer /\ NoResponse
          /\ QuietIf(answer = (Server.cert # None))
    BY <1>7
  <2>2. answer = (Server.cert # None)
    BY <2>1, QuietAnswer
  <2>3. CASE answer /\ Server.cert \in Trusted /\ Respond([cert |-> Server.cert, valid |-> TRUE])
    <3>1. Shown(dns.addrs[i]) = [cert |-> Server.cert, valid |-> TRUE]
      BY <2>3 DEF Shown, Server
    <3> QED BY <1>1, <1>7, <2>2, <2>3, <3>1, SearchStep
  <2>4. CASE answer /\ Server.cert \notin Trusted /\ pc' = "retry" /\ UNCHANGED <<i, https>>
    <3>1. LookInv'
      BY <1>1, <2>4 DEF LookInv, lookVars
    <3>2. Server.cert # None /\ Server.cert \notin Trusted
      BY <2>2, <2>4
    <3>3. Server' = Server
      BY <1>1, <2>4 DEF Server, lookVars
    <3>4. \A j \in DOMAIN dns'.addrs : j < i' => Unproved(dns.addrs[j])'
      <4>1. \A j \in DOMAIN dns.addrs : j < i => Unproved(dns.addrs[j])
        BY <1>1 DEF SearchInv
      <4>2. dns' = dns /\ i' = i
        BY <1>1, <2>4 DEF lookVars
      <4> QED BY <1>2, <4>1, <4>2
    <3> QED BY <1>2, <1>4, <1>5, <2>4, <3>1, <3>2, <3>3, <3>4 DEF SearchInv
  <2>5. CASE ~answer /\ NoResponse
    BY <1>1, <1>7, <2>2, <2>5, SearchStep
  <2> QED BY <2>1, <2>3, <2>4, <2>5
<1> QED BY <1>6, <1>7 DEF AskHttps

\* with a second connection where the first does not verify.
LEMMA AskAgainQuiet ==
  ASSUME TypeInv, WebInv, LookInv, SearchInv, AskAgain, quiet'
  PROVE  LookInv' /\ SearchInv' /\ pc' # "done"
<1>1. /\ pc = "retry" /\ UNCHANGED <<zone, cand, lookVars, http>> /\ i <= Len(dns.addrs)
      /\ Server.cert # None /\ Server.cert \notin Trusted
  BY DEF AskAgain, worldVars, SearchInv, TypeInv, InRange
<1>2. PICK answer \in Heard(Server.cert # None) :
        /\ \/ answer /\ Respond([cert |-> Server.cert, valid |-> FALSE])
           \/ ~answer /\ NoResponse
        /\ QuietIf(answer = (Server.cert # None))
  BY DEF AskAgain
<1>3. answer = (Server.cert # None)
  BY <1>2, QuietAnswer
<1>4. Respond([cert |-> Server.cert, valid |-> FALSE])
  BY <1>1, <1>2, <1>3
<1>5. Shown(dns.addrs[i]) = [cert |-> Server.cert, valid |-> FALSE]
  <2>1. (Server.cert \in Trusted) = FALSE
    BY <1>1
  <2>2. Shown(dns.addrs[i]) = [cert |-> Server.cert, valid |-> Server.cert \in Trusted]
    BY DEF Shown, Server
  <2> QED BY <2>1, <2>2
<1> QED BY <1>1, <1>4, <1>5, SearchStep

\* The second lookup begins with what the servers showed in the first.
LEMMA RespondedQuiet ==
  ASSUME TypeInv, WebInv, LookInv, SearchInv, Responded
  PROVE  LookInv' /\ SearchInv' /\ pc' # "done"
<1>1. /\ pc = "responded" /\ lookup = 1 /\ Found(dns)
      /\ UNCHANGED <<zone, cand, hop, look, fallback, dns, i, http, https>>
      /\ \/ lookup' = 2 /\ pc' = "servers" /\ ~cand.details
         \/ pc' = "conclude" /\ lookup' = 1 /\ (cand.details \/ ~(http \/ https # <<>>))
  BY DEF Responded, worldVars, webVars, SearchInv
<1>2. LookInv'
  BY <1>1 DEF LookInv
<1>3. http' <=> \E x \in Reachable' : zone'.web[x].http
  BY <1>1, WorldKept DEF SearchInv
<1>4. https' # <<>> => \E x \in Reachable' : zone'.web[x].cert # None /\ https'[1] = Shown(x)'
  <2>1. https # <<>> => \E x \in Reachable : zone.web[x].cert # None /\ https[1] = Shown(x)
    BY DEF SearchInv
  <2> QED BY <1>1, <2>1, WorldKept DEF Shown
<1>5. CASE pc' = "servers" /\ lookup' = 2
  BY <1>2, <1>3, <1>4, <1>5 DEF SearchInv
<1>6. CASE pc' = "conclude" /\ lookup' = 1 /\ (cand.details \/ ~(http \/ https # <<>>))
  <2>1. Found(dns)'
    BY <1>1, <1>6, WorldKept DEF Found, Details
  <2>2. cand.details => \/ https' # <<>> /\ Authenticated(dns, https[1])'
                        \/ \A a \in Reachable' : Unproved(a)'
    BY <1>1, WorldKept DEF SearchInv, Unproved, Authenticated, Dane, Shown
  <2>3. ~Details' => ~http' /\ https' = <<>>
    BY <1>1, <1>6 DEF Details
  <2> QED BY <1>1, <1>2, <1>3, <1>4, <1>6, <2>1, <2>2, <2>3 DEF SearchInv
<1> QED BY <1>1, <1>5, <1>6


\* A server proves itself to a client if and only if its certificate is one that
\* the client accepts, or that a secure TLSA record names.
LEMMA ProvenIs ==
  ASSUME TypeInv, Found(dns), Details, dns.addrs # <<>>, NEW a \in Address
  PROVE  zone.web[a].cert \in Trusted \cup SecureTlsa <=> ~Unproved(a)
<1> DEFINE cert == zone.web[a].cert
<1>1. /\ dns.tlsa = zone.tlsa
      /\ dns.secure <=> zone.tlsa # {} /\ Secure /\ (UsesServers => zone.signed)
  BY DEF Found
<1>2. zone.tlsa \in SUBSET Tlsa /\ None \notin Certs /\ Trusted \subseteq Certs
  BY ZoneTyped, ProbeAssumption DEF TypeInv
<1>3. Shown(a).cert = cert /\ (Shown(a).valid <=> cert \in Trusted)
  BY DEF Shown
<1>4. cert \in SecureTlsa <=> dns.secure /\ \E t \in zone.tlsa : t.usage = 3 /\ t.cert = cert
  BY <1>1 DEF SecureTlsa
<1>5. cert \in Trusted \cup SecureTlsa => cert # None
  BY <1>2, <1>4 DEF Tlsa
<1> HIDE DEF cert
<1>6. Authenticated(dns, Shown(a)) <=> cert \in Trusted \cup SecureTlsa
  BY <1>1, <1>3, <1>4 DEF Authenticated, Dane
<1> QED BY <1>5, <1>6 DEF Unproved, cert

\* The verdict on a host that was not found, and on one that was.
LEMMA VerdictIs ==
  ASSUME TypeInv, Found(dns), Details
  PROVE  /\ dns.addrs = <<>> => Verdict = "offline" /\ Reachable = {}
         /\ dns.addrs # <<>> =>
              /\ Blocked <=> MustValidate /\ ~Secure
              /\ Blocked => Verdict = "offline"
              /\ ~Blocked => Verdict = IF \E a \in Reachable : ~Unproved(a) THEN "https"
                                       ELSE IF \E a \in Reachable : zone.web[a].http
                                            THEN "http_only" ELSE "offline"
<1>1. CASE dns.addrs = <<>>
  <2>1. Reachable = {}
    BY <1>1, ReachableAre
  <2> QED BY <1>1, <2>1 DEF Verdict
<1>2. CASE dns.addrs # <<>>
  <2>1. dns.status = "resolved"
    BY <1>2 DEF TypeInv, LookTyped, OkResult, Consistent
  <2>2. Blocked <=> MustValidate /\ ~Secure
    BY <1>2, <2>1 DEF Blocked, MustValidate, Validated, Found
  <2>3. (\E a \in Reachable : zone.web[a].cert \in Trusted \cup SecureTlsa)
          <=> \E a \in Reachable : ~Unproved(a)
    BY <1>2, ProvenIs, ReachableAre
  <2> DEFINE accepted == \E a \in Reachable : zone.web[a].cert \in Trusted \cup SecureTlsa
             proven == \E a \in Reachable : ~Unproved(a)
             plain == \E a \in Reachable : zone.web[a].http
  <2>4. Verdict = IF MustValidate /\ ~Secure THEN "offline"
                  ELSE IF accepted THEN "https" ELSE IF plain THEN "http_only" ELSE "offline"
    BY DEF Verdict
  <2>5. accepted <=> proven
    BY <2>3
  <2> HIDE DEF accepted, proven, plain
  <2>6. Blocked => Verdict = "offline"
    BY <2>2, <2>4
  <2>7. ~Blocked => Verdict = IF proven THEN "https" ELSE IF plain THEN "http_only" ELSE "offline"
    BY <2>2, <2>4, <2>5
  <2> QED BY <1>2, <2>2, <2>6, <2>7 DEF proven, plain
<1> QED BY <1>1, <1>2

\* The verdict of an undisturbed probe is the client's.
LEMMA ConcludeQuiet ==
  ASSUME TypeInv, WebInv, LookInv, SearchInv, Conclude
  PROVE  LookInv' /\ SearchInv' /\ AgreesWhenQuiet'
<1>1. /\ pc = "conclude" /\ pc' = "done" /\ Found(dns)
      /\ category' = IF Blocked THEN "offline" ELSE Classified
      /\ UNCHANGED <<zone, cand, lookup, hop, look, fallback, dns, i, http, https>>
  BY DEF Conclude, lookVars, webVars, worldVars, SearchInv
<1>2. /\ http <=> \E a \in Reachable : zone.web[a].http
      /\ https # <<>> => \E a \in Reachable : zone.web[a].cert # None /\ https[1] = Shown(a)
      /\ cand.details => \/ https # <<>> /\ Authenticated(dns, https[1])
                         \/ \A a \in Reachable : Unproved(a)
      /\ ~Details => ~http /\ https = <<>>
  BY <1>1 DEF SearchInv
<1>3. LookInv'
  BY <1>1 DEF LookInv
<1>4. SearchInv'
  <2>1. http' <=> \E a \in Reachable' : zone'.web[a].http
    BY <1>1, <1>2, WorldKept
  <2>2. https' # <<>> => \E a \in Reachable' : zone'.web[a].cert # None /\ https'[1] = Shown(a)'
    BY <1>1, <1>2, WorldKept DEF Shown
  <2> QED BY <1>1, <2>1, <2>2 DEF SearchInv
<1>5. IF cand.details THEN category' = Verdict ELSE Rank(category') <= Rank(Verdict)
  <2>1. CASE ~Details
    <3>1. category' = "offline" /\ ~cand.details
      BY <1>1, <1>2, <2>1 DEF Classified, Details
    <3>2. Rank("offline") <= Rank(Verdict)
      BY DEF Rank, Verdict
    <3> QED BY <3>1, <3>2
  <2>2. CASE Details /\ dns.addrs = <<>>
    <3>1. Verdict = "offline" /\ Reachable = {}
      BY <1>1, <2>2, VerdictIs
    <3>2. category' = "offline"
      BY <1>1, <1>2, <3>1 DEF Classified
    <3> QED BY <3>1, <3>2 DEF Rank
  <2>3. CASE Details /\ dns.addrs # <<>> /\ Blocked
    <3>1. Verdict = "offline" /\ category' = "offline"
      BY <1>1, <2>3, VerdictIs
    <3> QED BY <3>1 DEF Rank
  <2>4. CASE Details /\ dns.addrs # <<>> /\ ~Blocked
    <3> DEFINE proven == \E a \in Reachable : ~Unproved(a)
    <3>1. /\ category' = Classified
          /\ Verdict = IF proven THEN "https" ELSE IF http THEN "http_only" ELSE "offline"
      BY <1>1, <1>2, <2>4, VerdictIs
    <3>2. https # <<>> /\ Authenticated(dns, https[1]) => proven
      BY <1>2 DEF Unproved
    <3>3. cand.details => (https # <<>> /\ Authenticated(dns, https[1]) <=> proven)
      BY <1>2, <3>2
    <3> HIDE DEF proven
    <3>4. CASE cand.details
      BY <3>1, <3>3, <3>4 DEF Classified
    <3>5. CASE ~cand.details
      BY <3>1, <3>2, <3>5 DEF Classified, Rank
    <3> QED BY <3>4, <3>5
  <2> QED BY <2>1, <2>2, <2>3, <2>4
<1>6. AgreesWhenQuiet'
  BY <1>1, <1>5, WorldKept DEF AgreesWhenQuiet, Rank
<1> QED BY <1>3, <1>4, <1>6

\* A probe starts undisturbed,
LEMMA QuietInvInit == Init => QuietInv
<1> SUFFICES ASSUME Init PROVE QuietInv
  OBVIOUS
<1>1. pc = "servers" /\ hop = 0 /\ lookup = 1 /\ https = <<>>
  BY DEF Init
<1> QED BY <1>1 DEF QuietInv, LookInv, SearchInv, AgreesWhenQuiet

\* and every step keeps an undisturbed one on its way.
LEMMA QuietInvStep ==
  ASSUME Roomy, TypeInv, WebInv, QuietInv, [Next]_vars
  PROVE  QuietInv'
<1>1. CASE Step
  <2> SUFFICES ASSUME quiet' PROVE LookInv' /\ SearchInv' /\ AgreesWhenQuiet'
    BY DEF QuietInv
  <2>1. quiet
    BY <1>1 DEF Step, FindServers, AskDnskey, AskAddresses, AskOutside, AskTlsa, AskResolver,
       AskResolverTlsa, AskHttp, AskHttps, AskAgain, Responded, Conclude, QuietIf, auxVars
  <2>2. LookInv /\ SearchInv
    BY <2>1 DEF QuietInv
  <2>3. CASE LookupStep
    BY <2>2, <2>3, LookupStepQuiet DEF AgreesWhenQuiet
  <2>4. CASE AskHttp \/ AskHttps \/ AskAgain \/ Responded
    BY <2>2, <2>4, AskHttpQuiet, AskHttpsQuiet, AskAgainQuiet, RespondedQuiet DEF AgreesWhenQuiet
  <2>5. CASE Conclude
    BY <2>2, <2>5, ConcludeQuiet
  <2> QED BY <1>1, <2>3, <2>4, <2>5 DEF Step, LookupStep
<1>2. CASE ProbeError \/ Move
  BY <1>2 DEF ProbeError, Move, QuietInv
<1>3. CASE UNCHANGED vars
  <2>1. /\ UNCHANGED <<zone, cand, pc, lookup, hop, look, fallback, dns, i, http, https, category>>
        /\ quiet' = quiet
    BY <1>3 DEF vars, worldVars, lookVars, webVars, auxVars
  <2>2. LookInv' <=> LookInv
    BY <2>1, WorldKept DEF LookInv, HopFits, KeyRead, Details
  <2>3. SearchInv' <=> SearchInv
    BY <2>1, WorldKept DEF SearchInv, Found, Shown, Unproved, Authenticated, Dane, Server, Details
  <2>4. AgreesWhenQuiet' <=> AgreesWhenQuiet
    BY <2>1, WorldKept DEF AgreesWhenQuiet, Rank
  <2> QED BY <2>1, <2>2, <2>3, <2>4 DEF QuietInv
<1> QED BY <1>1, <1>2, <1>3 DEF Next, Done

\* Where aliases can be followed and every address is tried, an undisturbed
\* detailed probe gives the verdict of a client that sees the whole zone at once,
\* and an undisturbed broad probe never a better one, whatever the zone, its
\* records, certificates and servers are.
THEOREM QuietProbesAgree == Roomy => (Spec => []AgreesWhenQuiet)
<1> SUFFICES ASSUME Roomy PROVE Spec => []AgreesWhenQuiet
  OBVIOUS
<1>1. TypeInv /\ WebInv /\ QuietInv /\ [Next]_vars => QuietInv'
  BY QuietInvStep
<1>2. Spec => []QuietInv
  BY <1>1, QuietInvInit, TypeInvAlways, WebInvAlways, PTL DEF Spec
<1>3. QuietInv => AgreesWhenQuiet
  BY DEF QuietInv, AgreesWhenQuiet
<1> QED BY <1>2, <1>3, PTL

=============================================================================
