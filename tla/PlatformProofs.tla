--------------------------- MODULE PlatformProofs ---------------------------
(***************************************************************************)
(* The bounties contract among its services, for every value of the        *)
(* constants: it is the bounties contract as it was modelled alone, the    *)
(* KYC contract it asks keeps its records in order, what the KYC contract  *)
(* has said is behind the work that asks for it, and the statistics that   *)
(* it sends add up.                                                        *)
(***************************************************************************)
EXTENDS Platform, ClaimsProofs, WellFoundedInduction,
        FiniteSetTheorems

----------------------------------------------------------------------------
(* The bounties contract.                                                  *)

LEMMA PlatformStep == [PlatformNext]_platform_vars => [Next]_vars
<1> SUFFICES ASSUME [PlatformNext]_platform_vars PROVE [Next]_vars
  OBVIOUS
<1>1. CASE PlatformTick
  BY <1>1 DEF PlatformTick, Next
<1>2. CASE OwnStep
  BY <1>2 DEF OwnStep, Next
<1>3. CASE KycStep
  BY <1>3 DEF KycStep
<1>4. ASSUME NEW i \in 1 .. Len(calls), OtherAnswer(i)
      PROVE  Next
  BY <1>4 DEF OtherAnswer, Next
<1>5. ASSUME NEW i \in 1 .. Len(calls), ReadWhitelist(i)
      PROVE  UNCHANGED vars
  BY <1>5 DEF ReadWhitelist
<1>6. ASSUME NEW i \in 1 .. Len(calls), KycAnswer(i)
      PROVE  Next
  <2>1. Answer(i)
    BY <1>6 DEF KycAnswer, UseReply, Answer
  <2> QED BY <2>1 DEF Next
<1>7. ASSUME NEW e, Deliver(e)
      PROVE  UNCHANGED vars
  BY <1>7 DEF Deliver
<1>8. CASE UNCHANGED platform_vars
  BY <1>8 DEF platform_vars
<1> QED BY <1>1, <1>2, <1>3, <1>4, <1>5, <1>6, <1>7, <1>8 DEF PlatformNext

(* Whatever the KYC contract answers and whenever, the bounties contract   *)
(* was allowed for it; its statistics take nothing back.  Every safety     *)
(* property of Bounties holds of the platform.                             *)
THEOREM PlatformIsBounties == PlatformSpec => Spec
<1>1. PlatformInit => Init
  BY DEF PlatformInit
<1> QED BY <1>1, PlatformStep, PTL DEF PlatformSpec, Spec

(* A KYC answer that was read before the whitelist changed never leaves a  *)
(* bounty for one claimant with two workers.                               *)
THEOREM PlatformOneWorker == PlatformSpec => []OneWorker
BY PlatformIsBounties, OneWorkerAlways, PTL

----------------------------------------------------------------------------
(* The records of the KYC contract.                                        *)

KnownProfiles ==
  Profiles \cup {FirstProfiles[i] : i \in DOMAIN FirstProfiles}
Entry ==
  [provider: {c[1] : c \in K!Checked}, check: {c[2] : c \in K!Checked},
   expiry: Expiries]

(* Profiles i and j of q have a name or an account in common.              *)
Shares(q, i, j) ==
  q[i].account = q[j].account \/ q[i].name = q[j].name
(* Entries i and j of q are for the same check of the same provider.       *)
Doubles(q, i, j) ==
  q[i].provider = q[j].provider /\ q[i].check = q[j].check

ProfilesOnce(q) == \A i, j \in 1 .. Len(q) : Shares(q, i, j) => i = j
EntriesOnce(q)  == \A i, j \in 1 .. Len(q) : Doubles(q, i, j) => i = j

(* The inductive invariant of this part.                                   *)
Records ==
  /\ service_profiles \in Seq(KnownProfiles) /\ ProfilesOnce(service_profiles)
  /\ whitelist \in [Claimants -> Seq(Entry)]
  /\ \A a \in Claimants : EntriesOnce(whitelist[a])

LEMMA RecordsOnce == Records => KycRecordedOnce
BY SMTT(60) DEF Records, KycRecordedOnce, K!RecordedOnce,
       ProfilesOnce, EntriesOnce, Shares, Doubles

----------------------------------------------------------------------------
(* position(..): the first that fits, or none.                             *)

(* A set of natural numbers has a least one: the intervals up to its       *)
(* elements are finite sets, which are well-founded by inclusion.          *)
LEMMA LeastOne ==
  ASSUME NEW S \in SUBSET Nat, S # {}
  PROVE  \E n \in S : \A m \in S : n <= m
<1> DEFINE upTo == {0 .. n : n \in S}
<1>1. \A n \in S : 0 .. n \in FiniteSubsetsOf(Nat)
  BY FS_Interval DEF FiniteSubsetsOf
<1>2. upTo \subseteq FiniteSubsetsOf(Nat) /\ upTo # {}
  BY <1>1
<1> HIDE DEF upTo
<1>3. PICK a \in upTo :
        \A b \in upTo : ~(<<b, a>> \in StrictSubsetOrdering(Nat))
  BY <1>2, FS_StrictSubsetOrderingWellFounded, WFMin
<1>4. PICK n \in S : a = 0 .. n
  BY <1>3 DEF upTo
<1>5. ASSUME NEW m \in S, m < n
      PROVE  FALSE
  <2>1. 0 .. m \in upTo /\ 0 .. m \subseteq 0 .. n /\ 0 .. n # 0 .. m
    <3>1. n \in 0 .. n /\ n \notin 0 .. m
      BY <1>5
    <3> QED BY <1>5, <3>1 DEF upTo
  <2>2. <<0 .. m, 0 .. n>> \in StrictSubsetOrdering(Nat)
    BY <2>1 DEF StrictSubsetOrdering
  <2> QED BY <1>3, <1>4, <2>1, <2>2
<1> QED BY <1>4, <1>5

LEMMA MinIn ==
  ASSUME NEW S \in SUBSET Nat, S # {}
  PROVE  K!Min(S) \in S
BY LeastOne DEF K!Min

LEMMA ProfileNamed ==
  ASSUME NEW name, service_profiles \in Seq(KnownProfiles)
  PROVE  /\ K!ProfileByName(name) \in 0 .. Len(service_profiles)
         /\ K!ProfileByName(name) # 0 =>
              service_profiles[K!ProfileByName(name)].name = name
         /\ K!ProfileByName(name) = 0 =>
              \A i \in 1 .. Len(service_profiles) :
                 service_profiles[i].name # name
<1> DEFINE fits == {i \in 1 .. Len(service_profiles) :
                      service_profiles[i].name = name}
<1>1. K!ProfileByName(name) = IF fits # {} THEN K!Min(fits) ELSE 0
  BY DEF K!ProfileByName, K!SelectInSeq
<1>2. fits \in SUBSET Nat /\ Len(service_profiles) \in Nat
  OBVIOUS
<1>3. fits # {} => K!Min(fits) \in fits
  BY <1>2, MinIn
<1> QED BY <1>1, <1>2, <1>3

LEMMA ProfileOf ==
  ASSUME NEW account, service_profiles \in Seq(KnownProfiles)
  PROVE  /\ K!ProfileByAccount(account) \in 0 .. Len(service_profiles)
         /\ K!ProfileByAccount(account) # 0 =>
              service_profiles[K!ProfileByAccount(account)].account = account
         /\ K!ProfileByAccount(account) = 0 =>
              \A i \in 1 .. Len(service_profiles) :
                 service_profiles[i].account # account
<1> DEFINE fits == {i \in 1 .. Len(service_profiles) :
                      service_profiles[i].account = account}
<1>1. K!ProfileByAccount(account) = IF fits # {} THEN K!Min(fits) ELSE 0
  BY DEF K!ProfileByAccount, K!SelectInSeq
<1>2. fits \in SUBSET Nat /\ Len(service_profiles) \in Nat
  OBVIOUS
<1>3. fits # {} => K!Min(fits) \in fits
  BY <1>2, MinIn
<1> QED BY <1>1, <1>2, <1>3

LEMMA EntryFor ==
  ASSUME NEW a, NEW provider, NEW check, whitelist[a] \in Seq(Entry)
  PROVE  LET e == K!find_whitelist_entry(a, provider, check) IN
         /\ e \in 0 .. Len(whitelist[a])
         /\ e # 0 => /\ whitelist[a][e].provider = provider
                     /\ whitelist[a][e].check = check
         /\ e = 0 => \A i \in 1 .. Len(whitelist[a]) :
                        \/ whitelist[a][i].provider # provider
                        \/ whitelist[a][i].check # check
<1> DEFINE fits == {i \in 1 .. Len(whitelist[a]) :
                      /\ whitelist[a][i].provider = provider
                      /\ whitelist[a][i].check = check}
           e == K!find_whitelist_entry(a, provider, check)
<1>1. e = IF fits # {} THEN K!Min(fits) ELSE 0
  BY DEF K!find_whitelist_entry, K!SelectInSeq
<1>2. fits \in SUBSET Nat /\ Len(whitelist[a]) \in Nat
  OBVIOUS
<1>3. fits # {} => K!Min(fits) \in fits
  BY <1>2, MinIn
<1> HIDE DEF e
<1>4. /\ e \in 0 .. Len(whitelist[a])
      /\ e # 0 => e \in fits
      /\ e = 0 => fits = {}
  BY <1>1, <1>2, <1>3
<1> QED BY <1>4 DEF e

----------------------------------------------------------------------------
(* What an append, a change and a removal do to records that are unique.   *)

LEMMA AppendProfile ==
  ASSUME NEW q \in Seq(KnownProfiles), ProfilesOnce(q),
         NEW p \in KnownProfiles,
         \A i \in 1 .. Len(q) : q[i].name # p.name /\ q[i].account # p.account
  PROVE  Append(q, p) \in Seq(KnownProfiles) /\ ProfilesOnce(Append(q, p))
<1> DEFINE r == Append(q, p)
<1>1. /\ r \in Seq(KnownProfiles) /\ Len(r) = Len(q) + 1
      /\ r[Len(q) + 1] = p
      /\ \A j \in 1 .. Len(q) : r[j] = q[j]
  BY AppendKeeps
<1>2. \A j \in 1 .. Len(q) + 1 : j \in 1 .. Len(q) \/ j = Len(q) + 1
  OBVIOUS
<1> HIDE DEF r
<1>3. ProfilesOnce(r)
  BY <1>1, <1>2 DEF ProfilesOnce, Shares
<1> QED BY <1>1, <1>3 DEF r

LEMMA ChangeProfile ==
  ASSUME NEW q \in Seq(KnownProfiles), ProfilesOnce(q),
         NEW p \in KnownProfiles,
         NEW n \in 1 .. Len(q),
         \A i \in 1 .. Len(q) :
            i # n => q[i].name # p.name /\ q[i].account # p.account
  PROVE  LET r == [q EXCEPT ![n] = p] IN
         r \in Seq(KnownProfiles) /\ ProfilesOnce(r)
<1> DEFINE r == [q EXCEPT ![n] = p]
<1>1. /\ r \in Seq(KnownProfiles) /\ Len(r) = Len(q)
      /\ \A j \in 1 .. Len(q) : r[j] = IF j = n THEN p ELSE q[j]
  BY ExceptSeq
<1> HIDE DEF r
<1>2. ProfilesOnce(r)
  BY <1>1 DEF ProfilesOnce, Shares
<1> QED BY <1>1, <1>2 DEF r

LEMMA RemoveProfile ==
  ASSUME NEW q \in Seq(KnownProfiles), ProfilesOnce(q), NEW n \in 1 .. Len(q)
  PROVE  LET r == RemoveAt(q, n) IN
         r \in Seq(KnownProfiles) /\ ProfilesOnce(r)
<1> DEFINE r == RemoveAt(q, n)
           from(j) == IF j < n THEN j ELSE j + 1
<1>1. /\ r \in Seq(KnownProfiles) /\ Len(r) = Len(q) - 1
      /\ \A j \in 1 .. Len(q) - 1 : r[j] = q[from(j)]
  BY RemoveAtKeeps
<1> HIDE DEF r
<1>2. \A i, j \in 1 .. Len(q) - 1 :
         /\ from(j) \in 1 .. Len(q)
         /\ from(i) = from(j) => i = j
  OBVIOUS
<1> HIDE DEF from
<1>3. ProfilesOnce(r)
  BY <1>1, <1>2 DEF ProfilesOnce, Shares
<1> QED BY <1>1, <1>3 DEF r

LEMMA AppendEntry ==
  ASSUME NEW q \in Seq(Entry), EntriesOnce(q), NEW e \in Entry,
         \A i \in 1 .. Len(q) :
            q[i].provider # e.provider \/ q[i].check # e.check
  PROVE  Append(q, e) \in Seq(Entry) /\ EntriesOnce(Append(q, e))
<1> DEFINE r == Append(q, e)
<1>1. /\ r \in Seq(Entry) /\ Len(r) = Len(q) + 1
      /\ r[Len(q) + 1] = e
      /\ \A j \in 1 .. Len(q) : r[j] = q[j]
  BY AppendKeeps
<1>2. \A j \in 1 .. Len(q) + 1 : j \in 1 .. Len(q) \/ j = Len(q) + 1
  OBVIOUS
<1> HIDE DEF r
<1>3. EntriesOnce(r)
  BY <1>1, <1>2 DEF EntriesOnce, Doubles
<1> QED BY <1>1, <1>3 DEF r

LEMMA ChangeEntry ==
  ASSUME NEW q \in Seq(Entry), EntriesOnce(q), NEW e \in Entry,
         NEW n \in 1 .. Len(q),
         q[n].provider = e.provider, q[n].check = e.check
  PROVE  LET r == [q EXCEPT ![n] = e] IN r \in Seq(Entry) /\ EntriesOnce(r)
<1> DEFINE r == [q EXCEPT ![n] = e]
<1>1. /\ r \in Seq(Entry) /\ Len(r) = Len(q)
      /\ \A j \in 1 .. Len(q) : r[j] = IF j = n THEN e ELSE q[j]
  BY ExceptSeq
<1> HIDE DEF r
<1>2. \A i, j \in 1 .. Len(q) : Doubles(r, i, j) => Doubles(q, i, j)
  BY <1>1 DEF Doubles
<1>3. EntriesOnce(r)
  BY <1>1, <1>2 DEF EntriesOnce
<1> QED BY <1>1, <1>3 DEF r

LEMMA RemoveEntry ==
  ASSUME NEW q \in Seq(Entry), EntriesOnce(q), NEW n \in 1 .. Len(q)
  PROVE  LET r == RemoveAt(q, n) IN r \in Seq(Entry) /\ EntriesOnce(r)
<1> DEFINE r == RemoveAt(q, n)
           from(j) == IF j < n THEN j ELSE j + 1
<1>1. /\ r \in Seq(Entry) /\ Len(r) = Len(q) - 1
      /\ \A j \in 1 .. Len(q) - 1 : r[j] = q[from(j)]
  BY RemoveAtKeeps
<1> HIDE DEF r
<1>2. \A i, j \in 1 .. Len(q) - 1 :
         /\ from(j) \in 1 .. Len(q)
         /\ from(i) = from(j) => i = j
  OBVIOUS
<1> HIDE DEF from
<1>3. EntriesOnce(r)
  BY <1>1, <1>2 DEF EntriesOnce, Doubles
<1> QED BY <1>1, <1>3, SMTT(60) DEF r

----------------------------------------------------------------------------
(* The calls of the KYC contract.                                          *)

LEMMA SameRemoveAt == \A q, i : K!RemoveAt(q, i) = RemoveAt(q, i)
BY DEF K!RemoveAt, RemoveAt

LEMMA ProfilesRecords ==
  ASSUME Records, whitelist' = whitelist,
         service_profiles' \in Seq(KnownProfiles),
         ProfilesOnce(service_profiles')
  PROVE  Records'
BY DEF Records, ProfilesOnce, EntriesOnce, Shares, Doubles

LEMMA EntriesRecords ==
  ASSUME Records, service_profiles' = service_profiles,
         NEW a \in Claimants, NEW q \in Seq(Entry), EntriesOnce(q),
         whitelist' = [whitelist EXCEPT ![a] = q]
  PROVE  Records'
<1>1. whitelist' \in [Claimants -> Seq(Entry)]
  BY DEF Records
<1>2. \A b \in Claimants : whitelist'[b] = IF b = a THEN q ELSE whitelist[b]
  BY DEF Records
<1>3. \A b \in Claimants : EntriesOnce(whitelist'[b])
  BY <1>2 DEF Records
<1> QED BY <1>1, <1>3 DEF Records, ProfilesOnce, EntriesOnce, Shares, Doubles

LEMMA ProfileCallsRecords ==
  ASSUME Records, NEW p \in Profiles,
         \/ K!create_service_profile(p)
         \/ \E i \in DOMAIN service_profiles : K!update_service_profile(i, p)
  PROVE  Records'
<1>1. p \in KnownProfiles /\ service_profiles \in Seq(KnownProfiles)
      /\ ProfilesOnce(service_profiles)
  BY DEF KnownProfiles, Records
<1>2. CASE K!create_service_profile(p)
  <2>1. /\ service_profiles' = Append(service_profiles, p)
        /\ whitelist' = whitelist
        /\ K!ProfileByName(p.name) = 0 /\ K!ProfileByAccount(p.account) = 0
    BY <1>2 DEF K!create_service_profile
  <2> QED BY <1>1, <2>1, ProfileNamed, ProfileOf, AppendProfile,
             ProfilesRecords
<1>3. ASSUME NEW n \in DOMAIN service_profiles, K!update_service_profile(n, p)
      PROVE  Records'
  <2>1. /\ service_profiles' = [service_profiles EXCEPT ![n] = p]
        /\ whitelist' = whitelist
        /\ K!ProfileByName(p.name) \in {0, n}
        /\ K!ProfileByAccount(p.account) \in {0, n}
    BY <1>3 DEF K!update_service_profile
  <2>2. n \in 1 .. Len(service_profiles)
    BY <1>1
  <2>3. ASSUME NEW i \in 1 .. Len(service_profiles), i # n
        PROVE  service_profiles[i].name # p.name
    <3>1. CASE K!ProfileByName(p.name) = 0
      BY <1>1, <3>1, ProfileNamed
    <3>2. CASE K!ProfileByName(p.name) = n
      <4>1. n # 0
        BY <2>2
      <4>2. service_profiles[n].name = p.name
        BY <1>1, <3>2, <4>1, ProfileNamed
      <4> QED BY <1>1, <2>2, <2>3, <4>2 DEF ProfilesOnce, Shares
    <3> QED BY <2>1, <3>1, <3>2
  <2>4. ASSUME NEW i \in 1 .. Len(service_profiles), i # n
        PROVE  service_profiles[i].account # p.account
    <3>1. CASE K!ProfileByAccount(p.account) = 0
      BY <1>1, <3>1, ProfileOf
    <3>2. CASE K!ProfileByAccount(p.account) = n
      <4>1. n # 0
        BY <2>2
      <4>2. service_profiles[n].account = p.account
        BY <1>1, <3>2, <4>1, ProfileOf
      <4> QED BY <1>1, <2>2, <2>4, <4>2 DEF ProfilesOnce, Shares
    <3> QED BY <2>1, <3>1, <3>2
  <2> QED BY <1>1, <2>1, <2>2, <2>3, <2>4, ChangeProfile, ProfilesRecords
<1> QED BY <1>2, <1>3

LEMMA ServiceCallsRecords ==
  ASSUME Records, NEW service, NEW a \in Claimants, NEW c \in K!Checked,
         \/ \E expiry \in Expiries :
               K!add_account(service, a, c[1], c[2], expiry)
         \/ K!remove_account(service, a, c[1], c[2])
  PROVE  Records'
<1> DEFINE index == K!find_whitelist_entry(a, c[1], c[2])
<1>1. whitelist[a] \in Seq(Entry) /\ EntriesOnce(whitelist[a])
  BY DEF Records
<1>2. /\ index \in 0 .. Len(whitelist[a])
      /\ index # 0 => /\ whitelist[a][index].provider = c[1]
                      /\ whitelist[a][index].check = c[2]
      /\ index = 0 => \A i \in 1 .. Len(whitelist[a]) :
                         \/ whitelist[a][i].provider # c[1]
                         \/ whitelist[a][i].check # c[2]
  BY <1>1, EntryFor
<1>3. ASSUME NEW expiry \in Expiries,
             K!add_account(service, a, c[1], c[2], expiry)
      PROVE  Records'
  <2> DEFINE e == [provider |-> c[1], check |-> c[2], expiry |-> expiry]
             q == IF index # 0 THEN [whitelist[a] EXCEPT ![index] = e]
                               ELSE Append(whitelist[a], e)
  <2>1. /\ whitelist' = [whitelist EXCEPT ![a] = q]
        /\ service_profiles' = service_profiles
    BY <1>3 DEF K!add_account
  <2>2. e \in Entry /\ e.provider = c[1] /\ e.check = c[2]
    BY DEF Entry
  <2> HIDE DEF e, index
  <2>3. CASE index # 0
    <3>1. index \in 1 .. Len(whitelist[a])
      BY <1>1, <1>2, <2>3
    <3>2. q \in Seq(Entry) /\ EntriesOnce(q)
      BY <1>1, <1>2, <2>2, <2>3, <3>1, ChangeEntry
    <3> QED BY <2>1, <3>2, EntriesRecords
  <2>4. CASE index = 0
    <3>1. q \in Seq(Entry) /\ EntriesOnce(q)
      BY <1>1, <1>2, <2>2, <2>4, AppendEntry
    <3> QED BY <2>1, <3>1, EntriesRecords
  <2> QED BY <2>3, <2>4
<1>4. CASE K!remove_account(service, a, c[1], c[2])
  <2> DEFINE q == RemoveAt(whitelist[a], index)
  <2>1. /\ whitelist' = [whitelist EXCEPT ![a] = q]
        /\ service_profiles' = service_profiles
        /\ index # 0
    BY <1>4, SameRemoveAt DEF K!remove_account
  <2> HIDE DEF index
  <2>2. index \in 1 .. Len(whitelist[a])
    BY <1>1, <1>2, <2>1
  <2>3. q \in Seq(Entry) /\ EntriesOnce(q)
    BY <1>1, <2>2, RemoveEntry
  <2> QED BY <2>1, <2>3, EntriesRecords
<1> QED BY <1>3, <1>4

LEMMA KycRecords ==
  ASSUME Records, K!KycNext
  PROVE  Records'
<1>1. ASSUME NEW p \in Profiles,
             \/ K!create_service_profile(p)
             \/ \E i \in DOMAIN service_profiles :
                   K!update_service_profile(i, p)
      PROVE  Records'
  BY <1>1, ProfileCallsRecords
<1>2. ASSUME NEW i \in DOMAIN service_profiles, K!remove_service_profile(i)
      PROVE  Records'
  <2>1. /\ service_profiles' = RemoveAt(service_profiles, i)
        /\ whitelist' = whitelist
    BY <1>2, SameRemoveAt DEF K!remove_service_profile
  <2>2. /\ service_profiles \in Seq(KnownProfiles)
        /\ ProfilesOnce(service_profiles) /\ i \in 1 .. Len(service_profiles)
    BY DEF Records
  <2> QED BY <2>1, <2>2, RemoveProfile, ProfilesRecords
<1>3. ASSUME UNCHANGED <<service_profiles, whitelist>>
      PROVE  Records'
  BY <1>3 DEF Records, ProfilesOnce, EntriesOnce, Shares, Doubles
<1>4. ASSUME \/ \E p \in Providers :
                   \/ K!create_provider(p)
                   \/ \E name \in K!ProviderNames : K!update_provider(name, p)
             \/ \E name \in K!ProviderNames : K!remove_provider(name)
             \/ \E name \in {p.name : p \in Profiles} \cup {Nil} :
                   K!set_default_profile(name)
      PROVE  Records'
  BY <1>3, <1>4 DEF K!create_provider, K!update_provider, K!remove_provider,
                    K!set_default_profile
<1>5. ASSUME NEW service, NEW a \in Claimants, NEW c \in K!Checked,
             \/ \E expiry \in Expiries :
                   K!add_account(service, a, c[1], c[2], expiry)
             \/ K!remove_account(service, a, c[1], c[2])
      PROVE  Records'
  BY <1>5, ServiceCallsRecords
<1> QED BY <1>1, <1>2, <1>4, <1>5 DEF K!KycNext

----------------------------------------------------------------------------
LEMMA InitRecords == PlatformInit => Records
<1> SUFFICES ASSUME PlatformInit PROVE Records
  OBVIOUS
<1>1. /\ service_profiles = FirstProfiles
      /\ whitelist = [a \in Claimants |-> <<>>]
  BY DEF PlatformInit, K!Init
<1>2. FirstProfiles \in Seq(KnownProfiles)
  BY ProfilesAssumption DEF KnownProfiles
<1>3. ProfilesOnce(FirstProfiles)
  BY <1>2, ProfilesAssumption DEF ProfilesOnce, Shares
<1>4. \A a \in Claimants :
         whitelist[a] \in Seq(Entry) /\ EntriesOnce(whitelist[a])
  BY <1>1 DEF EntriesOnce
<1> QED BY <1>1, <1>2, <1>3, <1>4 DEF Records

LEMMA NextRecords == Records /\ [PlatformNext]_platform_vars => Records'
<1> SUFFICES ASSUME Records, [PlatformNext]_platform_vars PROVE Records'
  OBVIOUS
<1>1. CASE KycStep
  BY <1>1, KycRecords DEF KycStep
<1>2. ASSUME UNCHANGED kyc_vars
      PROVE  Records'
  BY <1>2 DEF kyc_vars, Records, ProfilesOnce, EntriesOnce, Shares, Doubles
<1>3. CASE PlatformTick \/ OwnStep
  BY <1>2, <1>3 DEF PlatformTick, OwnStep, Rest
<1>4. ASSUME NEW i \in 1 .. Len(calls),
             OtherAnswer(i) \/ ReadWhitelist(i) \/ KycAnswer(i)
      PROVE  Records'
  BY <1>2, <1>4 DEF OtherAnswer, ReadWhitelist, KycAnswer, Rest
<1>5. ASSUME NEW e, Deliver(e)
      PROVE  Records'
  BY <1>2, <1>5 DEF Deliver
<1>6. CASE UNCHANGED platform_vars
  BY <1>2, <1>6 DEF platform_vars
<1> QED BY <1>1, <1>3, <1>4, <1>5, <1>6 DEF PlatformNext

(* However the administrator and the services change the records while     *)
(* questions are on their way, a service has one profile and an account    *)
(* one entry for each check: a verification that is taken back is gone.    *)
THEOREM KycRecordedOnceAlways == PlatformSpec => []KycRecordedOnce
BY RecordsOnce, InitRecords, NextRecords, PTL DEF PlatformSpec

----------------------------------------------------------------------------
(* The promises and the replies.                                           *)

(* At most one promise joins the queue q.                                  *)
Joins(q) == calls' = q \/ \E c : calls' = Append(q, c)

LEMMA PayoutJoins ==
  ASSUME NEW q, NEW id, NEW k, NEW place, Payout(q, id, k, place)
  PROVE  Joins(q)
BY Zenon DEF Payout, Send, Joins

LEMMA SettleJoins ==
  ASSUME NEW q, NEW k, NEW success, SettleDispute(q, k, success)
  PROVE  Joins(q)
BY PayoutJoins, Zenon DEF SettleDispute, Joins

LEMMA ProposeJoins ==
  ASSUME NEW q, NEW k, NEW deadline, NEW slot, NEW attached,
         ProposeOrCreateClaim(q, k, deadline, slot, attached)
  PROVE  Joins(q)
BY Zenon DEF ProposeOrCreateClaim, Propose, Send, Joins

LEMMA FinishJoins ==
  ASSUME NEW q, NEW k, ProposeOrFinish(q, k)
  PROVE  Joins(q)
BY Zenon DEF ProposeOrFinish, Propose, Send, Joins

(* A call sends at most one promise, ...                                   *)
LEMMA BountyCallJoins ==
  ASSUME NEW id \in BountyId, OnBounty(id)
  PROVE  Joins(calls)
<1>1. ASSUME NEW t \in Offers, ft_on_transfer(id, t) \/ bounty_create(id, t)
      PROVE  Joins(calls)
  BY <1>1, Zenon DEF ft_on_transfer, bounty_create, AddBounty, Joins
<1>2. ASSUME NEW u \in Updates, bounty_update(id, u)
      PROVE  Joins(calls)
  BY <1>2, Zenon DEF bounty_update, Joins
<1>3. CASE bounty_cancel(id) \/ start_competition(id) \/ bounty_finalize_all(id)
  BY <1>3, Zenon DEF bounty_cancel, start_competition, bounty_finalize_all,
     AskPayoutProposal, Send, Joins
<1>4. ASSUME NEW who, NEW deadline, NEW slot,
             bounty_claim(who, id, deadline, slot)
      PROVE  Joins(calls)
  BY <1>4, ProposeJoins, Zenon DEF bounty_claim, Send, Joins
<1>5. ASSUME NEW sender, bounty_approve_of_several(sender, id)
      PROVE  Joins(calls)
  BY <1>5, PayoutJoins, Zenon DEF bounty_approve_of_several
<1>6. CASE return_proposal_bond(id)
  BY <1>6, Zenon DEF return_proposal_bond, Joins
<1> QED BY <1>1, <1>2, <1>3, <1>4, <1>5, <1>6 DEF OnBounty

LEMMA ClaimCallJoins ==
  ASSUME NEW k \in ClaimKey, OnClaim(k)
  PROVE  Joins(calls)
<1>1. CASE bounty_finalize(k)
  BY <1>1, Zenon DEF bounty_finalize, FinalizeActive, FinalizeInactive,
     AskPayoutProposal, Send, Joins
<1>2. CASE bounty_done(k)
  BY <1>2, FinishJoins, Zenon DEF bounty_done, Send, Joins
<1>3. CASE bounty_give_up(k) \/ withdraw(k) \/ open_dispute(k)
  BY <1>3, Zenon DEF bounty_give_up, withdraw, open_dispute, Send, Joins
<1>4. ASSUME NEW sender, NEW delayed, accept_claimant(sender, k, delayed)
      PROVE  Joins(calls)
  BY <1>4, Zenon DEF accept_claimant, Send, Joins
<1>5. ASSUME NEW sender, NEW place, bounty_approve(sender, k, place)
      PROVE  Joins(calls)
  BY <1>5, PayoutJoins, Zenon DEF bounty_approve
<1>6. ASSUME NEW sender, decline_claimant(sender, k) \/ bounty_reject(sender, k)
      PROVE  Joins(calls)
  BY <1>6, Zenon DEF decline_claimant, bounty_reject, Joins
<1>7. ASSUME NEW place, mark_as_paid(k, place)
      PROVE  Joins(calls)
  BY <1>7, Zenon DEF mark_as_paid, Joins
<1>8. ASSUME NEW deadline, extend_claim_deadline(k, deadline)
      PROVE  Joins(calls)
  BY <1>8, Zenon DEF extend_claim_deadline, Joins
<1>9. CASE confirm_payment(k)
  BY <1>9, Zenon DEF confirm_payment, Joins
<1>10. ASSUME NEW success, dispute_result(k, success)
       PROVE  Joins(calls)
  BY <1>10, SettleJoins, Zenon DEF dispute_result
<1> QED BY <1>1, <1>2, <1>3, <1>4, <1>5, <1>6, <1>7, <1>8, <1>9, <1>10
        DEF OnClaim, ClaimCall

(* ... and so does a callback, to those that are left.                     *)
LEMMA AnswerJoins ==
  ASSUME NEW i \in 1 .. Len(calls), Answer(i)
  PROVE  Joins(Answered(i))
<1>1. CASE \/ Drop(i) \/ after_ft_transfer(i) \/ after_bounty_withdraw(i)
           \/ after_refund_bounty_amount(i) \/ after_fees_payout(i)
           \/ after_add_proposal(i) \/ on_added_proposal_callback(i)
           \/ after_create_dispute(i)
  BY <1>1, Zenon DEF Drop, after_ft_transfer, after_bounty_withdraw,
     after_refund_bounty_amount, after_fees_payout, after_add_proposal,
     on_added_proposal_callback, after_create_dispute, Joins
<1>2. CASE after_check_if_whitelisted(i)
  BY <1>2, ProposeJoins, FinishJoins, Zenon
     DEF after_check_if_whitelisted, Joins
<1>3. ASSUME NEW approved, after_check_approve_claimant_proposal(i, approved)
      PROVE  Joins(Answered(i))
  BY <1>3, Zenon DEF after_check_approve_claimant_proposal, Joins
<1>4. ASSUME NEW approved, after_check_bounty_payout_proposal(i, approved)
      PROVE  Joins(Answered(i))
  BY <1>4, PayoutJoins, Zenon DEF after_check_bounty_payout_proposal, Joins
<1>5. ASSUME NEW success, after_get_dispute(i, success)
      PROVE  Joins(Answered(i))
  BY <1>5, SettleJoins, Zenon DEF after_get_dispute
<1> QED BY <1>1, <1>2, <1>3, <1>4, <1>5 DEF Answer

----------------------------------------------------------------------------
(* The KYC checks.                                                         *)

(* The check that claim k is in for was made, with the accounts that were  *)
(* found on the whitelist for the bounties of `asked', or is still to come.*)
Passed(k, asked) ==
  LET t == bounties[k[1]].terms
      c == claims[k]
      isAsked == <<k[1], k[2]>> \in asked
  IN
  /\ t.kyc = "WhenCreatingClaim" /\ c.status # "Absent" => isAsked
  /\ t.kyc = "DuringClaimApproval" /\ c.status \in HiredStates /\ ~t.dao
     => \/ isAsked
        \/ c.kyc_delayed = "AllowedToSkipKyc"
        \/ /\ c.status \in Unfinished
           /\ c.kyc_delayed = "BeforeDeadline" \/ ~ApprovalRequired(k[2], t)

(* What the terms ask of the claimants is the same.                        *)
SameChecks(t, u, who) ==
  /\ u.kyc = t.kyc /\ u.dao = t.dao
  /\ ApprovalRequired(who, u) => ApprovalRequired(who, t)

(* A claim that is not started, nor finished without a check, by the step. *)
Follows(k) ==
  LET s == claims[k].status
      r == claims'[k].status
  IN
  /\ claims'[k].kyc_delayed = claims[k].kyc_delayed
  /\ \/ r = s
     \/ s # "Absent" /\ r \notin HiredStates
     \/ s \in HiredStates \ Unfinished

LEMMA FollowsPassed ==
  ASSUME NEW k, NEW asked, Passed(k, asked), Follows(k),
         \/ SameChecks(bounties[k[1]].terms, bounties'[k[1]].terms, k[2])
         \/ claims[k].status = "Absent"
         \/ /\ claims[k].status \notin Unfinished
            /\ bounties'[k[1]].terms.kyc = bounties[k[1]].terms.kyc
            /\ bounties'[k[1]].terms.dao = bounties[k[1]].terms.dao
  PROVE  Passed(k, asked)'
<1> PICK t, u, c, d : /\ t = bounties[k[1]].terms /\ u = bounties'[k[1]].terms
                      /\ c = claims[k] /\ d = claims'[k]
  OBVIOUS
<1>1. CASE SameChecks(t, u, k[2])
  BY <1>1 DEF Passed, Follows, SameChecks, HiredStates, Unfinished, Active
<1>2. CASE c.status = "Absent"
  BY <1>2 DEF Passed, Follows, HiredStates, Unfinished, Active
<1>3. CASE /\ c.status \notin Unfinished
           /\ u.kyc = t.kyc /\ u.dao = t.dao
  BY <1>3 DEF Passed, Follows, HiredStates, Unfinished, Active
<1> QED BY <1>1, <1>2, <1>3

(* The events without a check.                                             *)
LEMMA ClosesFollows ==
  ASSUME Course, NEW k \in ClaimKey, NEW s, Closes(k, s),
         claims[k].status # "Absent",
         s \notin HiredStates \/ claims[k].status \in HiredStates \ Unfinished
  PROVE  Follows(k) /\ OthersStay(k)
<1>1. claims \in [ClaimKey -> Claim] /\ claims[k] \in Claim
  BY Stored
<1> DEFINE c == [claims[k] EXCEPT !.status = s]
<1>2. c.status = s /\ c.kyc_delayed = claims[k].kyc_delayed
  BY <1>1, Zenon DEF Claim
<1>3. claims' = [claims EXCEPT ![k] = c]
  BY Zenon DEF Closes
<1> HIDE DEF c
<1>4. claims'[k] = c /\ \A j \in ClaimKey : j # k => claims'[j] = claims[j]
  BY <1>1, <1>3
<1> QED BY <1>2, <1>4 DEF Follows, OthersStay

LEMMA NotesFollows ==
  ASSUME Course, NEW k \in ClaimKey, Notes(k)
  PROVE  Follows(k) /\ OthersStay(k)
<1>1. claims \in [ClaimKey -> Claim] /\ claims[k] \in Claim
  BY Stored
<1>2. \/ UNCHANGED claims
      \/ \E d : claims' = [claims EXCEPT ![k].deadline = d]
      \/ claims' = [claims EXCEPT ![k].payment_at = TRUE]
      \/ claims' = [claims EXCEPT ![k].payment_confirmed_at = TRUE]
  BY DEF Notes, extend_claim_deadline, mark_as_paid, confirm_payment
<1> QED BY <1>1, <1>2 DEF Follows, OthersStay, Claim

LEMMA PlainFollows ==
  ASSUME Course, NEW k \in ClaimKey, PlainEvent(k)
  PROVE  Follows(k) /\ OthersStay(k)
<1>1. CASE Notes(k)
  BY <1>1, NotesFollows
<1>2. CASE Rejects(k)
  <2>1. claims \in [ClaimKey -> Claim] /\ claims[k] \in Claim
    BY Stored
  <2> DEFINE c == [claims[k] EXCEPT !.status = "Rejected", !.rejected_at = now]
  <2>2. c.status = "Rejected" /\ c.kyc_delayed = claims[k].kyc_delayed
    BY <2>1, Zenon DEF Claim
  <2>3. claims' = [claims EXCEPT ![k] = c] /\ claims[k].status = "Completed"
    BY <1>2, Zenon DEF Rejects
  <2> HIDE DEF c
  <2>4. claims'[k] = c /\ \A j \in ClaimKey : j # k => claims'[j] = claims[j]
    BY <2>1, <2>3
  <2> QED BY <2>2, <2>3, <2>4
          DEF Follows, OthersStay, HiredStates, Unfinished, Active
<1>3. CASE \E s : /\ Closes(k, s)
                  /\ claims[k].status \in {"Rejected", "Disputed"}
  BY <1>3, ClosesFollows DEF HiredStates, Unfinished, Active
<1>4. CASE \E s : /\ Closes(k, s) /\ s \notin HiredStates
                  /\ claims[k].status # "Absent"
  BY <1>4, ClosesFollows
<1>5. Argues(k) => \E s : /\ Closes(k, s)
                          /\ claims[k].status \in {"Rejected", "Disputed"}
  BY DEF Argues
<1>6. Declines(k) \/ Leaves(k) \/ Resets(k) \/ Pays(k) \/ Withdraws(k) =>
        \E s : /\ Closes(k, s) /\ s \notin HiredStates
               /\ claims[k].status # "Absent"
  <2>1. ASSUME Declines(k) \/ Leaves(k) \/ Resets(k)
        PROVE  \E s : /\ Closes(k, s) /\ s \notin HiredStates
                      /\ claims[k].status # "Absent"
    <3>1. PICK s \in {"NotHired", "Canceled", "NotCompleted", "Expired"} :
            Closes(k, s) /\ claims[k].status # "Absent"
      BY <2>1 DEF Declines, Leaves, Resets
    <3> QED BY <3>1 DEF HiredStates, Active
  <2>2. ASSUME Pays(k) \/ Withdraws(k)
        PROVE  \E s : /\ Closes(k, s) /\ s \notin HiredStates
                      /\ claims[k].status # "Absent"
    <3>1. Closes(k, "Approved") /\ claims[k].status # "Absent"
      BY <2>2 DEF Pays, Withdraws
    <3> QED BY <3>1 DEF HiredStates, Active
  <2> QED BY <2>1, <2>2
<1> QED BY <1>1, <1>2, <1>3, <1>4, <1>5, <1>6 DEF PlainEvent

(* bounty_update does not take from those at work what the check of their  *)
(* claims rests on.                                                        *)
LEMMA UpdatePassed ==
  ASSUME Course, NEW k \in ClaimKey, Changes(k[1]),
         NEW t, t = bounties[k[1]].terms, NEW w, w = bounties'[k[1]].terms
  PROVE  \/ SameChecks(t, w, k[2])
         \/ /\ claims[k].status \notin Unfinished
            /\ w.kyc = t.kyc /\ w.dao = t.dao
<1> DEFINE id == k[1]
<1>1. PICK u \in Updates : bounty_update(id, u)
  BY DEF Changes
<1>2. /\ id \in BountyId /\ t \in Terms /\ u \in Update
  BY <1>1, Stored, BountiesAssumption DEF Bounty
<1>3. w = UpdatedTerms(t, u) /\ w.kyc = t.kyc /\ w.dao = t.dao
  BY <1>1, <1>2, ChangesFacts DEF SameRun, SameTerms
<1>4. CASE u.field # "approval"
  <2>1. w.approval = t.approval /\ w.whitelist = t.whitelist
    BY <1>2, <1>3, <1>4 DEF UpdatedTerms, Terms, Update
  <2> QED BY <1>3, <2>1 DEF SameChecks, ApprovalRequired
<1>5. CASE u.field = "approval" /\ claims[k].status \in Unfinished
  <2>0. w = [t EXCEPT !.approval = u.approval, !.whitelist = u.whitelist]
    BY <1>3, <1>5, Zenon DEF UpdatedTerms
  <2>1. w.approval = u.approval /\ w.whitelist = u.whitelist
    BY <1>2, <2>0, Zenon DEF Terms
  <2>2. ApprovalUpdatable(id, u)
    BY <1>1, <1>5 DEF bounty_update, UpdateAllowed
  <2>3. k \in ClaimsOf(id, HiredStatuses(bounties[id]))
        /\ k \in ClaimsOf(id, AgreedStatuses(bounties[id]))
    BY <1>5 DEF ClaimsOf, HiredStatuses, AgreedStatuses, Unfinished
  <2>4. /\ u.approval = t.approval
        /\ u.approval \in {"ApprovalByWhitelist", "WhitelistWithApprovals"}
        /\ u.approval = "ApprovalByWhitelist" => k[2] \in u.whitelist
    BY <2>2, <2>3 DEF ApprovalUpdatable, Bargained
  <2> QED BY <1>3, <2>1, <2>4 DEF SameChecks, ApprovalRequired
<1> QED BY <1>3, <1>4, <1>5

(* A step that leaves the checks of the claims alone.                      *)
LEMMA FollowedPassed ==
  ASSUME Course, Shape', ClaimsStep, NEW k \in ClaimKey, Follows(k),
         NEW asked, Passed(k, asked)
  PROVE  Passed(k, asked)'
<1>1. k[1] \in BountyId
  BY KeyType
<1>2. CASE claims[k].status = "Absent"
  BY <1>2, FollowsPassed
<1>3. CASE bounties'[k[1]].terms = bounties[k[1]].terms
  BY <1>3, FollowsPassed DEF SameChecks
<1>4. CASE Changes(k[1])
  BY <1>4, UpdatePassed, FollowsPassed
<1>5. claims[k].status # "Absent" => Status(k[1]) # "Absent"
  BY Stored DEF Status
<1> QED BY <1>1, <1>2, <1>3, <1>4, <1>5, TermsMove

LEMMA PlainPassed ==
  ASSUME Course, Shape', PlainStep, NEW k \in ClaimKey,
         NEW asked, Passed(k, asked)
  PROVE  Passed(k, asked)'
<1>1. ClaimsStep
  BY DEF PlainStep, ClaimsStep, ClaimEvent
<1>2. ASSUME NEW id \in BountyId, BountyEvent(id)
      PROVE  UNCHANGED claims
  BY <1>2, StartFacts, ChangesFacts
     DEF BountyEvent, Begins, Changes, Cancels, Accepts
<1>3. UNCHANGED claims => Follows(k)
  BY DEF Follows
<1>4. ASSUME NEW j \in ClaimKey, PlainEvent(j)
      PROVE  Follows(k)
  BY <1>4, PlainFollows DEF OthersStay, Follows
<1> QED BY <1>1, <1>2, <1>3, <1>4, FollowedPassed DEF PlainStep

----------------------------------------------------------------------------
(* The events with a check.                                                *)

LEMMA ApprovingDelay ==
  ASSUME NEW b, NEW k \in ClaimKey, NEW c \in Claim, NEW delayed
  PROVE  Approving(b, k, c, delayed).kyc_delayed = delayed
<1>1. PICK s, f : \/ ClaimOnApproval(b, k, c) = [c EXCEPT !.status = s]
                  \/ ClaimOnApproval(b, k, c) =
                       [c EXCEPT !.status = s, !.start_time = f]
  BY Zenon DEF ClaimOnApproval
<1> QED BY <1>1, Zenon DEF Claim, Approving

(* On a bounty with applications nobody is done the moment he is approved. *)
LEMMA AdmittedWorks ==
  ASSUME NEW b, NEW k, NEW s, b.terms.flow = "AdvancedFlow"
  PROVE  /\ AdmittedStatus(b, k, s) \in Unfinished
         /\ ApprovedStatus(b) \in Unfinished
BY DEF AdmittedStatus, ApprovedStatus, Unfinished

(* internal_claimant_approval starts the work of those who were checked,   *)
(* or whose check is to come.                                              *)
LEMMA ApprovePassed ==
  ASSUME Course, NEW k \in ClaimKey, NEW c \in Claim,
         NEW delayed \in Deferments \cup {Nil},
         ApproveClaimant(k, c, delayed), Status(k[1]) # "Absent",
         NEW t, t = bounties[k[1]].terms,
         NEW asked,
         t.kyc = "WhenCreatingClaim" => <<k[1], k[2]>> \in asked,
         t.kyc = "DuringClaimApproval" /\ ~t.dao =>
           <<k[1], k[2]>> \in asked \/ delayed # Nil \/ ~ApprovalRequired(k[2], t),
         NEW j \in ClaimKey, Passed(j, asked)
  PROVE  Passed(j, asked)'
<1> DEFINE b == bounties[k[1]]
<1>1. /\ k[1] \in BountyId /\ j[1] \in BountyId /\ claims[j] \in Claim
      /\ b \in Bounty /\ b.status # "Absent" /\ t = b.terms
      /\ j[1] = k[1] => bounties[j[1]].terms = b.terms
  BY Stored DEF Status
<1>0. /\ bounties'[k[1]] = BountyOnApproval(b, k, c.slot)
      /\ \A id \in BountyId : id # k[1] => bounties'[id] = bounties[id]
      /\ claims'[k] = Approving(b, k, c, delayed)
      /\ \A i \in ClaimKey :
           i # k /\ i \notin Released(b, k, c.slot) => claims'[i] = claims[i]
      /\ \A i \in Released(b, k, c.slot) :
           claims'[i] = [claims[i] EXCEPT !.status = ApprovedStatus(b),
                                          !.start_time = now]
  BY ApproveStores, Zenon
<1>2. bounties'[j[1]].terms = bounties[j[1]].terms
  <2>1. CASE j[1] = k[1]
    <3>1. bounties'[j[1]] = BountyOnApproval(b, k, c.slot)
      BY <1>0, <2>1
    <3> QED BY <1>1, <2>1, <3>1, ApprovalFields
  <2>2. CASE j[1] # k[1]
    BY <1>0, <1>1, <2>2
  <2> QED BY <2>1, <2>2
<1>3. t.kyc = "DuringClaimApproval" => b.terms.flow = "AdvancedFlow"
  BY <1>1 DEF Course, StatusFits
<1> HIDE DEF b
<1>4. CASE j = k
  <2>1. /\ claims'[k].kyc_delayed = delayed
        /\ claims'[k].status = AdmittedStatus(b, k, c.slot)
    <3> PICK d : d = Approving(b, k, c, delayed)
      OBVIOUS
    <3>1. d.kyc_delayed = delayed
      BY ApprovingDelay
    <3>2. d.status = AdmittedStatus(b, k, c.slot)
      BY ApprovedFields
    <3> QED BY <1>0, <3>1, <3>2
  <2>2. t.kyc = "DuringClaimApproval" => claims'[k].status \in Unfinished
    BY <1>3, <2>1, AdmittedWorks
  <2>3. bounties'[k[1]].terms = t
    BY <1>2, <1>4
  <2>4. t.kyc = "DuringClaimApproval" /\ ~t.dao =>
          \/ <<k[1], k[2]>> \in asked
          \/ claims'[k].kyc_delayed \in {"AllowedToSkipKyc", "BeforeDeadline"}
          \/ ~ApprovalRequired(k[2], t)
    BY <2>1 DEF Deferments
  <2> QED BY <1>4, <2>2, <2>3, <2>4 DEF Passed
<1>5. CASE j \in Released(b, k, c.slot)
  <2>1. j[1] = k[1] /\ claims[j].status = "ReadyToStart"
    BY <1>5, ReleasedFacts
  <2>2. claims'[j] = [claims[j] EXCEPT !.status = ApprovedStatus(b),
                                       !.start_time = now]
    BY <1>0, <1>5
  <2>3. /\ claims'[j].status = ApprovedStatus(b)
        /\ claims'[j].kyc_delayed = claims[j].kyc_delayed
    BY <1>1, <2>2, Zenon DEF Claim
  <2>4. t.kyc = "DuringClaimApproval" => claims'[j].status \in Unfinished
    BY <1>3, <2>3, AdmittedWorks
  <2> QED BY <1>2, <2>1, <2>3, <2>4 DEF Passed, HiredStates, Unfinished, Active
<1>6. CASE j # k /\ j \notin Released(b, k, c.slot)
  <2>1. claims'[j] = claims[j]
    BY <1>0, <1>6
  <2> QED BY <1>2, <2>1 DEF Passed
<1> QED BY <1>4, <1>5, <1>6

(* internal_add_claim                                                      *)
LEMMA CreatePassed ==
  ASSUME Course, NEW k \in ClaimKey, NEW deadline \in Nat \cup {Nil},
         NEW slot \in Places \cup {Nil}, NEW proposal \in BOOLEAN,
         NEW attached, CreateClaim(k, deadline, slot, proposal, attached),
         Status(k[1]) # "Absent",
         NEW t, t = bounties[k[1]].terms,
         NEW asked,
         t.kyc = "WhenCreatingClaim" => <<k[1], k[2]>> \in asked,
         NEW j \in ClaimKey, Passed(j, asked)
  PROVE  Passed(j, asked)'
<1> DEFINE c == [NoClaim EXCEPT !.status = "New", !.deadline = deadline,
                                !.slot = slot, !.bond = config.bond,
                                !.approve_proposal = proposal]
<1>1. NoClaim \in Claim /\ "New" \in ClaimStatus /\ config.bond \in Nat
  BY DEF NoClaim, Claim, ClaimStatus, Course, Work, Shape, TypeOK, Config
<1>2. c \in Claim /\ c.status = "New"
  BY <1>1, Zenon DEF Claim
<1>3. \/ ~ApprovalRequired(k[2], t) /\ ApproveClaimant(k, c, Nil)
      \/ claims' = [claims EXCEPT ![k] = c] /\ UNCHANGED bounties
  BY Zenon DEF CreateClaim
<1> HIDE DEF c
<1>4. CASE ~ApprovalRequired(k[2], t) /\ ApproveClaimant(k, c, Nil)
  BY <1>2, <1>4, ApprovePassed
<1>5. CASE claims' = [claims EXCEPT ![k] = c] /\ UNCHANGED bounties
  <2>1. claims \in [ClaimKey -> Claim]
    BY Stored
  <2>2. claims'[j] = claims[j] \/ (j = k /\ claims'[j].status = "New")
    BY <1>2, <1>5, <2>1
  <2>3. bounties'[j[1]].terms = bounties[j[1]].terms
    BY <1>5
  <2> QED BY <2>2, <2>3 DEF Passed, HiredStates, Unfinished, Active
<1> QED BY <1>3, <1>4, <1>5

(* internal_claim_done                                                     *)
LEMMA FinishPassed ==
  ASSUME Course, NEW k \in ClaimKey, NEW proposal \in BOOLEAN,
         ClaimDone(k, proposal),
         NEW asked,
         KycAtDone(k) /\ ~bounties[k[1]].terms.dao => <<k[1], k[2]>> \in asked,
         NEW j \in ClaimKey, Passed(j, asked)
  PROVE  Passed(j, asked)'
<1>1. /\ claims \in [ClaimKey -> Claim] /\ claims[k] \in Claim
      /\ k[1] \in BountyId /\ j[1] \in BountyId
      /\ bounties \in [BountyId -> Bounty]
  BY Stored
<1>2. claims[k].status \in {"InProgress", "Competes"}
  BY DEF ClaimDone
<1>3. PICK p : claims' = [claims EXCEPT ![k].status = "Completed",
                                        ![k].payout_proposal = p]
  BY Zenon DEF ClaimDone
<1>4. /\ claims'[k].status = "Completed"
      /\ claims'[k].kyc_delayed = claims[k].kyc_delayed
      /\ j # k => claims'[j] = claims[j]
  BY <1>1, <1>3 DEF Claim
<1>5. bounties'[j[1]].terms = bounties[j[1]].terms
  <2>1. \/ UNCHANGED bounties
        \/ \E s, q : bounties' = [bounties EXCEPT ![k[1]].completed = s,
                                                  ![k[1]].proposal_id = q]
    BY Zenon DEF ClaimDone
  <2>2. CASE UNCHANGED bounties
    BY <2>2
  <2>3. ASSUME NEW s, NEW q,
               bounties' = [bounties EXCEPT ![k[1]].completed = s,
                                            ![k[1]].proposal_id = q]
        PROVE  bounties'[j[1]].terms = bounties[j[1]].terms
    <3>1. \A b \in Bounty :
            [b EXCEPT !.completed = s, !.proposal_id = q].terms = b.terms
      BY Zenon DEF Bounty
    <3>2. bounties' = [bounties EXCEPT ![k[1]] =
             [bounties[k[1]] EXCEPT !.completed = s, !.proposal_id = q]]
      BY <2>3, Zenon
    <3> QED BY <1>1, <3>1, <3>2
  <2> QED BY <2>1, <2>2, <2>3
<1>6. CASE j = k
  BY <1>2, <1>4, <1>5, <1>6
     DEF Passed, KycAtDone, HiredStates, Unfinished, Active
<1>7. CASE j # k
  BY <1>4, <1>5, <1>7 DEF Passed
<1> QED BY <1>6, <1>7

LEMMA CheckedPassed ==
  ASSUME Course, NEW q, NEW k \in ClaimKey, NEW asked, Checked(q, k, asked),
         \A i \in ClaimKey : Passed(i, asked), NEW j \in ClaimKey
  PROVE  Passed(j, asked)'
<1> PICK t : t = bounties[k[1]].terms
  OBVIOUS
<1>1. UNCHANGED <<bounties, claims>> => Passed(j, asked)'
  BY DEF Passed
<1>2. Status(k[1]) # "Absent" /\ FALSE \in BOOLEAN /\ TRUE \in BOOLEAN
      /\ Nil \in Deferments \cup {Nil} /\ claims[k] \in Claim
  BY Stored DEF Checked
<1>3. CASE Makes(q, k) /\ (t.kyc = "WhenCreatingClaim" =>
                              <<k[1], k[2]>> \in asked)
  <2>1. PICK deadline \in Nat \cup {Nil}, slot \in Places \cup {Nil} :
          \/ \E attached \in {0, config.bond} :
               ProposeOrCreateClaim(q, k, deadline, slot, attached)
          \/ CreateClaim(k, deadline, slot, TRUE, 0)
    BY <1>3 DEF Makes
  <2>2. \/ UNCHANGED <<bounties, claims>>
        \/ \E proposal \in BOOLEAN : \E attached :
             CreateClaim(k, deadline, slot, proposal, attached)
    BY <1>2, <2>1, Zenon DEF ProposeOrCreateClaim, Propose
  <2> QED BY <1>1, <1>2, <1>3, <2>2, CreatePassed
<1>4. ASSUME NEW delayed \in Deferments \cup {Nil}, Engages(q, k, delayed),
             t.kyc = "DuringClaimApproval" /\ ~t.dao =>
               <<k[1], k[2]>> \in asked \/ delayed # Nil
      PROVE  Passed(j, asked)'
  <2>1. ApproveClaimant(k, claims[k], delayed) /\ claims[k].status = "New"
    BY <1>4 DEF Engages, MayDecide
  <2>2. Passed(k, asked)
    OBVIOUS
  <2>3. t.kyc = "WhenCreatingClaim" => <<k[1], k[2]>> \in asked
    BY <2>2, <2>1 DEF Passed
  <2> QED BY <1>2, <1>4, <2>1, <2>3, ApprovePassed
<1>5. CASE HandsIn(q, k) /\ (KycAtDone(k) /\ ~t.dao =>
                                <<k[1], k[2]>> \in asked)
  <2>1. \/ UNCHANGED <<bounties, claims>>
        \/ \E proposal \in BOOLEAN : ClaimDone(k, proposal)
    BY <1>2, <1>5, Zenon DEF HandsIn, ProposeOrFinish, Propose
  <2> QED BY <1>1, <1>5, <2>1, FinishPassed
<1> QED BY <1>3, <1>4, <1>5, Zenon DEF Checked

(* Every step keeps to the checks.                                         *)
LEMMA StepPassed ==
  ASSUME Course, Shape', NEW asked, CheckedStep(asked),
         \A i \in ClaimKey : Passed(i, asked), NEW j \in ClaimKey
  PROVE  Passed(j, asked)'
<1>1. CASE PlainStep
  BY <1>1, PlainPassed
<1>2. ASSUME NEW k \in ClaimKey, NEW q, Checked(q, k, asked)
      PROVE  Passed(j, asked)'
  BY <1>2, CheckedPassed
<1> QED BY <1>1, <1>2, Zenon DEF CheckedStep

(* What a step with a check sends.                                         *)
LEMMA CheckedSends ==
  ASSUME NEW q, NEW k \in ClaimKey, NEW asked, Checked(q, k, asked)
  PROVE  \/ calls' = q
         \/ /\ UNCHANGED bounties
            /\ \E c : /\ calls' = Append(q, c)
                      /\ \/ c.kind # "addClaimantProposal"
                         \/ /\ c.claim = k
                            /\ bounties[k[1]].terms.kyc = "WhenCreatingClaim"
                                 => <<k[1], k[2]>> \in asked
<1> PICK t : t = bounties[k[1]].terms
  OBVIOUS
<1>1. CASE Makes(q, k) /\ (t.kyc = "WhenCreatingClaim" =>
                              <<k[1], k[2]>> \in asked)
  <2>1. \/ calls' = q
        \/ \E deadline, slot, attached :
             ProposeOrCreateClaim(q, k, deadline, slot, attached)
    BY <1>1, Zenon DEF Makes
  <2>2. ASSUME NEW deadline, NEW slot, NEW attached,
               ProposeOrCreateClaim(q, k, deadline, slot, attached),
               calls' # q
        PROVE  /\ UNCHANGED bounties
               /\ \E c : calls' = Append(q, c) /\ c.claim = k
    <3> DEFINE c == [kind |-> "addClaimantProposal", claim |-> k,
                     deadline |-> deadline, slot |-> slot]
    <3>1. UNCHANGED bounties /\ calls' = Append(q, c)
      BY <2>2, Zenon DEF ProposeOrCreateClaim, Propose, Send
    <3>2. c.claim = k
      OBVIOUS
    <3> HIDE DEF c
    <3> QED BY <3>1, <3>2
  <2> QED BY <1>1, <2>1, <2>2
<1>2. ASSUME NEW delayed, Engages(q, k, delayed)
      PROVE  calls' = q
  BY <1>2 DEF Engages
<1>3. CASE HandsIn(q, k)
  <2>1. \/ calls' = q
        \/ /\ UNCHANGED bounties
           /\ calls' = Append(q, [kind |-> "addPayoutProposal", claim |-> k])
    BY <1>3, Zenon DEF HandsIn, ProposeOrFinish, Propose, Send
  <2> QED BY <2>1
<1> QED BY <1>1, <1>2, <1>3, Zenon DEF Checked

(* The kind of KYC check of a bounty does not change.                      *)
LEMMA KycStays ==
  ASSUME Course, Shape', ClaimsStep, NEW id \in BountyId,
         Status(id) # "Absent"
  PROVE  bounties'[id].terms.kyc = bounties[id].terms.kyc
BY EventKinds, CalmFacts, SparedCalm, DealStays

(* A proposal to take a claimant is for one who was checked where that     *)
(* comes first.                                                            *)
LEMMA StepProposed ==
  ASSUME Course, Shape', NEW asked, CheckedStep(asked), Proposed(asked)
  PROVE  Proposed(asked)'
<1>1. ClaimsStep
  BY CheckedSteps
<1> DEFINE Kept(c) == c.kind = "addClaimantProposal" /\
             bounties'[c.claim[1]].terms.kyc = "WhenCreatingClaim"
             => <<c.claim[1], c.claim[2]>> \in asked
<1>2. ASSUME NEW q, Carried(q), NEW j \in 1 .. Len(q)
      PROVE  Kept(q[j])
  <2>1. SUFFICES ASSUME q[j].kind = "addClaimantProposal"
                 PROVE  Kept(q[j])
    OBVIOUS
  <2>2. PICK i \in 1 .. Len(calls) : calls[i] = q[j]
    BY <1>2, <2>1 DEF Carried
  <2>3. Status(calls[i].claim[1]) # "Absent"
    BY <2>1, <2>2 DEF Course, FitSeq, Fit
  <2>4. calls[i].claim[1] \in BountyId
    BY <2>1, <2>2, FitLeft, CallFacts, KeyType
  <2>5. bounties'[calls[i].claim[1]].terms.kyc
          = bounties[calls[i].claim[1]].terms.kyc
    BY <1>1, <2>3, <2>4, KycStays
  <2> QED BY <2>1, <2>2, <2>5 DEF Proposed
<1>3. CASE Carried(calls')
  BY <1>2, <1>3 DEF Proposed
<1>4. ASSUME NEW k \in ClaimKey, NEW q, Carried(q), Checked(q, k, asked)
      PROVE  Proposed(asked)'
  <2>1. CASE calls' = q
    BY <1>2, <1>4, <2>1 DEF Proposed
  <2>2. ASSUME NEW c, calls' = Append(q, c), UNCHANGED bounties,
               \/ c.kind # "addClaimantProposal"
               \/ /\ c.claim = k
                  /\ bounties[k[1]].terms.kyc = "WhenCreatingClaim"
                       => <<k[1], k[2]>> \in asked
        PROVE  Proposed(asked)'
    <3>1. q \in Seq(Calls)
      BY <1>4 DEF Carried, FitSeq
    <3>2. Kept(c)
      BY <2>2
    <3>3. \A j \in 1 .. Len(calls') : \/ calls'[j] = c
                                      \/ j \in 1 .. Len(q) /\ calls'[j] = q[j]
      BY <2>2, <3>1
    <3> QED BY <1>2, <1>4, <3>2, <3>3 DEF Proposed
  <2> QED BY <1>4, <2>1, <2>2, CheckedSends
<1> QED BY <1>3, <1>4 DEF CheckedStep

----------------------------------------------------------------------------
(* The invariant of the checks.                                            *)

(* The answers r to the promises q are as many, and each yes was heard for *)
(* the bounties of `asked'.                                                *)
Heard(q, r, asked) ==
  /\ r \in Seq(BOOLEAN \cup {Nil}) /\ Len(r) = Len(q)
  /\ \A i \in 1 .. Len(q) :
        q[i].kind = "kyc" /\ r[i] = TRUE =>
          <<q[i].claim[1], q[i].claim[2]>> \in asked

Vetted ==
  /\ Course
  /\ Heard(calls, replies, cleared)
  /\ Proposed(cleared)
  /\ \A k \in ClaimKey : Passed(k, cleared)

(* A new promise has no answer yet.                                        *)
LEMMA HeardSent ==
  ASSUME NEW q \in Seq(Calls), NEW r, NEW asked, Heard(q, r, asked),
         Joins(q), RepliesFrom(r)
  PROVE  Heard(calls', replies', asked)
<1>1. r \in Seq(BOOLEAN \cup {Nil}) /\ Len(r) = Len(q) /\ Nil # TRUE
  BY RepliesAssumption DEF Heard
<1>2. CASE calls' = q
  <2>1. replies' = r
    BY <1>1, <1>2 DEF RepliesFrom
  <2> QED BY <1>2, <2>1 DEF Heard
<1>3. ASSUME NEW c, calls' = Append(q, c)
      PROVE  Heard(calls', replies', asked)
  <2>1. Len(calls') = Len(q) + 1 /\ Len(q) \in Nat
        /\ \A i \in 1 .. Len(q) : calls'[i] = q[i]
    BY <1>3
  <2>2. replies' = Append(r, Nil)
    BY <1>1, <2>1 DEF RepliesFrom
  <2>3. /\ replies' \in Seq(BOOLEAN \cup {Nil}) /\ Len(replies') = Len(q) + 1
        /\ replies'[Len(q) + 1] = Nil
        /\ \A i \in 1 .. Len(q) : replies'[i] = r[i]
    BY <1>1, <2>2
  <2>4. ASSUME NEW i \in 1 .. Len(calls'),
               calls'[i].kind = "kyc" /\ replies'[i] = TRUE
        PROVE  <<calls'[i].claim[1], calls'[i].claim[2]>> \in asked
    <3>1. i # Len(q) + 1
      BY <1>1, <2>3, <2>4, Zenon
    <3>2. i \in 1 .. Len(q)
      BY <2>1, <3>1
    <3> QED BY <2>1, <2>3, <2>4, <3>2 DEF Heard
  <2> QED BY <2>1, <2>3, <2>4 DEF Heard
<1> QED BY <1>2, <1>3 DEF Joins

(* The answers move with the promises.                                     *)
LEMMA HeardLeft ==
  ASSUME calls \in Seq(Calls), NEW i \in 1 .. Len(calls), NEW asked,
         Heard(calls, replies, asked)
  PROVE  Heard(Answered(i), RemoveAt(replies, i), asked)
<1> PICK q, r : q = Answered(i) /\ r = RemoveAt(replies, i)
  OBVIOUS
<1>1. replies \in Seq(BOOLEAN \cup {Nil}) /\ Len(replies) = Len(calls)
      /\ Len(calls) \in Nat
  BY DEF Heard
<1>2. /\ Len(q) = Len(calls) - 1
      /\ \A j \in 1 .. Len(calls) - 1 : q[j] = calls[IF j < i THEN j ELSE j + 1]
  BY RemoveAtKeeps DEF Answered
<1>3. /\ r \in Seq(BOOLEAN \cup {Nil}) /\ Len(r) = Len(calls) - 1
      /\ \A j \in 1 .. Len(calls) - 1 : r[j] = replies[IF j < i THEN j ELSE j + 1]
  <2>1. PICK S, s : S = BOOLEAN \cup {Nil} /\ s = replies
    OBVIOUS
  <2>2. s \in Seq(S) /\ i \in 1 .. Len(s)
    BY <1>1, <2>1
  <2>3. /\ RemoveAt(s, i) \in Seq(S) /\ Len(RemoveAt(s, i)) = Len(s) - 1
        /\ \A j \in 1 .. Len(s) - 1 :
             RemoveAt(s, i)[j] = s[IF j < i THEN j ELSE j + 1]
    BY <2>2, RemoveAtKeeps
  <2> QED BY <1>1, <2>1, <2>3
<1>4. ASSUME NEW j \in 1 .. Len(q), q[j].kind = "kyc", r[j] = TRUE
      PROVE  <<q[j].claim[1], q[j].claim[2]>> \in asked
  <2>1. PICK m \in 1 .. Len(calls) : q[j] = calls[m] /\ r[j] = replies[m]
    <3>1. (IF j < i THEN j ELSE j + 1) \in 1 .. Len(calls)
      BY <1>1, <1>2
    <3> QED BY <1>1, <1>2, <1>3, <3>1
  <2> QED BY <1>4, <2>1 DEF Heard
<1> QED BY <1>2, <1>3, <1>4 DEF Heard

(* A step of the bounties contract, with the whitelist as it was heard.    *)
LEMMA VettedStep ==
  ASSUME Vetted, [Next]_vars, CheckedStep(cleared), UNCHANGED cleared,
         NEW q \in Seq(Calls), NEW r, Heard(q, r, cleared),
         Joins(q), RepliesFrom(r)
  PROVE  Vetted'
<1> PICK asked : asked = cleared
  OBVIOUS
<1>1. Course /\ Proposed(asked) /\ \A k \in ClaimKey : Passed(k, asked)
  BY DEF Vetted
<1>2. Shape' /\ Course'
  BY <1>1, NextCourse DEF Course, Work
<1>3. CheckedStep(asked) /\ cleared' = asked /\ Heard(q, r, asked)
  OBVIOUS
<1>4. Heard(calls', replies', asked)
  BY <1>3, HeardSent
<1>5. Proposed(asked)'
  BY <1>1, <1>2, <1>3, StepProposed
<1>6. \A k \in ClaimKey : Passed(k, asked)'
  BY <1>1, <1>2, <1>3, StepPassed
<1> QED BY <1>2, <1>3, <1>4, <1>5, <1>6 DEF Vetted

(* Nothing was asked and nobody has claimed at the start.                  *)
LEMMA InitVetted == PlatformInit => Vetted
<1> SUFFICES ASSUME PlatformInit PROVE Vetted
  OBVIOUS
<1>1. Course
  BY InitCourse DEF PlatformInit
<1>2. calls = <<>> /\ replies = <<>> /\ \A k \in ClaimKey : claims[k].status = "Absent"
  BY DEF PlatformInit, Init, NoClaim
<1>3. Heard(calls, replies, cleared) /\ Proposed(cleared)
  BY <1>2 DEF Heard, Proposed
<1>4. \A k \in ClaimKey : Passed(k, cleared)
  BY <1>2 DEF Passed, HiredStates, Active
<1> QED BY <1>1, <1>3, <1>4 DEF Vetted

(* A yes of the KYC contract is remembered with the account.               *)
LEMMA ReadVetted ==
  ASSUME Vetted, NEW i \in 1 .. Len(calls), ReadWhitelist(i)
  PROVE  Vetted'
<1> PICK j : j = <<calls[i].claim[1], calls[i].claim[2]>>
  OBVIOUS
<1> PICK says \in BOOLEAN : says = K!is_whitelisted(calls[i].claim[2])
  BY Zenon DEF K!is_whitelisted
<1>1. /\ UNCHANGED vars
      /\ replies' = [replies EXCEPT ![i] = says]
      /\ cleared' = IF says THEN cleared \cup {j} ELSE cleared
  BY Zenon DEF ReadWhitelist
<1>2. /\ Course' /\ calls' = calls /\ claims' = claims /\ bounties' = bounties
  BY <1>1, NextCourse DEF vars, Vetted
<1> PICK asked, known : asked = cleared' /\ known = cleared
  OBVIOUS
<1>3. known \subseteq asked /\ (says => j \in asked)
  BY <1>1
<1>4. ASSUME NEW k \in ClaimKey
      PROVE  Passed(k, asked)'
  <2>1. Passed(k, known)
    BY DEF Vetted
  <2> QED BY <1>2, <1>3, <2>1 DEF Passed
<1>5. Proposed(asked)'
  <2>1. Proposed(known)
    BY DEF Vetted
  <2> QED BY <1>2, <1>3, <2>1 DEF Proposed
<1>6. Heard(calls', replies', asked)
  <2>1. /\ replies \in Seq(BOOLEAN \cup {Nil}) /\ Len(replies) = Len(calls)
    BY DEF Vetted, Heard
  <2>2. /\ replies' \in Seq(BOOLEAN \cup {Nil}) /\ Len(replies') = Len(calls)
        /\ replies'[i] = says
        /\ \A m \in 1 .. Len(calls) : m # i => replies'[m] = replies[m]
    BY <1>1, <2>1
  <2>3. ASSUME NEW m \in 1 .. Len(calls), calls[m].kind = "kyc",
               replies'[m] = TRUE
        PROVE  <<calls[m].claim[1], calls[m].claim[2]>> \in asked
    <3>1. CASE m = i
      <4>1. says = TRUE
        BY <2>2, <2>3, <3>1, Zenon
      <4> QED BY <1>3, <3>1, <4>1
    <3>2. CASE m # i
      <4>1. replies[m] = TRUE
        BY <2>2, <2>3, <3>2, Zenon
      <4>2. <<calls[m].claim[1], calls[m].claim[2]>> \in known
        BY <2>3, <4>1 DEF Vetted, Heard
      <4> QED BY <1>3, <4>2
    <3> QED BY <3>1, <3>2
  <2> QED BY <1>2, <2>2, <2>3 DEF Heard
<1> QED BY <1>2, <1>4, <1>5, <1>6 DEF Vetted

LEMMA NextVetted == Vetted /\ [PlatformNext]_platform_vars => Vetted'
<1> SUFFICES ASSUME Vetted, [PlatformNext]_platform_vars PROVE Vetted'
  OBVIOUS
<1>1. /\ [Next]_vars /\ Course /\ Proposed(cleared)
      /\ Heard(calls, replies, cleared)
  BY PlatformStep DEF Vetted
<1>2. calls \in Seq(Calls) /\ Shape'
  BY <1>1, NextCourse DEF Course, FitSeq, Work
<1>3. ASSUME UNCHANGED vars, UNCHANGED <<replies, cleared>>
      PROVE  Vetted'
  <2>1. UNCHANGED <<calls, claims, bounties>>
    BY <1>3 DEF vars
  <2>2. Course'
    BY <1>1, NextCourse
  <2> QED BY <1>3, <2>1, <2>2 DEF Vetted, Heard, Proposed, Passed
<1>4. CASE PlatformTick
  <2>1. CheckedStep(cleared)
    BY <1>1, <1>2, <1>4, OwnChecked DEF PlatformTick
  <2>2. Joins(calls) /\ RepliesFrom(replies)
    <3>1. Len(calls) \in Nat /\ Len(replies) = Len(calls)
      BY <1>1, <1>2 DEF Heard
    <3>2. calls' = calls /\ replies' = replies
      BY <1>4 DEF PlatformTick, Tick
    <3> QED BY <3>1, <3>2 DEF Joins, RepliesFrom
  <2> QED BY <1>1, <1>2, <1>4, <2>1, <2>2, VettedStep DEF PlatformTick, Rest
<1>5. CASE OwnStep
  <2>1. CheckedStep(cleared)
    BY <1>1, <1>2, <1>5, OwnChecked DEF OwnStep
  <2>2. Joins(calls)
    <3>1. change_config \/ withdraw_non_refunded_bonds => Joins(calls)
      BY DEF change_config, withdraw_non_refunded_bonds, Joins
    <3>2. ASSUME NEW n, NEW platform, SendFees(n, platform)
          PROVE  Joins(calls)
      BY <3>2, Zenon DEF SendFees, Send, Joins
    <3>3. withdraw_platform_fee \/ withdraw_validators_dao_fee => Joins(calls)
      BY <3>2 DEF withdraw_platform_fee, withdraw_validators_dao_fee
    <3> QED BY <1>5, <3>1, <3>3, BountyCallJoins, ClaimCallJoins DEF OwnStep
  <2> QED BY <1>1, <1>2, <1>5, <2>1, <2>2, VettedStep DEF OwnStep, Rest
<1>6. ASSUME NEW i \in 1 .. Len(calls), OtherAnswer(i) \/ KycAnswer(i)
      PROVE  Vetted'
  <2>1. /\ Answer(i) /\ RepliesFrom(RemoveAt(replies, i)) /\ UNCHANGED cleared
    <3>1. UseReply(i) \/ Drop(i) => Answer(i)
      BY DEF UseReply, Answer
    <3>2. Answer(i) /\ RepliesFrom(RemoveAt(replies, i)) /\ UNCHANGED Rest
      BY <1>6, <3>1, Zenon DEF OtherAnswer, KycAnswer
    <3> QED BY <3>2 DEF Rest
  <2>2. CheckedStep(cleared)
    <3>1. CASE Whitelisted(i, cleared)
      BY <1>1, <1>2, <2>1, <3>1, AnswerChecked
    <3>2. CASE ~Whitelisted(i, cleared)
      <4>1. Drop(i)
        BY <1>1, <1>6, <3>2 DEF Whitelisted, after_check_if_whitelisted,
           OtherAnswer, KycAnswer, UseReply, Heard
      <4> QED BY <1>1, <1>2, <4>1, OwnersAnswerEvents DEF CheckedStep
    <3> QED BY <3>1, <3>2
  <2>5. Heard(Answered(i), RemoveAt(replies, i), cleared)
    BY <1>1, <1>2, HeardLeft
  <2> PICK q, r : q = Answered(i) /\ r = RemoveAt(replies, i)
    OBVIOUS
  <2>3. Heard(q, r, cleared) /\ RepliesFrom(r)
    BY <2>1, <2>5
  <2>4. Joins(q) /\ q \in Seq(Calls)
    BY <1>1, <2>1, AnswerJoins, FitLeft DEF FitSeq
  <2> QED BY <1>1, <2>1, <2>2, <2>3, <2>4, VettedStep
<1>7. ASSUME NEW i \in 1 .. Len(calls), ReadWhitelist(i)
      PROVE  Vetted'
  BY <1>7, ReadVetted
<1>8. CASE KycStep
  BY <1>3, <1>8 DEF KycStep
<1>9. ASSUME NEW e, Deliver(e)
      PROVE  Vetted'
  BY <1>3, <1>9 DEF Deliver
<1>10. CASE UNCHANGED platform_vars
  BY <1>3, <1>10 DEF platform_vars
<1> QED BY <1>4, <1>5, <1>6, <1>7, <1>8, <1>9, <1>10 DEF PlatformNext

(* Nobody does work that asks for KYC without a yes of the KYC contract    *)
(* for this bounty, or the leave of its owner.                             *)
THEOREM WorkersClearedAlways == PlatformSpec => []WorkersCleared
<1>1. Vetted => WorkersCleared
  BY DEF Vetted, Passed, WorkersCleared, HiredStates, Active
<1> QED BY <1>1, InitVetted, NextVetted, PTL DEF PlatformSpec

----------------------------------------------------------------------------
(* What is told to the reputation contract.                                *)

EndKinds == {"SuccessfulBountyAndClaim", "SuccessfulClaim",
             "UnsuccessfulClaim", "ClaimExpired", "ClaimCancelled"}
HireKinds == {"ClaimantApproved"}

(* The statistics about who that are on their way, and who's claims that   *)
(* are at work or done.                                                    *)
Picked(S, who, kinds) == {e \in S : e.receiver_id = who /\ e.kind \in kinds}
Hired(who) == {k \in ClaimKey : k[2] = who /\ claims[k].status \in HiredStates}

Count(who, kinds) == Total(events, Picked(DOMAIN events, who, kinds))
Ended(m) == m["successful"] + m["unsuccessful"] + m["overdue"] + m["canceled"]

(* EndsWithinHires, with the sums written so that one of the statistics    *)
(* can be taken out or added.                                              *)
Tally ==
  /\ IsFiniteSet(OpenClaims)
  /\ IsABag(events)
  /\ claimants_entries \in [Accounts -> [R!ClaimantMetrics -> Nat]]
  /\ \A who \in Claimants :
       /\ IsFiniteSet(Picked(DOMAIN events, who, EndKinds))
       /\ IsFiniteSet(Picked(DOMAIN events, who, HireKinds))
       /\ "reputation" \in services =>
            claimants_entries[who]["accepted"] + Count(who, HireKinds) >=
              Ended(claimants_entries[who]) + Count(who, EndKinds)
                + Cardinality(Hired(who))

(* The number of elements of a bag is the sum of its counts.               *)
LEMMA BagTotal ==
  ASSUME NEW f, IsFiniteSet(DOMAIN f)
  PROVE  BagCardinality(f) = Total(f, DOMAIN f)
BY Zenon DEF BagCardinality, Pick, Total, Summed

LEMMA CountTold ==
  ASSUME NEW who, NEW kinds,
         IsFiniteSet(Picked(DOMAIN events, who, kinds))
  PROVE  Told(who, kinds) = Count(who, kinds)
<1> DEFINE S == Picked(DOMAIN events, who, kinds)
           f == [e \in S |-> events[e]]
<1>1. Told(who, kinds) = BagCardinality(f)
  BY DEF Told, Picked, BagToSet
<1>2. DOMAIN f = S
  OBVIOUS
<1>3. BagCardinality(f) = Total(f, S)
  BY <1>2, BagTotal
<1>4. \A e \in S : f[e] = events[e]
  OBVIOUS
<1>5. Total(f, S) = Total(events, S)
  BY <1>4, TotalSame
<1> QED BY <1>1, <1>3, <1>5 DEF Count

LEMMA CountNat ==
  ASSUME IsABag(events), NEW who, NEW kinds,
         IsFiniteSet(Picked(DOMAIN events, who, kinds))
  PROVE  Count(who, kinds) \in Nat
<1>1. \A e \in Picked(DOMAIN events, who, kinds) : events[e] \in Nat
  BY DEF IsABag, Picked
<1> QED BY <1>1, TotalNat DEF Count

LEMMA HiredFinite ==
  ASSUME IsFiniteSet(OpenClaims), NEW who
  PROVE  IsFiniteSet(Hired(who)) /\ Cardinality(Hired(who)) \in Nat
<1>1. Hired(who) \subseteq OpenClaims
  BY DEF Hired, OpenClaims, HiredStates, Active, Over
<1> QED BY <1>1, FS_Subset, FS_CardinalityType

LEMMA TallyEnds == Tally => EndsWithinHires
<1> SUFFICES ASSUME Tally, "reputation" \in services, NEW who \in Claimants
             PROVE  claimants_entries[who]["accepted"] + Told(who, HireKinds)
                      >= Ended(claimants_entries[who]) + Told(who, EndKinds)
                           + Cardinality(Hired(who))
  BY DEF EndsWithinHires, HireKinds, EndKinds, Ended, Hired
<1>1. /\ Told(who, HireKinds) = Count(who, HireKinds)
      /\ Told(who, EndKinds) = Count(who, EndKinds)
  BY CountTold DEF Tally
<1> QED BY <1>1 DEF Tally

----------------------------------------------------------------------------
(* The statistics of one step.                                             *)

(* A claim that neither starts nor ends nor is counted as anything.        *)
Steady(k) ==
  \/ claims'[k].status = claims[k].status
  \/ claims[k].status \in HiredStates /\ claims'[k].status \in HiredStates

ClaimEvents(k) ==
  CreationEvents(k) \cup ApprovalEvents(k) \cup ClosureEvents(k)
    \cup SuccessEvents(k)

(* The statistics about who that a step sends come from his claims.        *)
LEMMA EmittedFrom ==
  ASSUME NEW who, NEW e \in Emitted, e.kind \in EndKinds \cup HireKinds
  PROVE  \E k \in ClaimKey : e \in ClaimEvents(k) /\ e.receiver_id = k[2]
<1>1. ASSUME NEW id \in BountyId, e \in BountyEvents(id)
      PROVE  FALSE
  <2>1. e.kind \in {"BountyCreated", "BountyCancelled", "SuccessfulBounty"}
    BY <1>1 DEF BountyEvents, Event
  <2> QED BY <2>1 DEF EndKinds, HireKinds
<1>2. PICK k \in ClaimKey : e \in ClaimEvents(k)
  BY <1>1, Zenon DEF Emitted, ClaimEvents
<1>3. e.receiver_id = k[2]
  BY <1>2 DEF ClaimEvents, CreationEvents, ApprovalEvents, ClosureEvents,
     SuccessEvents, AboutClaim, Event
<1> QED BY <1>2, <1>3

(* What is sent about claim k.                                             *)
LEMMA ClaimSends ==
  ASSUME NEW k \in ClaimKey
  PROVE  /\ \E e : \A f \in ClaimEvents(k) : f.kind \in EndKinds => f = e
         /\ \E e : \A f \in ClaimEvents(k) : f.kind \in HireKinds => f = e
<1>1. \A f \in CreationEvents(k) : f.kind = "ClaimCreated"
  BY DEF CreationEvents, AboutClaim, Event
<1>2. \A f \in ApprovalEvents(k) :
         f = AboutClaim("ClaimantApproved", k) /\ f.kind = "ClaimantApproved"
  BY DEF ApprovalEvents, AboutClaim, Event
<1>3. \A f \in SuccessEvents(k) : f.kind \in EndKinds
  BY DEF SuccessEvents, Event, EndKinds
<1>4. \A f \in ClosureEvents(k) : f.kind \in EndKinds
  BY DEF ClosureEvents, AboutClaim, Event, EndKinds
<1>5. \E e : \A f \in SuccessEvents(k) : f = e
  BY Zenon DEF SuccessEvents
<1>6. \E e : \A f \in ClosureEvents(k) : f = e
  BY DEF ClosureEvents
<1>7. SuccessEvents(k) = {} \/ ClosureEvents(k) = {}
  BY DEF ClosureEvents, SuccessEvents
<1>8. \E e : \A f \in ClosureEvents(k) \cup SuccessEvents(k) : f = e
  BY <1>5, <1>6, <1>7
<1>9. \A f \in ClaimEvents(k) :
         /\ f.kind \in EndKinds => f \in ClosureEvents(k) \cup SuccessEvents(k)
         /\ f.kind \in HireKinds => f = AboutClaim("ClaimantApproved", k)
  BY <1>1, <1>2, <1>3, <1>4 DEF ClaimEvents, EndKinds, HireKinds
<1> QED BY <1>8, <1>9

LEMMA SteadySends ==
  ASSUME NEW k \in ClaimKey, Steady(k), NEW e \in ClaimEvents(k)
  PROVE  FALSE
BY DEF Steady, ClaimEvents, CreationEvents, ApprovalEvents, ClosureEvents,
   SuccessEvents, HiredStates, Active, Over

(* A claimant is told to be hired when he is, and his work to have ended   *)
(* only when he was.                                                       *)
LEMMA ClaimTurns ==
  ASSUME Course, [Next]_vars, NEW k \in ClaimKey
  PROVE  \/ /\ claims[k].status \notin HiredStates
            /\ claims'[k].status \in HiredStates
            /\ \E e \in ClaimEvents(k) : e.kind \in HireKinds
            /\ \A e \in ClaimEvents(k) : e.kind \notin EndKinds
         \/ /\ claims[k].status \in HiredStates
            /\ claims'[k].status \notin HiredStates
            /\ \A e \in ClaimEvents(k) : e.kind \notin HireKinds
         \/ /\ claims[k].status \in HiredStates
                 <=> claims'[k].status \in HiredStates
            /\ \A e \in ClaimEvents(k) : e.kind \notin EndKinds \cup HireKinds
<1> DEFINE was == claims[k].status
           is == claims'[k].status
<1>1. was \in Over \cup {"New"} \cup HiredStates
  BY Stored DEF Claim, ClaimStatus, Over, HiredStates, Active
<1>2. was \in Over \cup {"New"} => was \notin HiredStates
  BY DEF Over, HiredStates, Active
<1>3. is # was => is \in Successors(was)
  BY NextLife
<1>4. \A e \in CreationEvents(k) : e.kind \notin EndKinds \cup HireKinds
  BY DEF CreationEvents, AboutClaim, Event, EndKinds, HireKinds
<1>5. \A e \in ApprovalEvents(k) : e.kind \notin EndKinds
  BY DEF ApprovalEvents, AboutClaim, Event, EndKinds
<1>6. \A e \in ClosureEvents(k) \cup SuccessEvents(k) : e.kind \notin HireKinds
  BY DEF ClosureEvents, SuccessEvents, AboutClaim, Event, HireKinds
<1>7. CASE was \in Over \cup {"New"} /\ is \in HiredStates
  <2>1. ClosureEvents(k) = {} /\ SuccessEvents(k) = {}
    BY <1>7 DEF ClosureEvents, SuccessEvents, HiredStates, Active
  <2>2. AboutClaim("ClaimantApproved", k) \in ClaimEvents(k)
    BY <1>7 DEF ApprovalEvents, ClaimEvents
  <2>3. AboutClaim("ClaimantApproved", k).kind \in HireKinds
    BY DEF AboutClaim, Event, HireKinds
  <2>4. \A e \in ClaimEvents(k) : e.kind \notin EndKinds
    BY <1>4, <1>5, <2>1 DEF ClaimEvents
  <2> QED BY <1>2, <1>7, <2>2, <2>3, <2>4
<1>8. CASE was \in HiredStates /\ is \notin HiredStates
  <2>1. ApprovalEvents(k) = {}
    BY <1>8 DEF ApprovalEvents
  <2>2. \A e \in ClaimEvents(k) : e.kind \notin HireKinds
    BY <1>4, <1>6, <2>1 DEF ClaimEvents
  <2> QED BY <1>8, <2>2
<1>9. CASE was \in HiredStates /\ is \in HiredStates
  <2>1. Steady(k)
    BY <1>9 DEF Steady
  <2> QED BY <1>9, <2>1, SteadySends
<1>10. CASE was \in Over \cup {"New"} /\ is \notin HiredStates
  <2>1. ApprovalEvents(k) = {}
    BY <1>10 DEF ApprovalEvents
  <2>2. CASE was \in Over
    <3>1. ClosureEvents(k) = {} /\ SuccessEvents(k) = {}
      BY <2>2 DEF ClosureEvents, SuccessEvents
    <3> QED BY <1>2, <1>4, <1>10, <2>1, <3>1 DEF ClaimEvents
  <2>3. CASE was = "New"
    <3>1. is \in {"New", "NotHired", "Canceled"}
      BY <1>3, <1>10, <2>3 DEF Successors, HiredStates, Active, Over
    <3>2. ClosureEvents(k) = {} /\ SuccessEvents(k) = {}
      BY <2>3, <3>1 DEF ClosureEvents, SuccessEvents, IsNew
    <3> QED BY <1>2, <1>4, <1>10, <2>1, <3>2 DEF ClaimEvents
  <2> QED BY <1>10, <2>2, <2>3
<1> QED BY <1>1, <1>2, <1>7, <1>8, <1>9, <1>10

(* All claims but one are steady.                                          *)
LEMMA OthersSteady ==
  ASSUME Course, [Next]_vars
  PROVE  \/ \A j \in ClaimKey : Steady(j)
         \/ \E k \in ClaimKey : \A j \in ClaimKey : j # k => Steady(j)
<1>0. claims \in [ClaimKey -> Claim]
  BY DEF Course, Work, Shape, TypeOK
<1>1. ClaimsStep /\ Shape'
  BY Events
<1>2. CASE UNCHANGED claims
  BY <1>2 DEF Steady
<1>3. ASSUME NEW id \in BountyId, BountyEvent(id)
      PROVE  UNCHANGED claims
  BY <1>3 DEF BountyEvent, Begins, Changes, bounty_update,
     start_competition, Cancels, Accepts
<1>4. ASSUME NEW k \in ClaimKey, Applies(k)
      PROVE  \A j \in ClaimKey : j # k => Steady(j)
  <2>1. PICK c : claims' = [claims EXCEPT ![k] = c]
    BY <1>4, Zenon DEF Applies
  <2> QED BY <1>0, <2>1 DEF Steady
<1>5. ASSUME NEW k \in ClaimKey, Admits(k)
      PROVE  \A j \in ClaimKey : j # k => Steady(j)
  <2>1. PICK c \in Claim, delayed \in Deferments \cup {Nil} :
          ApproveClaimant(k, c, delayed)
    BY <1>5 DEF Admits
  <2>2. /\ \A j \in ClaimKey :
             j # k /\ j \notin Released(bounties[k[1]], k, c.slot) =>
               claims'[j] = claims[j]
        /\ \A j \in Released(bounties[k[1]], k, c.slot) :
             claims'[j] =
               [claims[j] EXCEPT !.status = ApprovedStatus(bounties[k[1]]),
                                 !.start_time = now]
    BY <1>5, <2>1, ApproveStores
  <2>3. \A j \in Released(bounties[k[1]], k, c.slot) :
          claims[j].status = "ReadyToStart"
    BY ReleasedFacts
  <2> PICK released, s : /\ released = Released(bounties[k[1]], k, c.slot)
                         /\ s = ApprovedStatus(bounties[k[1]])
    OBVIOUS
  <2>4. s \in HiredStates
    BY DEF ApprovedStatus, HiredStates, Active
  <2>5. ASSUME NEW j \in ClaimKey, j \in released
        PROVE  Steady(j)
    <3>1. /\ claims[j].status = "ReadyToStart"
          /\ claims'[j] = [claims[j] EXCEPT !.status = s, !.start_time = now]
      BY <2>2, <2>3, <2>5, Zenon
    <3>2. claims'[j].status = s
      BY <3>1, Stored, Zenon DEF Claim
    <3> QED BY <2>4, <3>1, <3>2 DEF Steady, HiredStates
  <2>6. ASSUME NEW j \in ClaimKey, j # k, j \notin released
        PROVE  Steady(j)
    <3>1. claims'[j] = claims[j]
      BY <2>2, <2>6, Zenon
    <3> QED BY <3>1 DEF Steady
  <2> QED BY <2>5, <2>6
<1>6. ASSUME NEW k \in ClaimKey,
             Notes(k) \/ Finishes(k) \/ Rejects(k)
      PROVE  \A j \in ClaimKey : j # k => Steady(j)
  <2>1. \/ UNCHANGED claims
        \/ \E c : claims' = [claims EXCEPT ![k] = c]
    BY <1>6, Zenon DEF Notes, extend_claim_deadline, mark_as_paid,
       confirm_payment, Finishes, ClaimDone, Rejects
  <2> QED BY <1>0, <2>1 DEF Steady
<1>7. ASSUME NEW k \in ClaimKey, NEW s, Closes(k, s)
      PROVE  \A j \in ClaimKey : j # k => Steady(j)
  <2>1. PICK c : claims' = [claims EXCEPT ![k] = c]
    BY <1>7, Zenon DEF Closes
  <2> QED BY <1>0, <2>1 DEF Steady
<1>8. ASSUME NEW k \in ClaimKey,
             \/ Argues(k) \/ Declines(k) \/ Leaves(k) \/ Resets(k)
             \/ Pays(k) \/ Withdraws(k)
      PROVE  \A j \in ClaimKey : j # k => Steady(j)
  <2>1. \E s : Closes(k, s)
    BY <1>8, Zenon
       DEF Argues, Declines, Leaves, Resets, Pays, Withdraws
  <2> QED BY <1>7, <2>1
<1> QED BY <1>1, <1>2, <1>3, <1>4, <1>5, <1>6, <1>8, Zenon
        DEF ClaimsStep, ClaimEvent, PlainEvent

----------------------------------------------------------------------------
(* Counting them.                                                          *)

(* What is sent adds to the count, by one if it is one of those counted.   *)
LEMMA CountSent ==
  ASSUME IsABag(events), NEW E, events' = events (+) SetToBag(E),
         NEW who, NEW kinds,
         IsFiniteSet(Picked(DOMAIN events, who, kinds)),
         NEW e, \A f \in Picked(E, who, kinds) : f = e
  PROVE  /\ IsFiniteSet(Picked(DOMAIN events', who, kinds))
         /\ Count(who, kinds)' =
              IF e \in Picked(E, who, kinds) THEN Count(who, kinds) + 1
              ELSE Count(who, kinds)
<1> DEFINE S == Picked(DOMAIN events, who, kinds)
           T == Picked(DOMAIN events', who, kinds)
<1>1. /\ DOMAIN events' = DOMAIN events \cup E
      /\ \A f \in DOMAIN events' :
           events'[f] = (IF f \in DOMAIN events THEN events[f] ELSE 0)
                          + (IF f \in E THEN 1 ELSE 0)
      /\ \A f \in DOMAIN events : events[f] \in Nat
  BY DEF IsABag, SetToBag, (+)
<1>2. Counts(events, S)
  BY <1>1 DEF Counts, Picked
<1>3. CASE e \in Picked(E, who, kinds)
  <2>1. T = S \cup {e}
    BY <1>1, <1>3 DEF Picked
  <2>2. events'[e] = IF e \in S THEN events[e] + 1 ELSE 1
    BY <1>1, <1>3 DEF Picked
  <2>3. \A y \in S \ {e} : events'[y] = events[y]
    BY <1>1, <1>3 DEF Picked
  <2>4. Total(events', S \cup {e}) = Total(events, S) + 1
    BY <1>2, <2>2, <2>3, TotalRaised
  <2> QED BY <1>3, <2>1, <2>4, FS_AddElement DEF Count
<1>4. CASE e \notin Picked(E, who, kinds)
  <2>1. Picked(E, who, kinds) = {}
    BY <1>4
  <2>2. T = S /\ \A y \in S : events'[y] = events[y]
    BY <1>1, <2>1 DEF Picked
  <2>3. Total(events, S) = Total(events', S)
    BY <2>2, TotalSame
  <2> QED BY <1>4, <2>2, <2>3 DEF Count
<1> QED BY <1>3, <1>4

(* What arrives is taken off.                                              *)
LEMMA CountDelivered ==
  ASSUME IsABag(events), NEW e \in DOMAIN events,
         events' = events (-) SetToBag({e}),
         NEW who, NEW kinds,
         IsFiniteSet(Picked(DOMAIN events, who, kinds))
  PROVE  /\ IsFiniteSet(Picked(DOMAIN events', who, kinds))
         /\ Count(who, kinds)' =
              IF e \in Picked({e}, who, kinds) THEN Count(who, kinds) - 1
              ELSE Count(who, kinds)
<1> DEFINE S == Picked(DOMAIN events, who, kinds)
           T == Picked(DOMAIN events', who, kinds)
<1>1. /\ DOMAIN events' \subseteq DOMAIN events
      /\ \A f \in DOMAIN events : f # e => f \in DOMAIN events'
      /\ \A f \in DOMAIN events' :
           events'[f] = IF f = e THEN events[f] - 1 ELSE events[f]
      /\ e \in DOMAIN events' <=> events[e] > 1
      /\ \A f \in DOMAIN events : events[f] \in Nat /\ events[f] > 0
  BY DEF IsABag, SetToBag, (-)
<1>2. T \subseteq S /\ IsFiniteSet(T)
  <2>1. T \subseteq S
    BY <1>1 DEF Picked
  <2> QED BY <2>1, FS_Subset
<1>3. Counts(events', T)
  BY <1>1 DEF Counts, Picked
<1>4. CASE e \in Picked({e}, who, kinds)
  <2>1. S = T \cup {e}
    BY <1>1, <1>4 DEF Picked
  <2>2. events[e] = IF e \in T THEN events'[e] + 1 ELSE 1
    BY <1>1, <1>4 DEF Picked
  <2>3. \A y \in T \ {e} : events[y] = events'[y]
    BY <1>1 DEF Picked
  <2>4. Total(events, T \cup {e}) = Total(events', T) + 1
    BY <1>2, <1>3, <2>2, <2>3, TotalRaised
  <2>5. Total(events', T) \in Int
    BY <1>2, <1>3, TotalType
  <2>6. Count(who, kinds) = Count(who, kinds)' + 1 /\ Count(who, kinds)' \in Int
    BY <2>1, <2>4, <2>5 DEF Count
  <2> QED BY <1>2, <1>4, <2>6
<1>5. CASE e \notin Picked({e}, who, kinds)
  <2>1. S = T /\ \A y \in S : events[y] = events'[y]
    BY <1>1, <1>5 DEF Picked
  <2>2. Total(events, S) = Total(events', S)
    BY <2>1, TotalSame
  <2> QED BY <1>2, <1>5, <2>1, <2>2 DEF Count
<1> QED BY <1>4, <1>5

----------------------------------------------------------------------------
(* The steps.                                                              *)

(* What a claim adds to the claims that are at work or done.               *)
LEMMA HiredStep ==
  ASSUME IsFiniteSet(OpenClaims), IsFiniteSet(OpenClaims'),
         NEW who, NEW k \in ClaimKey,
         \A j \in ClaimKey : j # k => Steady(j)
  PROVE  Cardinality(Hired(who)') =
           Cardinality(Hired(who))
             + (IF k \in Hired(who)' /\ k \notin Hired(who) THEN 1 ELSE 0)
             - (IF k \notin Hired(who)' /\ k \in Hired(who) THEN 1 ELSE 0)
<1>1. /\ IsFiniteSet(Hired(who)) /\ Cardinality(Hired(who)) \in Nat
      /\ IsFiniteSet(Hired(who)') /\ Cardinality(Hired(who)') \in Nat
  <2>1. Hired(who)' \subseteq OpenClaims'
    BY DEF Hired, OpenClaims, HiredStates, Active, Over
  <2> QED BY <2>1, HiredFinite, FS_Subset, FS_CardinalityType
<1>2. Hired(who)' \ {k} = Hired(who) \ {k}
  BY DEF Hired, Steady
<1>3. /\ Cardinality(Hired(who) \ {k}) =
           IF k \in Hired(who) THEN Cardinality(Hired(who)) - 1
           ELSE Cardinality(Hired(who))
      /\ Cardinality(Hired(who)' \ {k}) =
           IF k \in Hired(who)' THEN Cardinality(Hired(who)') - 1
           ELSE Cardinality(Hired(who)')
  BY <1>1, FS_RemoveElement
<1> QED BY <1>1, <1>2, <1>3

LEMMA AllSteady ==
  ASSUME NEW who, \A j \in ClaimKey : j[2] = who => Steady(j)
  PROVE  Hired(who)' = Hired(who)
BY DEF Hired, Steady

(* A step of the bounties contract, with the statistics that it sends.     *)
LEMMA StatisticsTally ==
  ASSUME Course, [Next]_vars, Tally, IsFiniteSet(OpenClaims'), Statistics,
         UNCHANGED <<services, claimants_entries>>
  PROVE  Tally'
<1>1. CASE "reputation" \notin services
  <2>1. UNCHANGED events
    BY <1>1 DEF Statistics, event_vars
  <2> QED BY <1>1, <2>1 DEF Tally, Picked
<1>2. CASE "reputation" \in services
  <2>1. events' = events (+) SetToBag(Emitted)
    BY <1>2 DEF Statistics
  <2>2. IsABag(events')
    BY <2>1 DEF Tally, IsABag, SetToBag, (+)
  <2>3. ASSUME NEW who \in Claimants
        PROVE  /\ IsFiniteSet(Picked(DOMAIN events', who, EndKinds))
               /\ IsFiniteSet(Picked(DOMAIN events', who, HireKinds))
               /\ claimants_entries[who]["accepted"] + Count(who, HireKinds)'
                    >= Ended(claimants_entries[who]) + Count(who, EndKinds)'
                         + Cardinality(Hired(who)')
    <3> DEFINE hires == Picked(Emitted, who, HireKinds)
               ends  == Picked(Emitted, who, EndKinds)
    <3>1. /\ IsABag(events)
          /\ IsFiniteSet(Picked(DOMAIN events, who, EndKinds))
          /\ IsFiniteSet(Picked(DOMAIN events, who, HireKinds))
          /\ claimants_entries[who]["accepted"] + Count(who, HireKinds)
               >= Ended(claimants_entries[who]) + Count(who, EndKinds)
                    + Cardinality(Hired(who))
          /\ Count(who, HireKinds) \in Nat /\ Count(who, EndKinds) \in Nat
          /\ Cardinality(Hired(who)) \in Nat
      BY <1>2, <2>3, CountNat, HiredFinite DEF Tally
    <3>2. /\ claimants_entries[who]["accepted"] \in Nat
          /\ Ended(claimants_entries[who]) \in Nat
      <4>1. claimants_entries[who] \in [R!ClaimantMetrics -> Nat]
        BY <2>3, TypesAssumption DEF Tally
      <4> QED BY <4>1 DEF R!ClaimantMetrics, Ended
    <3>3. \A f \in hires \cup ends :
            \E k \in ClaimKey : f \in ClaimEvents(k) /\ k[2] = who
      BY EmittedFrom DEF Picked
    <3>4. CASE \A j \in ClaimKey : j[2] = who => Steady(j)
      <4>1. hires = {} /\ ends = {}
        BY <3>3, <3>4, SteadySends
      <4>2. Hired(who)' = Hired(who)
        BY <3>4, AllSteady
      <4>3. PICK e : e \notin hires \cup ends
        BY <4>1
      <4>4. /\ Count(who, HireKinds)' = Count(who, HireKinds)
            /\ Count(who, EndKinds)' = Count(who, EndKinds)
            /\ IsFiniteSet(Picked(DOMAIN events', who, EndKinds))
            /\ IsFiniteSet(Picked(DOMAIN events', who, HireKinds))
        BY <2>1, <3>1, <4>1, <4>3, CountSent
      <4> QED BY <3>1, <4>2, <4>4
    <3>5. ASSUME NEW k \in ClaimKey, k[2] = who,
                 \A j \in ClaimKey : j # k => Steady(j)
          PROVE  /\ IsFiniteSet(Picked(DOMAIN events', who, EndKinds))
                 /\ IsFiniteSet(Picked(DOMAIN events', who, HireKinds))
                 /\ claimants_entries[who]["accepted"]
                       + Count(who, HireKinds)'
                      >= Ended(claimants_entries[who])
                           + Count(who, EndKinds)' + Cardinality(Hired(who)')
      <4>1. \A f \in hires \cup ends : f \in ClaimEvents(k)
        BY <3>3, <3>5, SteadySends
      <4>2. PICK x, y : /\ \A f \in hires : f = x
                        /\ \A f \in ends : f = y
        BY <4>1, ClaimSends DEF Picked
      <4>3. /\ IsFiniteSet(Picked(DOMAIN events', who, HireKinds))
            /\ Count(who, HireKinds)' =
                 IF x \in hires THEN Count(who, HireKinds) + 1
                 ELSE Count(who, HireKinds)
        BY <2>1, <3>1, <4>2, CountSent
      <4>4. /\ IsFiniteSet(Picked(DOMAIN events', who, EndKinds))
            /\ Count(who, EndKinds)' =
                 IF y \in ends THEN Count(who, EndKinds) + 1
                 ELSE Count(who, EndKinds)
        BY <2>1, <3>1, <4>2, CountSent
      <4>5. /\ k \in Hired(who) <=> claims[k].status \in HiredStates
            /\ k \in Hired(who)' <=> claims'[k].status \in HiredStates
        BY <3>5 DEF Hired
      <4>6. Cardinality(Hired(who)') =
              Cardinality(Hired(who))
                + (IF k \in Hired(who)' /\ k \notin Hired(who) THEN 1 ELSE 0)
                - (IF k \notin Hired(who)' /\ k \in Hired(who) THEN 1 ELSE 0)
        BY <3>5, HiredStep DEF Tally
      <4>7. \A f \in ClaimEvents(k) : f.kind \in HireKinds => f \in hires
        <5>1. \A f \in ClaimEvents(k) : f \in Emitted
          BY DEF Emitted, ClaimEvents
        <5>2. \A f \in ApprovalEvents(k) : f.receiver_id = who
          BY <3>5 DEF ApprovalEvents, AboutClaim, Event
        <5>3. \A f \in ClaimEvents(k) :
                f.kind \in HireKinds => f \in ApprovalEvents(k)
          BY DEF ClaimEvents, CreationEvents, ClosureEvents, SuccessEvents,
             AboutClaim, Event, HireKinds
        <5> QED BY <5>1, <5>2, <5>3 DEF Picked
      <4>8. \/ /\ k \notin Hired(who) /\ k \in Hired(who)'
               /\ x \in hires /\ y \notin ends
            \/ /\ k \in Hired(who) /\ k \notin Hired(who)' /\ x \notin hires
            \/ /\ k \in Hired(who) <=> k \in Hired(who)'
               /\ x \notin hires /\ y \notin ends
        BY <4>1, <4>2, <4>5, <4>7, ClaimTurns DEF Picked
      <4> QED BY <3>1, <3>2, <4>3, <4>4, <4>6, <4>8
    <3> QED BY <3>4, <3>5, OthersSteady
  <2> QED BY <1>2, <2>2, <2>3 DEF Tally
<1> QED BY <1>1, <1>2

(* One of the statistics is counted.                                       *)
LEMMA DeliverTally ==
  ASSUME Tally, NEW e, Deliver(e), UNCHANGED claims
  PROVE  Tally'
<1>1. /\ e \in DOMAIN events /\ events' = events (-) SetToBag({e})
      /\ UNCHANGED services
      /\ claimants_entries' =
           [a \in Accounts |->
              IF a = e.receiver_id
              THEN R!Raised(claimants_entries[a],
                            R!ClaimantGains(e.kind, e.disputed))
              ELSE claimants_entries[a]]
  BY DEF Deliver, BagIn, BagToSet, R!emit
<1>2. /\ IsABag(events)
      /\ claimants_entries \in [Accounts -> [R!ClaimantMetrics -> Nat]]
  BY DEF Tally
<1>3. IsABag(events')
  BY <1>1, <1>2 DEF IsABag, SetToBag, (-)
<1>4. ASSUME NEW a \in Accounts
      PROVE  claimants_entries'[a] \in [R!ClaimantMetrics -> Nat]
  <2>1. claimants_entries[a] \in [R!ClaimantMetrics -> Nat]
    BY <1>2
  <2> QED BY <1>1, <2>1 DEF R!Raised
<1>5. ASSUME NEW who \in Claimants
      PROVE  /\ IsFiniteSet(Picked(DOMAIN events', who, EndKinds))
             /\ IsFiniteSet(Picked(DOMAIN events', who, HireKinds))
             /\ "reputation" \in services =>
                  claimants_entries'[who]["accepted"] + Count(who, HireKinds)'
                    >= Ended(claimants_entries'[who]) + Count(who, EndKinds)'
                         + Cardinality(Hired(who)')
  <2> DEFINE m == claimants_entries[who]
             n == claimants_entries'[who]
  <2>0. who \in Accounts
    BY TypesAssumption
  <2>1. /\ IsFiniteSet(Picked(DOMAIN events, who, EndKinds))
        /\ IsFiniteSet(Picked(DOMAIN events, who, HireKinds))
        /\ "reputation" \in services =>
             m["accepted"] + Count(who, HireKinds) >=
               Ended(m) + Count(who, EndKinds) + Cardinality(Hired(who))
        /\ Count(who, HireKinds) \in Nat /\ Count(who, EndKinds) \in Nat
        /\ Cardinality(Hired(who)) \in Nat
    BY <1>2, <1>5, CountNat, HiredFinite DEF Tally
  <2>2. Hired(who)' = Hired(who)
    BY DEF Hired
  <2>3. /\ IsFiniteSet(Picked(DOMAIN events', who, EndKinds))
        /\ Count(who, EndKinds)' =
             IF e \in Picked({e}, who, EndKinds) THEN Count(who, EndKinds) - 1
             ELSE Count(who, EndKinds)
    BY <1>1, <1>2, <2>1, CountDelivered
  <2>4. /\ IsFiniteSet(Picked(DOMAIN events', who, HireKinds))
        /\ Count(who, HireKinds)' =
             IF e \in Picked({e}, who, HireKinds)
             THEN Count(who, HireKinds) - 1 ELSE Count(who, HireKinds)
    BY <1>1, <1>2, <2>1, CountDelivered
  <2>5. /\ m \in [R!ClaimantMetrics -> Nat]
        /\ n = IF who = e.receiver_id
               THEN R!Raised(m, R!ClaimantGains(e.kind, e.disputed)) ELSE m
    BY <1>1, <1>2, <2>0
  <2>6. m["accepted"] \in Nat /\ Ended(m) \in Nat
    BY <2>5 DEF R!ClaimantMetrics, Ended
  <2>7. CASE who # e.receiver_id
    BY <2>1, <2>2, <2>3, <2>4, <2>5, <2>7 DEF Picked
  <2>8. CASE who = e.receiver_id /\ e.kind \in HireKinds
    <3>1. n["accepted"] = m["accepted"] + 1 /\ Ended(n) = Ended(m)
      BY <2>5, <2>8 DEF R!Raised, R!ClaimantGains, R!ClaimantMetrics, Ended,
         HireKinds
    <3>2. e \in Picked({e}, who, HireKinds) /\ e \notin Picked({e}, who, EndKinds)
      BY <2>8 DEF Picked, HireKinds, EndKinds
    <3> QED BY <2>1, <2>2, <2>3, <2>4, <2>6, <3>1, <3>2
  <2>9. CASE who = e.receiver_id /\ e.kind \in EndKinds
    <3>1. n["accepted"] = m["accepted"] /\ Ended(n) = Ended(m) + 1
      BY <2>5, <2>9 DEF R!Raised, R!ClaimantGains, R!ClaimantMetrics, Ended,
         EndKinds
    <3>2. e \notin Picked({e}, who, HireKinds) /\ e \in Picked({e}, who, EndKinds)
      BY <2>9 DEF Picked, HireKinds, EndKinds
    <3> QED BY <2>1, <2>2, <2>3, <2>4, <2>6, <3>1, <3>2
  <2>10. CASE /\ who = e.receiver_id
              /\ e.kind \notin HireKinds \cup EndKinds
    <3>1. n["accepted"] = m["accepted"] /\ Ended(n) = Ended(m)
      BY <2>5, <2>10 DEF R!Raised, R!ClaimantGains, R!ClaimantMetrics, Ended,
         HireKinds, EndKinds
    <3>2. e \notin Picked({e}, who, HireKinds) /\ e \notin Picked({e}, who, EndKinds)
      BY <2>10 DEF Picked
    <3> QED BY <2>1, <2>2, <2>3, <2>4, <2>6, <3>1, <3>2
  <2> QED BY <2>7, <2>8, <2>9, <2>10
<1>6. claimants_entries' \in [Accounts -> [R!ClaimantMetrics -> Nat]]
  BY <1>1, <1>4
<1>7. IsFiniteSet(OpenClaims')
  BY DEF Tally, OpenClaims
<1> QED BY <1>1, <1>3, <1>5, <1>6, <1>7 DEF Tally

(* Nothing is told where no claim changes.                                 *)
LEMMA StillTally ==
  ASSUME Tally, UNCHANGED <<claims, events, services, claimants_entries>>
  PROVE  Tally'
BY DEF Tally, OpenClaims, Picked, Count, Hired

LEMMA InitTally == PlatformInit => Tally
<1> SUFFICES ASSUME PlatformInit PROVE Tally
  OBVIOUS
<1>1. OpenClaims = {} /\ \A who : Hired(who) = {}
  BY DEF PlatformInit, Init, OpenClaims, NoClaim, Over, Hired, HiredStates,
     Active
<1>2. DOMAIN events = {} /\ IsABag(events)
  BY DEF PlatformInit, EmptyBag, SetToBag, IsABag
<1>3. /\ claimants_entries \in [Accounts -> [R!ClaimantMetrics -> Nat]]
      /\ \A a \in Accounts : /\ claimants_entries[a]["accepted"] = 0
                              /\ Ended(claimants_entries[a]) = 0
  BY DEF PlatformInit, R!Init, R!ClaimantMetrics, Ended
<1>4. \A who, kinds : /\ Picked(DOMAIN events, who, kinds) = {}
                      /\ Count(who, kinds) = 0
  BY <1>2, FS_EmptySet, TotalStep DEF Picked, Count
<1>5. ASSUME NEW who \in Claimants
      PROVE  /\ IsFiniteSet(Picked(DOMAIN events, who, EndKinds))
             /\ IsFiniteSet(Picked(DOMAIN events, who, HireKinds))
             /\ claimants_entries[who]["accepted"] + Count(who, HireKinds) >=
                  Ended(claimants_entries[who]) + Count(who, EndKinds)
                    + Cardinality(Hired(who))
  <2>1. /\ claimants_entries[who]["accepted"] = 0
        /\ Ended(claimants_entries[who]) = 0
    BY <1>3, TypesAssumption
  <2> QED BY <1>1, <1>4, <2>1, FS_EmptySet
<1> QED BY <1>1, <1>2, <1>3, <1>5, FS_EmptySet DEF Tally

LEMMA NextTally ==
  Course /\ BondsCounted' /\ Tally /\ [PlatformNext]_platform_vars => Tally'
<1> SUFFICES ASSUME Course, BondsCounted', Tally,
                    [PlatformNext]_platform_vars
             PROVE  Tally'
  OBVIOUS
<1>1. [Next]_vars /\ IsFiniteSet(OpenClaims')
  BY PlatformStep DEF BondsCounted
<1>2. ASSUME Statistics, UNCHANGED Rest
      PROVE  Tally'
  BY <1>1, <1>2, StatisticsTally DEF Rest, reputation_vars
<1>3. CASE PlatformTick
  <2>1. UNCHANGED <<claims, events, services, claimants_entries>>
    BY <1>3 DEF PlatformTick, Tick, Rest, event_vars, reputation_vars
  <2> QED BY <2>1, StillTally
<1>4. CASE OwnStep
  BY <1>2, <1>4 DEF OwnStep
<1>5. CASE KycStep
  BY <1>5, StillTally DEF KycStep, vars, event_vars, reputation_vars
<1>6. ASSUME NEW i \in 1 .. Len(calls), OtherAnswer(i) \/ KycAnswer(i)
      PROVE  Tally'
  BY <1>2, <1>6 DEF OtherAnswer, KycAnswer
<1>7. ASSUME NEW i \in 1 .. Len(calls), ReadWhitelist(i)
      PROVE  Tally'
  BY <1>7, StillTally DEF ReadWhitelist, vars, event_vars, reputation_vars
<1>8. ASSUME NEW e, Deliver(e)
      PROVE  Tally'
  BY <1>8, DeliverTally DEF Deliver, vars
<1>9. CASE UNCHANGED platform_vars
  BY <1>9, StillTally DEF platform_vars, vars, event_vars, reputation_vars
<1> QED BY <1>3, <1>4, <1>5, <1>6, <1>7, <1>8, <1>9 DEF PlatformNext

(* However the statistics overtake each other, and whatever moves claims   *)
(* while they are on their way: a claimant is never shown with more ends   *)
(* of work than starts.                                                    *)
THEOREM EndsWithinHiresAlways == PlatformSpec => []EndsWithinHires
<1>1. Spec => []Course /\ []BondsCounted
  BY AlwaysCourse, InitCounted, NextCounted, PTL DEF Spec
<1> QED BY <1>1, InitTally, NextTally, TallyEnds, PlatformIsBounties, PTL
        DEF PlatformSpec

=============================================================================
