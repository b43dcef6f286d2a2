-------------------------- MODULE RelayRace_proofs --------------------------
(***************************************************************************)
(* Proofs about the relay race of two peers, for any relays on the LAN and *)
(* whatever connections may break.                                         *)
(*                                                                         *)
(* The second half is about MuxTransfer, the file that two such peers send *)
(* over several channels: for any channels, lengths, edits, faults and     *)
(* number of attempts the final digest fails only when the source was      *)
(* rewritten.                                                              *)
(***************************************************************************)
EXTENDS RelayRace, FiniteSetTheorems, SequenceTheorems, WellFoundedInduction, TLAPS

CONSTANTS Channels, Lengths, PendingLimit, Window, MaxEdits, MaxAttempts, Faults
VARIABLES source, entry, snd, accepted, digest, hand, queue, pending, worker, item, error, finishing,
          wire, cut, rcv, have, reader, failed, prefix, early, part, target, attempt
Mux == INSTANCE MuxTransfer

\* What MuxTransfer assumes of its constants.
MuxBounds ==
    /\ Channels \subseteq Nat /\ 0 \in Channels /\ IsFiniteSet(Channels)
    /\ Lengths \subseteq Nat /\ Lengths # {} /\ IsFiniteSet(Lengths)
    /\ PendingLimit \in Nat \ {0} /\ Window \in Nat \ {0}
    /\ MaxEdits \in Nat /\ MaxAttempts \in Nat \ {0} /\ Faults \in BOOLEAN

-----------------------------------------------------------------------------
(* The inductive invariant.                                                *)

Candidate == [relay : Relays, peer : BOOLEAN, valid : BOOLEAN]
Stages    == {"prepare", "outer", "waiting", "leaving", "returned"}
Futures   == {"running", "registered", "failed", "taken", "none"}
Results   == Relays \cup {"open", Nothing, Undefined}

RaceTypes ==
    /\ first \in [Peers -> Common]
    /\ future \in [Peers -> [Relays -> Futures]]
    /\ relays \in [Peers -> Seq(Candidate)]
    /\ best \in [Peers -> Nat]
    /\ stage \in [Peers -> Stages] /\ result \in [Peers -> Results]
    /\ heard \in [Peers -> SUBSET Relays] /\ shifted \subseteq Peers

\* None of the relays that p has heard is better than r.
Foremost(p, r) == \A x \in heard[p] : ~Better(p, x, r)

\* As long as best did not slip, p knows the best of the relays that it has heard:
\* best while it waits, the result in the end; and in between it has heard none.
Known(p) ==
    /\ stage[p] \in {"prepare", "outer"} => heard[p] = {}
    /\ stage[p] = "waiting" =>
          IF best[p] = 0 THEN heard[p] = {}
          ELSE /\ best[p] \in DOMAIN relays[p] /\ relays[p][best[p]].peer
               /\ Foremost(p, relays[p][best[p]].relay)
    /\ stage[p] \in {"leaving", "returned"} =>
          /\ result[p] \in Relays => Foremost(p, result[p])
          /\ result[p] \in {Nothing, Undefined} => heard[p] = {}

Distinct(list) == \A i, j \in DOMAIN list : list[i].relay = list[j].relay => i = j

\* What holds of one peer: no relay is twice among its candidates, which are those of
\* tasks that it has collected; the sender knows no relays but the common ones.
Side(p) ==
    /\ Distinct(relays[p]) /\ best[p] <= Cardinality(Relays)
    /\ \A i \in DOMAIN relays[p] : future[p][relays[p][i].relay] = "taken"
    /\ \A r \in heard[p] : future[p][r] = "taken"
    /\ stage[p] = "prepare" => relays[p] = << >> /\ \A r \in Relays : future[p][r] = "none"
    /\ p = "sender" => \A r \in Strangers : future[p][r] = "none"
    /\ stage[p] \in {"leaving", "returned"} <=> result[p] # "open"
    /\ result[p] \in Relays => future[p][result[p]] = "taken"
    /\ p \notin shifted => Known(p)

RaceInv == RaceTypes /\ \A p \in Peers : Side(p)

\* q is where it was.
Still(q) ==
    /\ future'[q] = future[q] /\ relays'[q] = relays[q] /\ best'[q] = best[q] /\ stage'[q] = stage[q]
    /\ result'[q] = result[q] /\ heard'[q] = heard[q] /\ (q \in shifted' <=> q \in shifted)

-----------------------------------------------------------------------------
(* Names and vectors.                                                      *)

\* The relays and the other results are told apart.
LEMMA RelayNames ==
    /\ IsFiniteSet(Relays) /\ Cardinality(Relays) \in Nat
    /\ {"open", Nothing, Undefined} \cap Relays = {}
    /\ "open" \notin {Nothing, Undefined} /\ Peers = {"sender", "receiver"}
  <1>1. IsFiniteSet(Common)
    BY FS_Singleton, FS_AddElement, IsFiniteSet({"embedded"}), Common = {"embedded"} \cup {"external"} DEF Common
  <1>2. IsFiniteSet(Relays)
    BY <1>1, StrangersAssumption, FS_Union DEF Relays
  <1> QED BY <1>2, StrangersAssumption, FS_CardinalityType DEF Relays, Common, Nothing, Undefined, Peers

\* A vector without the same relay twice is no longer than there are relays.
LEMMA VectorBound ==
    ASSUME NEW list \in Seq(Candidate), Distinct(list)
    PROVE  Len(list) <= Cardinality(Relays)
  <1> DEFINE f == [i \in 1..Len(list) |-> list[i].relay]
  <1>1. Len(list) \in Nat /\ DOMAIN list = 1..Len(list)
    OBVIOUS
  <1>2. f \in Injection(1..Len(list), Relays)
    <2>1. \A i \in 1..Len(list) : list[i] \in Candidate
      OBVIOUS
    <2>2. \A i \in 1..Len(list) : list[i].relay \in Relays
      BY <2>1 DEF Candidate
    <2> QED BY <1>1, <2>2 DEF Distinct, Injection, IsInjective
  <1>3. Cardinality(1..Len(list)) <= Cardinality(Relays)
    BY <1>2, FS_Injection, RelayNames
  <1> QED BY <1>1, <1>3, FS_Interval

\* What remove_if leaves of a vector: a sub-vector in which the entries before the first
\* dead one keep their place.
LEMMA ErasedKeeps ==
    ASSUME NEW list \in Seq(Candidate), NEW kept \in Erased(list)
    PROVE  /\ kept \in Seq(Candidate)
           /\ \E f \in [DOMAIN kept -> DOMAIN list] :
                 /\ \A i, j \in DOMAIN kept : f[i] = f[j] => i = j
                 /\ \A k \in DOMAIN kept : kept[k] = list[f[k]]
           /\ \A b \in DOMAIN list :
                 (\A i \in DOMAIN list : Dead(list[i]) => i > b) => b \in DOMAIN kept /\ kept[b] = list[b]
  <1> DEFINE live == {i \in DOMAIN list : ~Dead(list[i])}
             n    == Cardinality(live)
  <1>1. DOMAIN list = 1..Len(list) /\ Len(list) \in Nat
    OBVIOUS
  <1>2. IsFiniteSet(live) /\ n \in Nat
    <2>1. live \in SUBSET (1..Len(list))
      BY <1>1
    <2>2. IsFiniteSet(1..Len(list))
      BY <1>1, FS_Interval
    <2> QED BY <2>1, <2>2, FS_Subset, FS_CardinalityType
  <1>3. PICK f \in [1..n -> live] : /\ \A i, j \in DOMAIN f : i < j => f[i] < f[j]
                                    /\ kept = [k \in DOMAIN f |-> list[f[k]]]
    BY DEF Erased
  <1> HIDE DEF n
  <1>4. \A i, j \in 1..n : /\ i < j <=> f[i] < f[j]
                           /\ f[i] = f[j] => i = j
    BY <1>1, <1>2, <1>3
  <1>5. kept \in Seq(Candidate) /\ DOMAIN kept = 1..n
    <2>1. \A k \in 1..n : list[f[k]] \in Candidate
      BY <1>1, <1>3
    <2> QED BY <1>2, <1>3, <2>1
  <1>6. f \in Surjection(1..n, live)
    <2>1. f \in Injection(1..n, live)
      BY <1>3, <1>4 DEF Injection, IsInjective
    <2>2. Cardinality(1..n) = n
      BY <1>2, FS_Interval
    <2> QED BY <1>2, <2>1, <2>2, FS_Injection DEF n
  <1>7. ASSUME NEW b \in DOMAIN list, \A i \in DOMAIN list : Dead(list[i]) => i > b
        PROVE  b \in DOMAIN kept /\ kept[b] = list[b]
    <2>1. b \in live /\ 1..(b - 1) \subseteq live
      BY <1>1, <1>7
    <2>2. PICK m \in 1..n : f[m] = b
      BY <1>6, <2>1 DEF Surjection
    <2> DEFINE g == [k \in 1..(m - 1) |-> f[k]]
    <2>3. g \in Injection(1..(m - 1), 1..(b - 1))
      <3>1. \A k \in 1..(m - 1) : k \in 1..n /\ f[k] \in 1..(b - 1)
        BY <1>1, <1>2, <1>3, <1>4, <2>2
      <3>2. \A i, j \in 1..(m - 1) : f[i] = f[j] => i = j
        BY <1>4, <3>1
      <3> QED BY <3>1, <3>2 DEF Injection, IsInjective
    <2>4. \A v \in 1..(b - 1) : \E k \in 1..(m - 1) : f[k] = v
      <3> SUFFICES ASSUME NEW v \in 1..(b - 1) PROVE \E k \in 1..(m - 1) : f[k] = v
        OBVIOUS
      <3>1. PICK k \in 1..n : f[k] = v
        BY <1>6, <2>1 DEF Surjection
      <3>2. f[k] < f[m]
        BY <1>1, <2>2, <3>1
      <3>3. k < m
        BY <1>4, <3>2
      <3> QED BY <1>2, <3>1, <3>3
    <2>5. g \in Surjection(1..(m - 1), 1..(b - 1))
      BY <2>3, <2>4 DEF Surjection, Injection
    <2> HIDE DEF g
    <2> 1 \in Int /\ m - 1 \in Int /\ b - 1 \in Int
      BY <1>1, <1>2
    <2>6. Cardinality(1..(m - 1)) = Cardinality(1..(b - 1))
      <3>1. IsFiniteSet(1..(m - 1)) /\ IsFiniteSet(1..(b - 1))
        BY FS_Interval
      <3> QED BY <2>3, <2>5, <3>1, FS_Injection
    <2>7. m = b
      <3>1. Cardinality(1..(m - 1)) = m - 1 /\ Cardinality(1..(b - 1)) = b - 1
        <4>1. Cardinality(1..(m - 1)) = IF 1 > m - 1 THEN 0 ELSE (m - 1) - 1 + 1
          BY FS_Interval
        <4>2. Cardinality(1..(b - 1)) = IF 1 > b - 1 THEN 0 ELSE (b - 1) - 1 + 1
          BY FS_Interval
        <4> QED BY <1>1, <1>2, <4>1, <4>2
      <3> QED BY <1>1, <1>2, <2>6, <3>1
    <2> QED BY <1>3, <1>5, <2>2, <2>7
  <1>8. \A k \in DOMAIN kept : kept[k] = list[f[k]]
    BY <1>3, <1>5
  <1>9. f \in [DOMAIN kept -> DOMAIN list]
    BY <1>3, <1>5
  <1>10. \E h \in [DOMAIN kept -> DOMAIN list] :
             /\ \A i, j \in DOMAIN kept : h[i] = h[j] => i = j
             /\ \A k \in DOMAIN kept : kept[k] = list[h[k]]
    <2>1. \A i, j \in DOMAIN kept : f[i] = f[j] => i = j
      BY <1>4, <1>5
    <2> QED BY <1>8, <1>9, <2>1, Zenon
  <1> HIDE DEF live
  <1> QED BY <1>5, <1>7, <1>10

-----------------------------------------------------------------------------
(* The steps of a peer.                                                    *)

\* A peer that does not move keeps what it knows.
LEMMA OneMoves ==
    ASSUME RaceInv, NEW p \in Peers, RaceTypes', first' = first, \A q \in Peers \ {p} : Still(q), Side(p)'
    PROVE  RaceInv'
  <1>1. ASSUME NEW q \in Peers \ {p} PROVE Side(q)'
    BY <1>1 DEF RaceInv, Side, Still, Known, Foremost, Better, Rank
  <1> QED BY <1>1 DEF RaceInv

\* The start of the race.
LEMMA EnterKeeps ==
    ASSUME RaceInv, NEW p \in Peers, NEW es \in SUBSET Relays, stage[p] = "prepare",
           p = "sender" => es \subseteq Common, Enter(p, es)
    PROVE  RaceInv'
  <1>1. RaceTypes'
    BY DEF RaceInv, RaceTypes, Enter, Futures, Stages, Results
  <1>2. Side(p) /\ RaceTypes
    BY DEF RaceInv
  <1>3. heard[p] = {} /\ relays[p] = << >>
    BY <1>2 DEF Side, RaceTypes
  <1>4. /\ future'[p] = [r \in Relays |-> IF r \in es THEN "running" ELSE "none"]
        /\ stage'[p] = IF es = {} THEN "returned" ELSE "outer"
        /\ result'[p] = IF es = {} THEN Nothing ELSE result[p]
        /\ heard'[p] = {} /\ relays'[p] = << >> /\ best'[p] = best[p] /\ shifted' = shifted
    BY <1>2, <1>3 DEF RaceTypes, Enter
  <1>5. \A q \in Peers \ {p} : Still(q)
    BY <1>2 DEF RaceTypes, Enter, Still
  <1>6. result[p] = "open"
    BY <1>2 DEF Side
  <1>7. p = "sender" => \A r \in Strangers : r \in Relays /\ r \notin es
    BY StrangersAssumption DEF Relays
  <1>8. Side(p)'
    BY <1>2, <1>4, <1>6, <1>7, RelayNames DEF Side, Known, Distinct, Foremost
  <1> QED BY <1>1, <1>5, <1>8, OneMoves DEF Enter

\* Only the receiver tries relays that the other may not know.
LEMMA PrepareKeeps == RaceInv /\ (PrepareSend \/ PrepareRecv) => RaceInv'
  <1> SUFFICES ASSUME RaceInv, PrepareSend \/ PrepareRecv PROVE RaceInv'
    OBVIOUS
  <1>1. CASE PrepareSend
    <2>1. PICK es \in {Common, {"embedded"}, {"external"}} : Enter("sender", es)
      BY <1>1 DEF PrepareSend
    <2>2. es \in SUBSET Relays /\ es \subseteq Common
      BY <2>1 DEF Relays, Common
    <2> QED BY <1>1, <2>1, <2>2, EnterKeeps DEF PrepareSend, Peers
  <1>2. CASE PrepareRecv
    <2>1. PICK es \in SUBSET Relays : Enter("receiver", es)
      BY <1>2 DEF PrepareRecv, lan_discover, Relays, Common
    <2> QED BY <1>2, <2>1, EnterKeeps DEF PrepareRecv, Peers
  <1> QED BY <1>1, <1>2

\* A task ends.
LEMMA RegisterKeeps ==
    ASSUME RaceInv, NEW p \in Peers, NEW r \in Relays, Register(p, r)
    PROVE  RaceInv'
  <1>1. Side(p) /\ RaceTypes
    BY DEF RaceInv
  <1>2. PICK outcome \in {"registered", "failed"} : future' = [future EXCEPT ![p][r] = outcome]
    BY DEF Register
  <1>3. RaceTypes'
    BY <1>1, <1>2 DEF RaceTypes, Register, prepared, Futures
  <1>4. \A q \in Peers \ {p} : Still(q)
    BY <1>1, <1>2 DEF RaceTypes, Register, Still
  <1>5. /\ \A x \in Relays : future[p][x] # "running" => future'[p][x] = future[p][x]
        /\ UNCHANGED <<relays, best, stage, result, heard, shifted, first>> /\ future[p][r] = "running"
    BY <1>1, <1>2 DEF RaceTypes, Register, prepared
  <1>6. stage[p] # "prepare"
    BY <1>1, <1>5 DEF Side
  <1>7. Known(p) => Known(p)'
    BY <1>5 DEF Known, Foremost, Better, Rank
  <1>8. \A i \in DOMAIN relays[p] : relays[p][i].relay \in Relays
    <2>1. \A i \in DOMAIN relays[p] : relays[p][i] \in Candidate
      BY <1>1 DEF RaceTypes
    <2> QED BY <2>1 DEF Candidate
  <1>9. heard[p] \subseteq Relays /\ Strangers \subseteq Relays
    BY <1>1 DEF RaceTypes, Relays
  <1>10. Side(p)'
    BY <1>1, <1>5, <1>6, <1>7, <1>8, <1>9 DEF Side, Distinct
  <1> QED BY <1>3, <1>4, <1>5, <1>10, OneMoves

\* The tasks are waited for.
LEMMA LeaveKeeps ==
    ASSUME RaceInv, NEW p \in Peers, Leave(p)
    PROVE  RaceInv'
  <1>1. Side(p) /\ RaceTypes
    BY DEF RaceInv
  <1>2. RaceTypes'
    BY <1>1 DEF RaceTypes, Leave, prepared, Stages
  <1>3. /\ \A q \in Peers \ {p} : Still(q)
        /\ UNCHANGED <<future, relays, best, result, heard, shifted, first>>
        /\ stage[p] = "leaving" /\ stage'[p] = "returned"
    BY <1>1 DEF RaceTypes, Leave, Still, prepared
  <1>4. Known(p) => Known(p)'
    BY <1>3 DEF Known, Foremost, Better, Rank
  <1>5. Side(p)'
    BY <1>1, <1>3, <1>4 DEF Side, Distinct
  <1> QED BY <1>2, <1>3, <1>5, OneMoves

\* The deadline of the race, which only passes while the peer does not wait.
LEMMA DeadlineKeeps ==
    ASSUME RaceInv, NEW p \in Peers, Deadline(p)
    PROVE  RaceInv'
  <1>1. Side(p) /\ RaceTypes
    BY DEF RaceInv
  <1>2. RaceTypes'
    BY <1>1 DEF RaceTypes, Deadline, prepared, Stages, Results
  <1>3. /\ \A q \in Peers \ {p} : Still(q)
        /\ UNCHANGED <<future, best, heard, shifted, first>>
        /\ stage[p] = "outer" /\ stage'[p] = "leaving" /\ result'[p] = Nothing /\ relays'[p] = << >>
    BY <1>1 DEF RaceTypes, Deadline, Still, prepared
  <1>4. Known(p) => Known(p)'
    BY <1>3, RelayNames DEF Known, Foremost, Better, Rank
  <1>5. Side(p)'
    BY <1>1, <1>3, <1>4, RelayNames DEF Side, Distinct
  <1> QED BY <1>2, <1>3, <1>5, OneMoves

\* A position in two vectors put together is one of the first or of the second.
LEMMA Appended ==
    ASSUME NEW s1 \in Seq(Candidate), NEW s2 \in Seq(Candidate), NEW all, all = s1 \o s2
    PROVE  /\ all \in Seq(Candidate)
           /\ \A i \in DOMAIN all : \/ i \in DOMAIN s1 /\ all[i] = s1[i]
                                   \/ \E k \in DOMAIN s2 : i = Len(s1) + k /\ all[i] = s2[k]
  <1>1. /\ all \in Seq(Candidate) /\ Len(all) = Len(s1) + Len(s2)
        /\ \A i \in 1..Len(s1) + Len(s2) : all[i] = IF i <= Len(s1) THEN s1[i] ELSE s2[i - Len(s1)]
    BY ConcatProperties
  <1>2. /\ Len(s1) \in Nat /\ Len(s2) \in Nat /\ DOMAIN all = 1..Len(all)
        /\ DOMAIN s1 = 1..Len(s1) /\ DOMAIN s2 = 1..Len(s2)
    BY <1>1
  <1> SUFFICES ASSUME NEW i \in DOMAIN all, i \notin DOMAIN s1
               PROVE  \E k \in DOMAIN s2 : i = Len(s1) + k /\ all[i] = s2[k]
    <2>1. \A i \in DOMAIN s1 : i \in 1..Len(s1) + Len(s2) /\ i <= Len(s1)
      BY <1>2
    <2> QED BY <1>1, <2>1
  <1>3. /\ i - Len(s1) \in DOMAIN s2 /\ i = Len(s1) + (i - Len(s1))
        /\ i \in 1..Len(s1) + Len(s2) /\ ~(i <= Len(s1))
    BY <1>1, <1>2
  <1>4. all[i] = s2[i - Len(s1)]
    BY <1>1, <1>3
  <1> QED BY <1>3, <1>4

\* Candidates are put behind those that were left over.
LEMMA CollectedVector ==
    ASSUME NEW list \in Seq(Candidate), Distinct(list), NEW S \in SUBSET Relays,
           \A i \in DOMAIN list : list[i].relay \notin S,
           NEW tail \in Seq(Candidate), \A k \in DOMAIN tail : tail[k].relay \in S, Distinct(tail),
           NEW all, all = list \o tail
    PROVE  /\ all \in Seq(Candidate) /\ Distinct(all)
           /\ \A i \in DOMAIN all : all[i].relay \in S \cup {list[j].relay : j \in DOMAIN list}
  <1>1. /\ all \in Seq(Candidate)
        /\ \A i \in DOMAIN all : \/ i \in DOMAIN list /\ all[i] = list[i]
                                \/ \E k \in DOMAIN tail : i = Len(list) + k /\ all[i] = tail[k]
    BY Appended
  <1>2. Distinct(all)
    <2> SUFFICES ASSUME NEW i \in DOMAIN all, NEW j \in DOMAIN all, all[i].relay = all[j].relay PROVE i = j
      BY DEF Distinct
    <2>1. CASE i \in DOMAIN list /\ all[i] = list[i]
      <3>1. j \in DOMAIN list /\ all[j] = list[j]
        BY <1>1, <2>1
      <3> QED BY <2>1, <3>1 DEF Distinct
    <2>2. CASE \E k \in DOMAIN tail : i = Len(list) + k /\ all[i] = tail[k]
      <3>1. PICK k \in DOMAIN tail : i = Len(list) + k /\ all[i] = tail[k]
        BY <2>2
      <3>2. PICK m \in DOMAIN tail : j = Len(list) + m /\ all[j] = tail[m]
        BY <1>1, <3>1
      <3>3. k = m
        BY <3>1, <3>2 DEF Distinct
      <3> QED BY <3>1, <3>2, <3>3
    <2> QED BY <1>1, <2>1, <2>2
  <1> QED BY <1>1, <1>2

\* The tasks that have ended are collected: none of them was before.
LEMMA CollectKeeps ==
    ASSUME RaceInv, NEW p \in Peers, NEW done \in SUBSET Relays, Collect(p, done)
    PROVE  RaceInv'
  <1> DEFINE S == Sockets(p, done)
  <1>1. Side(p) /\ RaceTypes
    BY DEF RaceInv
  <1>2. PICK new \in [1..Cardinality(S) -> S] :
           /\ \A i, j \in DOMAIN new : i # j => new[i] # new[j]
           /\ relays' = [relays EXCEPT ![p] = @ \o [i \in DOMAIN new |-> Entry(new[i])]]
    BY DEF Collect
  <1>3. /\ S \in SUBSET Relays /\ \A r \in S : future[p][r] = "registered"
        /\ relays[p] \in Seq(Candidate) /\ Distinct(relays[p])
        /\ \A i \in DOMAIN relays[p] : relays[p][i].relay \notin S
        /\ relays'[p] = relays[p] \o [i \in DOMAIN new |-> Entry(new[i])]
    BY <1>1, <1>2 DEF Sockets, RaceTypes, Side
  <1>4. /\ relays'[p] \in Seq(Candidate) /\ Distinct(relays'[p])
        /\ \A i \in DOMAIN relays'[p] : relays'[p][i].relay \in S \cup {relays[p][j].relay : j \in DOMAIN relays[p]}
    <2> DEFINE tail == [i \in DOMAIN new |-> Entry(new[i])]
    <2>1. Cardinality(S) \in Nat
      BY <1>3, RelayNames, FS_Subset, FS_CardinalityType
    <2> HIDE DEF S
    <2>2. \A i \in DOMAIN new : Entry(new[i]) \in Candidate /\ Entry(new[i]).relay = new[i] /\ new[i] \in S
      BY <1>2, <1>3 DEF Entry, Candidate
    <2>3. /\ tail \in Seq(Candidate) /\ DOMAIN tail = DOMAIN new
          /\ \A k \in DOMAIN tail : tail[k].relay \in S
      BY <1>2, <2>1, <2>2
    <2>4. Distinct(tail)
      BY <1>2, <2>2 DEF Distinct
    <2>5. relays'[p] = relays[p] \o tail
      BY <1>3
    <2> HIDE DEF tail
    <2> QED BY <1>3, <2>3, <2>4, <2>5, CollectedVector
  <1>5. /\ UNCHANGED <<first, heard, shifted>> /\ best' = [best EXCEPT ![p] = 0]
        /\ stage[p] = "outer" /\ result[p] = "open"
        /\ done \subseteq {r \in Relays : future[p][r] \in {"registered", "failed"}}
        /\ future' = [future EXCEPT ![p] = [r \in Relays |->
              IF r \notin done THEN future[p][r] ELSE IF future[p][r] = "registered" THEN "taken" ELSE "none"]]
        /\ \/ stage' = [stage EXCEPT ![p] = "waiting"] /\ result' = result
           \/ stage' = [stage EXCEPT ![p] = "leaving"] /\ result' = [result EXCEPT ![p] = Nothing]
    BY DEF Collect, prepared
  <1>6. \A q \in Peers \ {p} : Still(q)
    BY <1>1, <1>2, <1>5 DEF RaceTypes, Still
  <1>7. RaceTypes'
    <2>1. relays' \in [Peers -> Seq(Candidate)]
      <3> HIDE DEF S
      <3>1. relays' = [relays EXCEPT ![p] = relays'[p]]
        BY <1>1, <1>2, <1>3 DEF RaceTypes
      <3> QED BY <1>1, <1>4, <3>1 DEF RaceTypes
    <2>2. future' \in [Peers -> [Relays -> Futures]]
      BY <1>1, <1>5 DEF RaceTypes, Futures
    <2> QED BY <1>1, <1>5, <2>1, <2>2 DEF RaceTypes, Stages, Results
  <1>8. /\ \A r \in Relays : future[p][r] = "taken" => future'[p][r] = "taken"
        /\ \A r \in S : future'[p][r] = "taken"
        /\ \A r \in Relays : future[p][r] = "none" => future'[p][r] = "none"
    BY <1>1, <1>3, <1>5 DEF RaceTypes, Sockets
  <1>9. /\ heard[p] \subseteq Relays /\ Strangers \subseteq Relays
        /\ \A i \in DOMAIN relays[p] : relays[p][i].relay \in Relays
    <2>1. \A i \in DOMAIN relays[p] : relays[p][i] \in Candidate
      BY <1>3
    <2> QED BY <1>1, <2>1 DEF RaceTypes, Relays, Candidate
  <1>10. /\ \A i \in DOMAIN relays'[p] : future'[p][relays'[p][i].relay] = "taken"
         /\ \A r \in heard'[p] : future'[p][r] = "taken"
         /\ p = "sender" => \A r \in Strangers : future'[p][r] = "none"
    <2> HIDE DEF S
    <2>1. \A i \in DOMAIN relays[p] : future'[p][relays[p][i].relay] = "taken"
      BY <1>1, <1>8, <1>9 DEF Side
    <2>2. \A i \in DOMAIN relays'[p] : future'[p][relays'[p][i].relay] = "taken"
      BY <1>4, <1>8, <2>1
    <2> QED BY <1>1, <1>5, <1>8, <1>9, <2>2 DEF Side
  <1>11. /\ best'[p] = 0 /\ heard'[p] = heard[p] /\ shifted' = shifted
         /\ \/ stage'[p] = "waiting" /\ result'[p] = "open"
            \/ stage'[p] = "leaving" /\ result'[p] = Nothing
    BY <1>1, <1>5 DEF RaceTypes
  <1>12. p \notin shifted => heard[p] = {}
    BY <1>1, <1>5 DEF Side, Known
  <1>13. Side(p)'
    BY <1>4, <1>10, <1>11, <1>12, RelayNames DEF Side, Known, Distinct, Foremost
  <1> QED BY <1>5, <1>6, <1>7, <1>13, OneMoves

-----------------------------------------------------------------------------
(* wait_for_peer_candidates.                                               *)

\* The wait ends with a choice, or with none when best slipped.
LEMMA ChooseKeeps ==
    ASSUME RaceInv, NEW p \in Peers, stage[p] = "waiting",
           NEW list \in Seq(Candidate), Distinct(list), \A i \in DOMAIN list : future[p][list[i].relay] = "taken",
           NEW b \in Nat \ {0}, b <= Cardinality(Relays), best' = [best EXCEPT ![p] = b],
           NEW H \in SUBSET Relays, \A r \in H : future[p][r] = "taken", heard' = [heard EXCEPT ![p] = H],
           UNCHANGED <<first, future, shifted>>, choose_best(p, list, b),
           p \notin shifted => /\ b \in DOMAIN list /\ list[b].peer
                             /\ \A x \in H : ~Better(p, x, list[b].relay)
    PROVE  RaceInv'
  <1>1. Side(p) /\ RaceTypes
    BY DEF RaceInv
  <1> DEFINE Good(r) == /\ Chosen(p, list, r) /\ (r \in Relays => future[p][r] = "taken")
                        /\ p \notin shifted => r \in Relays /\ \A x \in H : ~Better(p, x, r)
  <1>2. \/ \E r \in Relays \cup {Undefined} : Good(r)
        \/ p \in shifted /\ ReturnsNothing(p, list)
    <2>1. \A i \in DOMAIN list : list[i].relay \in Relays
      <3>1. \A i \in DOMAIN list : list[i] \in Candidate
        OBVIOUS
      <3> QED BY <3>1 DEF Candidate
    <2>2. CASE b \in DOMAIN list /\ list[b].peer
      <3>1. Chosen(p, list, list[b].relay)
        BY <2>2 DEF choose_best
      <3> QED BY <2>1, <2>2, <3>1
    <2>3. CASE ~(b \in DOMAIN list /\ list[b].peer)
      <3>1. ReturnsNothing(p, list) \/ Chosen(p, list, Undefined)
        BY <2>3 DEF choose_best
      <3> QED BY <2>3, <3>1, RelayNames
    <2> QED BY <2>2, <2>3
  <1>3. heard'[p] = H /\ best'[p] = b
    BY <1>1 DEF RaceTypes
  <1>4. CASE \E r \in Relays \cup {Undefined} : Good(r)
    <2>1. PICK r \in Relays \cup {Undefined} : Good(r)
      BY <1>4
    <2> result' = [result EXCEPT ![p] = r] /\ relays' = [relays EXCEPT ![p] = << >>]
        /\ stage' = [stage EXCEPT ![p] = "leaving"]
      BY <2>1 DEF Chosen
    <2>2. RaceTypes' /\ \A q \in Peers \ {p} : Still(q)
      BY <1>1 DEF RaceTypes, Stages, Results, Still
    <2>3. result'[p] = r /\ stage'[p] = "leaving" /\ relays'[p] = << >>
      BY <1>1 DEF RaceTypes
    <2>4. p \notin shifted' => Known(p)'
      BY <1>3, <2>1, <2>3, RelayNames DEF Known, Foremost, Better, Rank
    <2>5. Side(p)'
      BY <1>1, <1>3, <2>1, <2>3, <2>4, RelayNames DEF Side, Distinct
    <2> QED BY <2>2, <2>5, OneMoves
  <1>5. CASE p \in shifted /\ ReturnsNothing(p, list)
    <2>1. RaceTypes' /\ \A q \in Peers \ {p} : Still(q)
      BY <1>1, <1>5 DEF RaceTypes, ReturnsNothing, Stages, Still
    <2>2. result'[p] = result[p] /\ stage'[p] = "outer" /\ relays'[p] = list
      BY <1>1, <1>5 DEF RaceTypes, ReturnsNothing
    <2>3. Side(p)'
      BY <1>1, <1>3, <1>5, <2>2 DEF Side, Distinct
    <2> QED BY <2>1, <2>3, OneMoves
  <1> QED BY <1>2, <1>4, <1>5

\* The time is up: best is chosen, or there is none.
LEMMA WaitEndsKeeps ==
    ASSUME RaceInv, NEW p \in Peers, WaitEnds(p)
    PROVE  RaceInv'
  <1>1. Side(p) /\ RaceTypes
    BY DEF RaceInv
  <1>2. /\ stage[p] = "waiting" /\ UNCHANGED <<first, future, best, heard, shifted>>
        /\ best[p] \in Nat /\ heard[p] \in SUBSET Relays /\ relays[p] \in Seq(Candidate)
        /\ best' = [best EXCEPT ![p] = best[p]] /\ heard' = [heard EXCEPT ![p] = heard[p]]
    BY <1>1 DEF WaitEnds, prepared, RaceTypes
  <1>3. CASE best[p] # 0
    <2>1. choose_best(p, relays[p], best[p])
      BY <1>3 DEF WaitEnds
    <2> QED BY <1>1, <1>2, <1>3, <2>1, ChooseKeeps DEF Side, Known, Foremost
  <1>4. CASE best[p] = 0
    <2>1. ReturnsNothing(p, relays[p])
      BY <1>4 DEF WaitEnds
    <2>2. RaceTypes' /\ \A q \in Peers \ {p} : Still(q)
      BY <1>1, <1>2, <2>1 DEF RaceTypes, ReturnsNothing, Stages, Still
    <2>3. result'[p] = result[p] /\ stage'[p] = "outer" /\ relays'[p] = relays[p]
      BY <1>1, <2>1 DEF RaceTypes, ReturnsNothing
    <2>4. p \notin shifted => heard[p] = {}
      BY <1>1, <1>2, <1>4 DEF Side, Known
    <2>5. Side(p)'
      BY <1>1, <1>2, <2>3, <2>4 DEF Side, Known, Distinct
    <2> QED BY <1>2, <2>2, <2>5, OneMoves
  <1> QED BY <1>3, <1>4

-----------------------------------------------------------------------------
(* One round of the wait.                                                  *)

\* What a pass over the candidates changes: an entry that was read has got its peer, or
\* is no longer valid; one that had its peer stays as it is.
LEMMA ReadKeeps ==
    ASSUME RaceTypes, NEW p \in Peers, NEW got, NEW list, list = Read(p, got),
           got \subseteq {i \in DOMAIN relays[p] : Readable(p, relays[p][i])}
    PROVE  /\ list \in Seq(Candidate) /\ DOMAIN list = DOMAIN relays[p]
           /\ \A i \in DOMAIN list : list[i].relay = relays[p][i].relay /\ list[i].relay \in Relays
           /\ \A i \in DOMAIN list : relays[p][i].peer => list[i] = relays[p][i] /\ i \notin got
  <1> DEFINE old == relays[p]
  <1>1. old \in Seq(Candidate)
    BY DEF RaceTypes
  <1>2. DOMAIN list = DOMAIN old /\ \A i \in DOMAIN old : old[i] \in Candidate
    BY <1>1 DEF Read
  <1>3. ASSUME NEW i \in DOMAIN old
        PROVE  /\ list[i] \in Candidate /\ list[i].relay = old[i].relay /\ list[i].relay \in Relays
               /\ old[i].peer => list[i] = old[i] /\ i \notin got
    <2>1. list[i] \in {old[i], [old[i] EXCEPT !.peer = TRUE], [old[i] EXCEPT !.valid = FALSE]}
      BY DEF Read
    <2>2. i \notin got => list[i] = old[i]
      BY DEF Read
    <2>3. i \in got => ~old[i].peer
      BY DEF Readable
    <2>4. old[i] \in Candidate
      BY <1>2
    <2> HIDE DEF old
    <2> QED BY <2>1, <2>2, <2>3, <2>4 DEF Candidate
  <1>4. list \in Seq(Candidate)
    <2>1. list = [i \in DOMAIN list |-> list[i]]
      BY DEF Read
    <2>2. Len(old) \in Nat /\ DOMAIN list = 1..Len(old)
      BY <1>1, <1>2
    <2>3. \A i \in 1..Len(old) : list[i] \in Candidate
      BY <1>2, <1>3, <2>2
    <2> HIDE DEF old
    <2>4. list = [i \in 1..Len(old) |-> list[i]]
      BY <2>1, <2>2
    <2>5. [i \in 1..Len(old) |-> list[i]] \in Seq(Candidate)
      BY <2>2, <2>3
    <2> QED BY <2>4, <2>5
  <1> QED BY <1>2, <1>3, <1>4

\* The candidate a round leaves as best: it has its peer, and none that was heard before
\* or in this round is better.
LEMMA BestIsForemost ==
    ASSUME RaceInv, NEW p \in Peers, stage[p] = "waiting", p \notin shifted,
           NEW got, got \subseteq {i \in DOMAIN relays[p] : Readable(p, relays[p][i])},
           NEW list, list = Read(p, got), NEW found, found = {i \in got : list[i].peer},
           NEW b \in BestOf(p, list, found, best[p]), b # 0
    PROVE  /\ b \in DOMAIN list /\ list[b].peer
           /\ \A x \in heard[p] \cup {list[i].relay : i \in found} : ~Better(p, x, list[b].relay)
  <1>1. RaceTypes /\ Side(p)
    BY DEF RaceInv
  <1>2. /\ DOMAIN list = DOMAIN relays[p] /\ found \subseteq DOMAIN list
        /\ \A i \in DOMAIN list : list[i].relay = relays[p][i].relay
        /\ \A i \in DOMAIN list : relays[p][i].peer => list[i] = relays[p][i]
    BY <1>1, ReadKeeps
  <1>3. IF best[p] = 0 THEN heard[p] = {}
        ELSE /\ best[p] \in DOMAIN list /\ list[best[p]].peer
             /\ Foremost(p, list[best[p]].relay)
    BY <1>1, <1>2 DEF Side, Known
  <1>4. \A x, y, z : ~Better(p, x, y) /\ ~Better(p, y, z) => ~Better(p, x, z)
    BY DEF Better, Rank
  <1>5. CASE found = {}
    <2>1. b = best[p]
      BY <1>5 DEF BestOf
    <2> QED BY <1>3, <1>5, <2>1 DEF Foremost
  <1>6. CASE found # {}
    <2>1. 0 \notin DOMAIN list
      BY <1>1, <1>2 DEF RaceTypes
    <2>2. /\ b \in found \cup (IF best[p] \in DOMAIN list THEN {best[p]} ELSE {})
          /\ \A j \in found \cup (IF best[p] \in DOMAIN list THEN {best[p]} ELSE {}) :
                ~Better(p, list[j].relay, list[b].relay)
      BY <1>6 DEF BestOf
    <2>3. b \in DOMAIN list /\ list[b].peer
      BY <1>2, <1>3, <2>1, <2>2
    <2>4. \A i \in found : ~Better(p, list[i].relay, list[b].relay)
      BY <2>2
    <2>5. ASSUME NEW x \in heard[p] PROVE ~Better(p, x, list[b].relay)
      <3>1. best[p] \in DOMAIN list /\ ~Better(p, x, list[best[p]].relay)
        BY <1>3, <2>5 DEF Foremost
      <3>2. ~Better(p, list[best[p]].relay, list[b].relay)
        BY <2>2, <3>1
      <3> QED BY <1>4, <3>1, <3>2
    <2> QED BY <2>3, <2>4, <2>5
  <1> QED BY <1>5, <1>6

\* best is a place in the vector, or what it was.
LEMMA BestBound ==
    ASSUME NEW p \in Peers, NEW list \in Seq(Candidate), Distinct(list), NEW found \in SUBSET DOMAIN list,
           NEW old \in Nat, old <= Cardinality(Relays), NEW b \in BestOf(p, list, found, old)
    PROVE  b \in Nat /\ b <= Cardinality(Relays)
  <1>1. b = old \/ b \in DOMAIN list
    BY DEF BestOf
  <1>2. b \in DOMAIN list => b \in Nat /\ b <= Len(list) /\ Len(list) \in Nat
    OBVIOUS
  <1> QED BY <1>1, <1>2, VectorBound, RelayNames

\* One round: the candidates are read; then one is chosen, or the dead ones are erased
\* while best stays a number.
LEMMA RoundKeeps ==
    ASSUME RaceInv, NEW p \in Peers, NEW got, Round(p, got)
    PROVE  RaceInv'
  <1> DEFINE list  == Read(p, got)
             found == {i \in got : list[i].peer}
             dead  == {i \in DOMAIN list : Dead(list[i])}
             H     == heard[p] \cup {list[i].relay : i \in found}
  <1>1. RaceTypes /\ Side(p)
    BY DEF RaceInv
  <1>2. /\ stage[p] = "waiting" /\ got \subseteq {i \in DOMAIN relays[p] : Readable(p, relays[p][i])}
        /\ UNCHANGED <<first, entries, announcing, future, inbox, matched>>
    BY DEF Round, prepared
  <1>3. PICK b \in BestOf(p, list, found, best[p]), kept \in Erased(list) :
           /\ best' = [best EXCEPT ![p] = b]
           /\ heard' = [heard EXCEPT ![p] = @ \cup {list[i].relay : i \in found}]
           /\ \/ b # 0 /\ choose_best(p, list, b) /\ UNCHANGED shifted
              \/ /\ got # {}
                 /\ relays' = [relays EXCEPT ![p] = kept]
                 /\ stage' = [stage EXCEPT ![p] = IF kept = << >> THEN "outer" ELSE "waiting"]
                 /\ closed' = [closed EXCEPT ![p] = @ \cup {list[i].relay : i \in dead}]
                 /\ shifted' = IF \E i \in dead : i < b THEN shifted \cup {p} ELSE shifted
                 /\ UNCHANGED result
    BY DEF Round
  <1>4. /\ list \in Seq(Candidate) /\ DOMAIN list = DOMAIN relays[p]
        /\ \A i \in DOMAIN list : list[i].relay = relays[p][i].relay /\ list[i].relay \in Relays
    BY <1>1, <1>2, ReadKeeps
  <1>5. found \in SUBSET DOMAIN list
    BY <1>2, <1>4
  <1>6. p \notin shifted /\ b # 0 =>
           /\ b \in DOMAIN list /\ list[b].peer
           /\ \A x \in H : ~Better(p, x, list[b].relay)
    BY <1>1, <1>2, <1>3, BestIsForemost
  <1>7. p \notin shifted /\ b = 0 => H = {}
    <2> SUFFICES ASSUME p \notin shifted, b = 0 PROVE H = {}
      OBVIOUS
    <2>1. 0 \notin DOMAIN list
      BY <1>4
    <2>2. found = {} /\ best[p] = 0
      BY <1>3, <1>5, <2>1 DEF BestOf
    <2>3. heard[p] = {}
      BY <1>1, <1>2, <2>2 DEF Side, Known
    <2> QED BY <2>2, <2>3
  <1> HIDE DEF list
  <1>8. /\ Distinct(list) /\ \A i \in DOMAIN list : future[p][list[i].relay] = "taken"
        /\ \A r \in H : future[p][r] = "taken"
        /\ H \in SUBSET Relays /\ heard' = [heard EXCEPT ![p] = H] /\ heard'[p] = H
    <2>1. Distinct(list)
      BY <1>1, <1>4 DEF Side, Distinct
    <2>2. \A i \in DOMAIN list : future[p][list[i].relay] = "taken"
      BY <1>1, <1>4 DEF Side
    <2>3. H \in SUBSET Relays /\ heard' = [heard EXCEPT ![p] = H] /\ heard'[p] = H
      BY <1>1, <1>3, <1>4, <1>5 DEF RaceTypes
    <2> QED BY <1>1, <1>5, <2>1, <2>2, <2>3 DEF Side
  <1>9. b \in Nat /\ b <= Cardinality(Relays)
    BY <1>1, <1>3, <1>4, <1>5, <1>8, BestBound DEF Side, RaceTypes
  <1> HIDE DEF found, dead, H
  <1>10. CASE b # 0 /\ choose_best(p, list, b) /\ UNCHANGED shifted
    BY <1>2, <1>3, <1>4, <1>6, <1>8, <1>9, <1>10, ChooseKeeps
  <1>11. CASE /\ relays' = [relays EXCEPT ![p] = kept]
              /\ stage' = [stage EXCEPT ![p] = IF kept = << >> THEN "outer" ELSE "waiting"]
              /\ shifted' = IF \E i \in dead : i < b THEN shifted \cup {p} ELSE shifted
              /\ UNCHANGED result
    <2>1. /\ kept \in Seq(Candidate)
          /\ \E f \in [DOMAIN kept -> DOMAIN list] :
                /\ \A i, j \in DOMAIN kept : f[i] = f[j] => i = j
                /\ \A k \in DOMAIN kept : kept[k] = list[f[k]]
          /\ \A c \in DOMAIN list :
                (\A i \in DOMAIN list : Dead(list[i]) => i > c) => c \in DOMAIN kept /\ kept[c] = list[c]
      BY <1>3, <1>4, ErasedKeeps
    <2>2. Distinct(kept) /\ \A k \in DOMAIN kept : future[p][kept[k].relay] = "taken"
      BY <1>8, <2>1 DEF Distinct
    <2>3. RaceTypes'
      BY <1>1, <1>2, <1>3, <1>8, <1>9, <1>11, <2>1 DEF RaceTypes, Stages
    <2>4. \A q \in Peers \ {p} : Still(q)
      BY <1>1, <1>2, <1>3, <1>8, <1>11 DEF RaceTypes, Still
    <2>5. /\ relays'[p] = kept /\ best'[p] = b /\ result'[p] = result[p] /\ future' = future
          /\ stage'[p] = IF kept = << >> THEN "outer" ELSE "waiting"
      BY <1>1, <1>2, <1>3, <1>11 DEF RaceTypes
    <2>6. result[p] = "open"
      BY <1>1, <1>2 DEF Side
    <2>7. ASSUME p \notin shifted' PROVE Known(p)'
      <3>1. p \notin shifted /\ \A i \in dead : ~(i < b)
        BY <1>11, <2>7
      <3>2. CASE b = 0
        BY <1>7, <1>8, <2>5, <2>6, <3>1, <3>2, RelayNames DEF Known
      <3>3. CASE b # 0
        <4>1. b \in DOMAIN list /\ list[b].peer /\ \A x \in H : ~Better(p, x, list[b].relay)
          BY <1>6, <3>1, <3>3
        <4>2. \A i \in DOMAIN list : Dead(list[i]) => i > b
          <5> SUFFICES ASSUME NEW i \in DOMAIN list, Dead(list[i]) PROVE i > b
            OBVIOUS
          <5>1. ~(i < b)
            BY <3>1 DEF dead
          <5>2. i # b
            BY <4>1 DEF Dead
          <5> QED BY <1>4, <1>9, <5>1, <5>2
        <4>3. b \in DOMAIN kept /\ kept[b] = list[b] /\ kept # << >>
          BY <2>1, <4>1, <4>2
        <4>4. Foremost(p, kept[b].relay)'
          BY <1>2, <1>8, <4>1, <4>3 DEF Foremost, Better, Rank
        <4> QED BY <2>5, <3>3, <4>1, <4>3, <4>4 DEF Known
      <3> QED BY <3>2, <3>3
    <2>8. Side(p)'
      BY <1>1, <1>2, <1>8, <1>9, <2>2, <2>5, <2>6, <2>7, RelayNames DEF Side, Distinct
    <2> QED BY <1>2, <2>3, <2>4, <2>8, OneMoves
  <1> QED BY <1>3, <1>10, <1>11

-----------------------------------------------------------------------------
(* The race.                                                               *)

\* What the relays do moves no peer.
LEMMA RelaysKeep ==
    ASSUME RaceInv,
           \/ UNCHANGED vars \/ stop_lan_now
           \/ \E r \in Relays : Match(r) \/ \E p \in Peers : Drop(p, r)
    PROVE  RaceInv'
  <1>1. UNCHANGED <<first, future, relays, best, stage, result, heard, shifted>>
    BY DEF vars, prepared, raceVars, stop_lan_now, Match, Drop
  <1> QED BY <1>1 DEF RaceInv, RaceTypes, Side, Known, Foremost, Better, Rank, Distinct

\* The race begins with nothing known.
LEMMA RaceInit == Init => RaceInv
  <1> SUFFICES ASSUME Init PROVE RaceInv
    OBVIOUS
  <1>1. RaceTypes
    BY DEF Init, RaceTypes, Stages, Futures, Results
  <1>2. ASSUME NEW p \in Peers PROVE Side(p)
    BY <1>2, RelayNames DEF Init, Side, Known, Foremost, Distinct, Relays
  <1> QED BY <1>1, <1>2 DEF RaceInv

\* The invariant of the race.
LEMMA RaceInvariant == Spec => []RaceInv
  <1>1. Init => RaceInv
    BY RaceInit
  <1>2. RaceInv /\ [Next]_vars => RaceInv'
    <2> SUFFICES ASSUME RaceInv, [Next]_vars PROVE RaceInv'
      OBVIOUS
    <2>1. CASE PrepareSend \/ PrepareRecv
      BY <2>1, PrepareKeeps
    <2>2. CASE UNCHANGED vars \/ stop_lan_now \/ \E r \in Relays : Match(r)
      BY <2>2, RelaysKeep
    <2>3. ASSUME NEW p \in Peers, Peer(p) PROVE RaceInv'
      <3>1. ASSUME NEW r \in Relays, Register(p, r) PROVE RaceInv'
        BY <3>1, RegisterKeeps
      <3>2. ASSUME NEW r \in Relays, Drop(p, r) PROVE RaceInv'
        BY <3>2, RelaysKeep
      <3>3. ASSUME NEW got, Round(p, got) PROVE RaceInv'
        BY <3>3, RoundKeeps
      <3>4. ASSUME NEW done \in SUBSET Relays, Collect(p, done) PROVE RaceInv'
        BY <3>4, CollectKeeps
      <3>5. CASE WaitEnds(p)
        BY <3>5, WaitEndsKeeps
      <3>6. CASE Deadline(p)
        BY <3>6, DeadlineKeeps
      <3>7. CASE Leave(p)
        BY <3>7, LeaveKeeps
      <3> QED BY <2>3, <3>1, <3>2, <3>3, <3>4, <3>5, <3>6, <3>7 DEF Peer
    <2> QED BY <2>1, <2>2, <2>3 DEF Next
  <1> QED BY <1>1, <1>2, PTL DEF Spec

\* No relay is twice among the candidates of a peer, and every variable has its type.
THEOREM TypeCorrect == Spec => []TypeOK
  <1>1. RaceInv => TypeOK
    <2> SUFFICES ASSUME RaceInv PROVE TypeOK
      OBVIOUS
    <2>1. RaceTypes /\ \A p \in Peers : Distinct(relays[p]) /\ best[p] <= Cardinality(Relays)
      BY DEF RaceInv, Side
    <2>2. best \in [Peers -> 0..Cardinality(Relays)]
      BY <2>1, RelayNames DEF RaceTypes
    <2> QED BY <2>1, <2>2 DEF RaceTypes, TypeOK, Distinct, Futures, Stages, Results
  <1> QED BY <1>1, RaceInvariant, PTL

\* wait_for_peer_candidates, race_until_peer: a peer that has read an answer ends with
\* nothing, or with an entry that does not exist, only when the index slipped.
THEOREM ReadDelivered == Spec => []ReadIsDelivered
  <1>1. RaceInv => ReadIsDelivered
    <2> SUFFICES ASSUME RaceInv, NEW p \in Peers, result[p] \in {Nothing, Undefined}, p \notin shifted
                 PROVE  heard[p] = {}
      BY DEF ReadIsDelivered
    <2>1. Side(p) /\ result[p] # "open"
      BY RelayNames DEF RaceInv
    <2> QED BY <2>1 DEF Side, Known
  <1> QED BY <1>1, RaceInvariant, PTL

\* relay_candidate_better: two peers that rank the relays alike and both heard what the
\* other one took have taken the same.
THEOREM SplitSilent == Spec => []SplitNeedsSilence
  <1>1. RaceInv => SplitNeedsSilence
    <2> SUFFICES ASSUME RaceInv, \A p \in Peers : Picked(p), first["sender"] = first["receiver"],
                        result["sender"] # result["receiver"],
                        \A p \in Peers : result[Other(p)] \in heard[p] /\ p \notin shifted
                 PROVE  FALSE
      BY DEF SplitNeedsSilence
    <2> DEFINE s == result["sender"]
               r == result["receiver"]
    <2>1. /\ "sender" \in Peers /\ "receiver" \in Peers
          /\ Other("sender") = "receiver" /\ Other("receiver") = "sender"
      BY DEF Peers, Other
    <2>2. /\ s \in Relays /\ r \in Relays /\ r \in heard["sender"] /\ s \in heard["receiver"]
      BY <2>1 DEF Picked
    <2>3. \A p \in Peers : result[p] # "open" /\ Side(p) /\ Known(p)
      BY RelayNames DEF RaceInv, Picked, Side
    <2>4. Foremost("sender", s) /\ Foremost("receiver", r)
      BY <2>1, <2>2, <2>3 DEF Side, Known
    <2>5. ~Better("sender", r, s) /\ ~Better("receiver", s, r)
      BY <2>2, <2>4 DEF Foremost
    <2>6. s \notin Strangers /\ r \notin Strangers
      BY <2>1, <2>2, <2>3 DEF Side
    <2>7. s \in Common /\ r \in Common /\ s # r /\ first["sender"] \in Common
      BY <2>1, <2>2, <2>6 DEF Relays, RaceInv, RaceTypes
    <2> QED BY <2>5, <2>6, <2>7 DEF Better, Rank, Common
  <1> QED BY <1>1, RaceInvariant, PTL

-----------------------------------------------------------------------------
(* The multiplexed transfer: types.                                        *)

\* What a chunk may be, in a file or on its way.
Piece  == [at : Nat, content : Mux!Contents]
Frames == [tag : {"data", "chunk_end", "file_end"}, chunk : Piece]

\* What every operation needs of the types.
Typed ==
    /\ {source, entry} \subseteq [version : 1..(MaxEdits + 1), length : Lengths]
    /\ entry.version <= source.version /\ (entry.version = source.version => entry = source)
    /\ accepted \in Nat /\ have \in Nat /\ prefix \in Nat
    /\ digest \in Seq(Mux!Contents) /\ part \in Seq(Mux!Contents) /\ hand \in Piece
    /\ queue \in [Channels -> Seq(Piece)] /\ item \in [Channels -> Piece]
    /\ worker \in [Channels -> {"none", "wait", "send", "account", "end", "gone"}]
    /\ wire \in [Channels -> Seq(Frames)]
    /\ cut \in [Channels -> BOOLEAN] /\ reader \in [Channels -> BOOLEAN]
    /\ error \in BOOLEAN /\ finishing \in BOOLEAN /\ failed \in BOOLEAN

\* The sender has accepted an offset and its workers run.
Begun == worker[0] # "none"

\* The part file reaches the offset and the prefix.
Reaching ==
    /\ rcv = "resume_ack" => have <= Len(part)
    /\ rcv = "resume_ack" /\ Begun => accepted \in {0, have}
    /\ rcv \in {"receive", "trailer"} => Begun /\ have = accepted /\ have <= Len(part)
    /\ rcv = "receive" => prefix <= Len(part) /\ early \subseteq 1..Len(part)

-----------------------------------------------------------------------------
(* The order of frames and of the ends of the threads.                     *)

\* The workers run from the accepted offset on; they leave with an empty queue or with
\* an error, the sending thread goes on to the trailer when all of them have left, and
\* the receiving thread when no reader reads.
Order ==
    /\ rcv = "header" => ~Begun
    /\ ~Begun => /\ snd \in {"resume", "failed"}
                  /\ \A c \in Channels : worker[c] = "none" /\ queue[c] = << >> /\ wire[c] = << >>
    /\ Begun => snd # "resume" /\ \A c \in Channels : worker[c] # "none"
    /\ finishing => snd \notin {"resume", "read", "enqueue"}
    /\ \A c \in Channels : worker[c] \in {"end", "gone"} /\ ~error => finishing /\ queue[c] = << >>
    /\ snd \in {"trailer", "ack", "done"} => ~error /\ \A c \in Channels : worker[c] = "gone"
    /\ rcv = "trailer" => ~failed /\ \A c \in Channels : ~reader[c]

\* What a queue or a wire holds.
Items(s) == {s[j] : j \in DOMAIN s}

Has(s, tag) == \E f \in Items(s) : f.tag = tag

\* No chunk follows a ChunkEnd.
Settled(s) == \A j, l \in DOMAIN s : l > j /\ s[j].tag = "chunk_end" => s[l].tag # "data"

\* Nothing but the FileEnd comes when all workers are gone.
Ends ==
    /\ \A c \in Channels : /\ Settled(wire[c])
                           /\ Has(wire[c], "chunk_end") => worker[c] = "gone"
                           /\ Has(wire[c], "file_end") => ~error /\ \A d \in Channels : worker[d] = "gone"
    /\ rcv \in {"receive", "trailer"} /\ ~failed =>
          \A c \in Channels : ~reader[c] => worker[c] = "gone" /\ ~Has(wire[c], "data")

-----------------------------------------------------------------------------
(* The chunks.                                                             *)

\* The chunk is in channel c: queued, popped or on the wire.
At(c, k) == k \in Items(queue[c]) \/ (worker[c] = "send" /\ k = item[c]) \/ Mux!Data(k) \in Items(wire[c])

\* The chunks that were read and not yet written.
Underway == {k \in Piece : (snd = "enqueue" /\ k = hand) \/ \E c \in Channels : At(c, k)}

\* Nobody rewrote the source since the files were collected.
Same == source.version = entry.version

\* What the sender has read.
Agreed ==
    Begun => /\ accepted <= Len(digest) /\ Len(digest) <= entry.length
             /\ \A i \in 1..Len(digest) : digest[i] = entry.version
             /\ finishing /\ ~error => Len(digest) = entry.length

\* No chunk under way is out of place or of another version.
Right == \A k \in Underway : accepted < k.at /\ k.at <= Len(digest) /\ k.content = entry.version

\* The part file starts with what was accepted and is no longer than the file.
Opened ==
    /\ Begun /\ rcv \in {"resume_ack", "receive", "trailer"} =>
          accepted <= Len(part) /\ \A i \in 1..accepted : part[i] = entry.version
    /\ rcv \in {"receive", "trailer"} => Len(part) <= entry.length

\* The part file holds chunk i.
Stored(i) == rcv \in {"receive", "trailer"} /\ i <= Len(part) /\ part[i] = entry.version

\* The end of a channel has arrived or is on the wire.
Ended(c) ==
    \/ Has(wire[c], "chunk_end")
    \/ rcv \in {"receive", "trailer"} /\ ~reader[c]

\* A frame may have been lost.
Broken == error \/ failed \/ \E c \in Channels : cut[c] /\ ~Ended(c)

\* Unless a frame may have been lost, every chunk read is written or under way.
NothingLost ==
    Begun /\ rcv \in {"resume_ack", "receive", "trailer"} /\ ~Broken =>
        \A i \in (accepted + 1)..Len(digest) : Stored(i) \/ \E k \in Underway : k.at = i

\* What holds of a transfer of an unchanged source.
Good == Agreed /\ Right /\ Opened /\ NothingLost /\ rcv # "corrupt"

Sound == Same => Good

Core == Typed /\ Reaching /\ Order /\ Ends

-----------------------------------------------------------------------------
(* Sequences.                                                              *)

LEMMA SeqItems ==
    ASSUME NEW S, NEW s \in Seq(S)
    PROVE  /\ Items(<< >>) = {} /\ Items(s) \subseteq S
           /\ \A x \in S : Append(s, x) \in Seq(S) /\ Items(Append(s, x)) = Items(s) \cup {x}
           /\ s # << >> => Head(s) \in S /\ Tail(s) \in Seq(S) /\ Items(s) = Items(Tail(s)) \cup {Head(s)}
  <1>1. Items(<< >>) = {} /\ Items(s) \subseteq S
    BY DEF Items
  <1>2. ASSUME NEW x \in S PROVE Append(s, x) \in Seq(S) /\ Items(Append(s, x)) = Items(s) \cup {x}
    <2>1. /\ Append(s, x) \in Seq(S) /\ Len(s) \in Nat /\ DOMAIN s = 1..Len(s) /\ DOMAIN Append(s, x) = 1..(Len(s) + 1)
          /\ \A j \in 1..Len(s) : Append(s, x)[j] = s[j]
          /\ Append(s, x)[Len(s) + 1] = x
      OBVIOUS
    <2>2. DOMAIN Append(s, x) = DOMAIN s \cup {Len(s) + 1}
      BY <2>1
    <2> QED BY <2>1, <2>2 DEF Items
  <1>3. ASSUME s # << >> PROVE Head(s) \in S /\ Tail(s) \in Seq(S) /\ Items(s) = Items(Tail(s)) \cup {Head(s)}
    <2>1. /\ Head(s) = s[1] /\ Tail(s) \in Seq(S) /\ Len(s) \in Nat \ {0} /\ DOMAIN s = 1..Len(s)
          /\ DOMAIN Tail(s) = 1..(Len(s) - 1) /\ \A j \in 1..(Len(s) - 1) : Tail(s)[j] = s[j + 1]
      BY <1>3
    <2>2. \A j \in DOMAIN s : j = 1 \/ (j - 1 \in DOMAIN Tail(s) /\ Tail(s)[j - 1] = s[j])
      BY <2>1
    <2>3. \A j \in DOMAIN Tail(s) : j + 1 \in DOMAIN s /\ Tail(s)[j] = s[j + 1]
      BY <2>1
    <2>4. Items(s) \subseteq Items(Tail(s)) \cup {Head(s)}
      BY <2>1, <2>2 DEF Items
    <2>5. Items(Tail(s)) \cup {Head(s)} \subseteq Items(s) /\ Head(s) \in S
      BY <2>1, <2>3 DEF Items
    <2> QED BY <2>1, <2>4, <2>5
  <1> QED BY <1>1, <1>2, <1>3

LEMMA SettledFacts ==
    ASSUME NEW s \in Seq(Frames), Settled(s)
    PROVE  /\ \A x \in Frames : (x.tag = "data" => ~Has(s, "chunk_end")) => Settled(Append(s, x))
           /\ s # << >> => Settled(Tail(s)) /\ (Head(s).tag = "chunk_end" => ~Has(Tail(s), "data"))
  <1>1. ASSUME NEW x \in Frames, x.tag = "data" => ~Has(s, "chunk_end") PROVE Settled(Append(s, x))
    <2> SUFFICES ASSUME NEW j \in DOMAIN Append(s, x), NEW l \in DOMAIN Append(s, x), l > j,
                        Append(s, x)[j].tag = "chunk_end", Append(s, x)[l].tag = "data"
                 PROVE  FALSE
      BY DEF Settled
    <2>1. /\ Len(s) \in Nat /\ DOMAIN s = 1..Len(s) /\ DOMAIN Append(s, x) = 1..(Len(s) + 1)
          /\ \A m \in 1..Len(s) : Append(s, x)[m] = s[m]
          /\ Append(s, x)[Len(s) + 1] = x
      OBVIOUS
    <2>2. j \in DOMAIN s /\ s[j].tag = "chunk_end"
      BY <2>1
    <2>3. CASE l = Len(s) + 1
      BY <1>1, <2>1, <2>2, <2>3 DEF Has, Items
    <2>4. CASE l # Len(s) + 1
      <3>1. l \in DOMAIN s /\ s[l].tag = "data"
        BY <2>1, <2>4
      <3> QED BY <2>2, <3>1 DEF Settled
    <2> QED BY <2>3, <2>4
  <1>2. ASSUME s # << >> PROVE Settled(Tail(s)) /\ (Head(s).tag = "chunk_end" => ~Has(Tail(s), "data"))
    <2>1. /\ Head(s) = s[1] /\ Len(s) \in Nat \ {0} /\ DOMAIN s = 1..Len(s)
          /\ DOMAIN Tail(s) = 1..(Len(s) - 1) /\ \A j \in 1..(Len(s) - 1) : Tail(s)[j] = s[j + 1]
      BY <1>2
    <2>2. \A j \in DOMAIN Tail(s) : j + 1 \in DOMAIN s /\ Tail(s)[j] = s[j + 1] /\ j \in Nat /\ j > 0
      BY <2>1
    <2>3. 1 \in DOMAIN s
      BY <2>1
    <2>4. Settled(Tail(s))
      <3> SUFFICES ASSUME NEW j \in DOMAIN Tail(s), NEW l \in DOMAIN Tail(s), l > j, Tail(s)[j].tag = "chunk_end"
                   PROVE  Tail(s)[l].tag # "data"
        BY DEF Settled
      <3>1. /\ j + 1 \in DOMAIN s /\ l + 1 \in DOMAIN s /\ l + 1 > j + 1 /\ s[j + 1].tag = "chunk_end"
            /\ Tail(s)[l] = s[l + 1]
        BY <2>2
      <3> QED BY <3>1 DEF Settled
    <2>5. Head(s).tag = "chunk_end" => ~Has(Tail(s), "data")
      <3> SUFFICES ASSUME s[1].tag = "chunk_end", NEW j \in DOMAIN Tail(s) PROVE Tail(s)[j].tag # "data"
        BY <2>1 DEF Has, Items
      <3>1. j + 1 \in DOMAIN s /\ j + 1 > 1 /\ Tail(s)[j] = s[j + 1]
        BY <2>2
      <3> QED BY <2>3, <3>1 DEF Settled
    <2> QED BY <2>4, <2>5
  <1> QED BY <1>1, <1>2

-----------------------------------------------------------------------------
(* Numbers, and what is written.                                           *)

LEMMA Least ==
    ASSUME NEW S \in SUBSET Nat, S # {}
    PROVE  Mux!Min(S) \in S /\ \A n \in S : Mux!Min(S) <= n
  <1> DEFINE R == {ss \in Nat \X Nat : ss[1] < ss[2]}
  <1>1. IsWellFoundedOn(R, Nat)
    <2>1. IsWellFoundedOn(OpToRel(<, Nat), Nat)
      BY NatLessThanWellFounded
    <2>2. R = OpToRel(<, Nat)
      BY DEF OpToRel
    <2> QED BY <2>1, <2>2
  <1>2. PICK n \in S : \A m \in S : ~(<<m, n>> \in R)
    <2> HIDE DEF R
    <2> QED BY <1>1, WFMin
  <1>3. \A m \in S : n \in Nat /\ m \in Nat /\ (<<m, n>> \in R <=> m < n)
    OBVIOUS
  <1> HIDE DEF R
  <1>4. \A m \in S : ~(m < n)
    BY <1>2, <1>3, Zenon
  <1>5. \A m \in S : n <= m
    BY <1>3, <1>4
  <1> QED BY <1>5 DEF Mux!Min

\* The greatest of some numbers that have a bound.
LEMMA Greatest ==
    ASSUME NEW S \in SUBSET Nat, S # {}, NEW b \in Nat, \A n \in S : n <= b
    PROVE  Mux!Max(S) \in S /\ \A n \in S : n <= Mux!Max(S)
  <1> DEFINE T == {u \in Nat : \A n \in S : n <= u}
  <1>1. T \in SUBSET Nat /\ b \in T
    OBVIOUS
  <1>2. PICK u : u = Mux!Min(T)
    OBVIOUS
  <1>3. u \in T /\ \A v \in T : u <= v
    BY <1>1, <1>2, Least
  <1>4. u \in S
    <2> SUFFICES ASSUME u \notin S PROVE FALSE
      OBVIOUS
    <2>1. u \in Nat /\ \A n \in S : n \in Nat /\ n <= u /\ n # u
      BY <1>3
    <2>4. PICK n0 : n0 \in S
      OBVIOUS
    <2>5. u - 1 \in Nat
      BY <2>1, <2>4
    <2>6. \A n \in Nat : n <= u /\ n # u => n <= u - 1
      BY <2>1
    <2>2. u - 1 \in Nat /\ \A n \in S : n <= u - 1
      BY <2>1, <2>5, <2>6
    <2>3. u - 1 \in T
      BY <2>2
    <2> HIDE DEF T
    <2> QED BY <1>3, <2>1, <2>3
  <1>5. \A n \in S : n <= u
    BY <1>3
  <1> HIDE DEF T
  <1>6. \E x \in S : \A y \in S : x >= y
    BY <1>3, <1>4, <1>5
  <1>7. Mux!Max(S) \in S /\ \A n \in S : Mux!Max(S) >= n
    BY <1>6 DEF Mux!Max
  <1> QED BY <1>7

LEMMA ContentFacts ==
    ASSUME MuxBounds
    PROVE  Mux!Contents \subseteq Nat /\ Mux!Hole \in Mux!Contents
  BY DEF Mux!Contents, Mux!Hole, MuxBounds

LEMMA FileFacts ==
    ASSUME MuxBounds, Typed
    PROVE  /\ source.version \in Nat /\ source.version \in Mux!Contents /\ source.length \in Nat
           /\ entry.version \in Nat /\ entry.length \in Nat /\ Len(part) \in Nat /\ Len(digest) \in Nat
           /\ entry.version <= source.version /\ (entry.version = source.version => entry = source)
  <1>1. source.version \in 1..(MaxEdits + 1) /\ entry.version \in 1..(MaxEdits + 1)
    BY DEF Typed
  <1>2. source.length \in Lengths /\ entry.length \in Lengths
    BY DEF Typed
  <1>3. Len(part) \in Nat /\ Len(digest) \in Nat
    BY DEF Typed
  <1>4. source.version \in Nat /\ source.version \in Mux!Contents /\ entry.version \in Nat
    BY <1>1 DEF Mux!Contents, MuxBounds
  <1> QED BY <1>2, <1>3, <1>4 DEF Typed, MuxBounds

LEMMA WrittenFacts ==
    ASSUME MuxBounds, part \in Seq(Mux!Contents), NEW k \in Piece, k.at > 0
    PROVE  /\ Mux!Written(k) \in Seq(Mux!Contents) /\ Len(part) \in Nat
           /\ Len(Mux!Written(k)) \in {Len(part), k.at} /\ Len(part) <= Len(Mux!Written(k))
           /\ k.at <= Len(Mux!Written(k))
           /\ Mux!Written(k)[k.at] = k.content /\ \A i \in 1..Len(part) : i # k.at => Mux!Written(k)[i] = part[i]
  <1> DEFINE S == {Len(part), k.at}
  <1>1. /\ Len(part) \in Nat /\ k.at \in Nat /\ k.content \in Mux!Contents
        /\ \A i \in 1..Len(part) : part[i] \in Mux!Contents
    BY DEF Piece
  <1>2. PICK m : m = Mux!Max(S)
    OBVIOUS
  <1>3. m \in Nat /\ m \in {Len(part), k.at} /\ Len(part) <= m /\ k.at <= m
    <2>1. S \in SUBSET Nat /\ S # {} /\ Len(part) + k.at \in Nat /\ \A n \in S : n <= Len(part) + k.at
      BY <1>1
    <2>2. Mux!Max(S) \in S /\ \A n \in S : n <= Mux!Max(S)
      BY <2>1, Greatest
    <2> QED BY <1>1, <1>2, <2>2
  <1>4. Mux!Written(k) = [i \in 1..m |-> IF i = k.at THEN k.content ELSE IF i <= Len(part) THEN part[i] ELSE Mux!Hole]
    BY <1>2 DEF Mux!Written
  <1> HIDE DEF S
  <1>5. \A i \in 1..m : (IF i = k.at THEN k.content ELSE IF i <= Len(part) THEN part[i] ELSE Mux!Hole) \in Mux!Contents
    BY <1>1, <1>3, ContentFacts
  <1>6. Mux!Written(k) \in Seq(Mux!Contents) /\ Len(Mux!Written(k)) = m
    BY <1>3, <1>4, <1>5
  <1>7. k.at \in 1..m /\ \A i \in 1..Len(part) : i \in 1..m
    BY <1>1, <1>3
  <1> QED BY <1>1, <1>3, <1>4, <1>6, <1>7

LEMMA AbsorbedFacts ==
    ASSUME prefix \in Nat, NEW m \in Nat, prefix <= m, NEW chunks \in SUBSET (1..m)
    PROVE  Mux!Absorbed(chunks) \in Nat /\ Mux!Absorbed(chunks) <= m
  <1> DEFINE N == Cardinality(chunks)
             S == {n \in prefix..(prefix + N) : n + 1 \notin chunks}
  <1>1. IsFiniteSet(chunks) /\ N \in Nat
    <2>1. IsFiniteSet(1..m)
      BY FS_Interval
    <2>2. IsFiniteSet(chunks)
      BY <2>1, FS_Subset
    <2> QED BY <2>2, FS_CardinalityType
  <1> HIDE DEF N
  <1>2. S # {}
    <2> SUFFICES ASSUME \A n \in prefix..(prefix + N) : n + 1 \in chunks PROVE FALSE
      OBVIOUS
    <2>1. (prefix + 1)..(prefix + N + 1) \subseteq chunks
      <3> SUFFICES ASSUME NEW n \in (prefix + 1)..(prefix + N + 1) PROVE n \in chunks
        OBVIOUS
      <3>1. n - 1 \in prefix..(prefix + N) /\ (n - 1) + 1 = n
        BY <1>1
      <3> QED BY <3>1
    <2>2. Cardinality((prefix + 1)..(prefix + N + 1)) = N + 1
      BY <1>1, FS_Interval
    <2>3. N + 1 <= N
      BY <1>1, <2>1, <2>2, FS_Subset DEF N
    <2> QED BY <1>1, <2>3
  <1>3. S \in SUBSET Nat
    BY <1>1
  <1>4. Mux!Min(S) \in S /\ \A n \in S : Mux!Min(S) <= n
    BY <1>2, <1>3, Least
  <1>5. PICK n : n = Mux!Min(S)
    OBVIOUS
  <1>6. Mux!Absorbed(chunks) = n
    <2>1. Mux!Cardinality(chunks) = Cardinality(chunks)
      BY DEF Mux!Cardinality, Cardinality
    <2> QED BY <1>5, <2>1 DEF Mux!Absorbed, N
  <1>7. n \in Nat /\ prefix <= n /\ n <= prefix + N /\ \A l \in S : n <= l
    BY <1>1, <1>4, <1>5
  <1>8. n <= m
    <2>1. CASE n = prefix
      BY <2>1
    <2>2. CASE n # prefix
      <3>1. n - 1 \in prefix..(prefix + N) /\ n - 1 < n /\ (n - 1) + 1 = n
        BY <1>1, <1>7, <2>2
      <3>2. n - 1 \notin S
        BY <1>7, <3>1
      <3>3. n \in chunks
        BY <3>1, <3>2
      <3> QED BY <3>3
    <2> QED BY <2>1, <2>2
  <1> QED BY <1>6, <1>7, <1>8

-----------------------------------------------------------------------------
(* Types.                                                                  *)

LEMMA FrameTypes ==
    ASSUME MuxBounds
    PROVE  /\ \A k \in Piece : Mux!Data(k) \in Frames /\ Mux!Data(k).tag = "data" /\ Mux!Data(k).chunk = k
           /\ Mux!NoChunk \in Piece /\ Mux!ChunkEnd \in Frames /\ Mux!FileEnd \in Frames
           /\ Mux!ChunkEnd.tag = "chunk_end" /\ Mux!FileEnd.tag = "file_end"
           /\ \A f \in Frames : f.chunk \in Piece /\ (f.tag = "data" => f = Mux!Data(f.chunk))
  BY ContentFacts DEF Mux!Data, Mux!NoChunk, Mux!ChunkEnd, Mux!FileEnd, Frames, Piece

LEMMA OnTypes ==
    ASSUME MuxBounds
    PROVE  /\ Mux!On(<< >>) \in [Channels -> Seq(Frames)] /\ Mux!On(<< >>) \in [Channels -> Seq(Piece)]
           /\ Mux!On(Mux!NoChunk) \in [Channels -> Piece]
           /\ Mux!On(TRUE) \in [Channels -> BOOLEAN] /\ Mux!On(FALSE) \in [Channels -> BOOLEAN]
           /\ Mux!AllCut \in [Channels -> BOOLEAN]
           /\ \A c \in Channels : \A v : Mux!On(v)[c] = v
           /\ 0 \in Channels
  BY FrameTypes DEF Mux!On, Mux!AllCut, MuxBounds

LEMMA InitTyped ==
    ASSUME MuxBounds
    PROVE  Mux!Init => Typed
  <1> SUFFICES ASSUME Mux!Init PROVE Typed
    OBVIOUS
  <1>1. worker \in [Channels -> {"none", "wait", "send", "account", "end", "gone"}]
    BY DEF Mux!Init, Mux!On
  <1>2. source \in [version : 1..(MaxEdits + 1), length : Lengths] /\ entry = source /\ entry.version <= source.version
    <2>1. source \in [version : {1}, length : Lengths] /\ entry = source
      BY DEF Mux!Init
    <2>2. 1 \in 1..(MaxEdits + 1)
      BY DEF MuxBounds
    <2>3. source.version = 1
      BY <2>1
    <2> QED BY <2>1, <2>2, <2>3
  <1>3. << >> \in Seq(Mux!Contents)
    OBVIOUS
  <1>4. /\ accepted = 0 /\ have = 0 /\ prefix = 0 /\ digest = << >> /\ part = << >> /\ hand = Mux!NoChunk
        /\ queue = Mux!On(<< >>) /\ item = Mux!On(Mux!NoChunk) /\ wire = Mux!On(<< >>) /\ cut = Mux!On(FALSE)
        /\ reader = Mux!On(FALSE)
        /\ error = FALSE /\ finishing = FALSE /\ failed = FALSE
    BY DEF Mux!Init
  <1> QED BY <1>1, <1>2, <1>3, <1>4, OnTypes, FrameTypes DEF Typed

\* What the sending thread does.
LEMMA TypedAccept ==
    ASSUME MuxBounds
    PROVE  Typed /\ Mux!Accept => Typed'
  <1> SUFFICES ASSUME Typed, Mux!Accept PROVE Typed'
    OBVIOUS
  <1>1. accepted' \in Nat /\ source.version \in Mux!Contents
    BY FileFacts DEF Mux!Accept, Typed
  <1>2. digest' \in Seq(Mux!Contents)
    BY <1>1 DEF Mux!Accept, Mux!SourcePrefix
  <1>3. worker' \in [Channels -> {"none", "wait", "send", "account", "end", "gone"}]
    BY DEF Mux!Accept, Mux!On
  <1> QED BY <1>1, <1>2, <1>3 DEF Typed, Mux!Accept, Mux!files, Mux!network, Mux!receiving

LEMMA TypedReadNext ==
    ASSUME MuxBounds
    PROVE  Typed /\ Mux!ReadNext => Typed'
  <1> SUFFICES ASSUME Typed, Mux!ReadNext PROVE Typed'
    OBVIOUS
  <1>1. Len(digest) \in Nat /\ source.version \in Mux!Contents /\ digest \in Seq(Mux!Contents)
    BY FileFacts DEF Typed
  <1>2. digest' \in Seq(Mux!Contents) /\ hand' \in Piece /\ finishing' \in BOOLEAN
    <2>1. CASE Len(digest) < source.length
      <3>1. /\ [at |-> Len(digest) + 1, content |-> source.version] \in Piece
            /\ Append(digest, source.version) \in Seq(Mux!Contents)
        BY <1>1 DEF Piece
      <3>2. /\ hand' = [at |-> Len(digest) + 1, content |-> source.version]
            /\ digest' = Append(digest, source.version) /\ finishing' = finishing
        BY <2>1 DEF Mux!ReadNext
      <3> QED BY <3>1, <3>2 DEF Typed
    <2>2. CASE ~(Len(digest) < source.length)
      BY <2>2 DEF Typed, Mux!ReadNext
    <2> QED BY <2>1, <2>2
  <1> QED BY <1>1, <1>2 DEF Typed, Mux!ReadNext, Mux!files, Mux!network, Mux!receiving, Mux!schedule

LEMMA TypedEnqueue ==
    ASSUME MuxBounds
    PROVE  Typed /\ (\E c \in Channels : Mux!Enqueue(c)) => Typed'
  <1> SUFFICES ASSUME Typed, NEW c \in Channels, Mux!Enqueue(c) PROVE Typed'
    OBVIOUS
  <1>1. queue[c] \in Seq(Piece) /\ hand \in Piece
    BY DEF Typed
  <1>2. Append(queue[c], hand) \in Seq(Piece)
    BY <1>1
  <1>3. queue' \in [Channels -> Seq(Piece)]
    BY <1>2 DEF Typed, Mux!Enqueue
  <1> QED BY <1>3, FrameTypes DEF Typed, Mux!Enqueue, Mux!files, Mux!network, Mux!receiving

LEMMA TypedThread ==
    ASSUME MuxBounds
    PROVE  Typed /\ (Mux!AcceptThrows \/ Mux!EnqueueThrows \/ Mux!Join \/ Mux!ReadAck \/ Mux!SendThrows) => Typed'
  <1> SUFFICES ASSUME Typed, Mux!AcceptThrows \/ Mux!EnqueueThrows \/ Mux!Join \/ Mux!ReadAck \/ Mux!SendThrows
               PROVE  Typed'
    OBVIOUS
  <1>1. hand' \in Piece /\ finishing' \in BOOLEAN /\ cut' \in [Channels -> BOOLEAN]
    BY OnTypes, FrameTypes DEF Typed, Mux!AcceptThrows, Mux!EnqueueThrows, Mux!Join, Mux!ReadAck, Mux!SendThrows,
       Mux!network
  <1>2. UNCHANGED <<source, entry, accepted, have, prefix, digest, part, queue, item, worker, wire, reader, error,
                    failed>>
    BY DEF Mux!AcceptThrows, Mux!EnqueueThrows, Mux!Join, Mux!ReadAck, Mux!SendThrows, Mux!files, Mux!schedule,
       Mux!network, Mux!receiving
  <1> QED BY <1>1, <1>2 DEF Typed

\* A frame is put on the wire.
LEMMA WireGrows ==
    ASSUME Typed, NEW c \in Channels, NEW f \in Frames, wire' = [wire EXCEPT ![c] = Append(@, f)]
    PROVE  /\ wire' \in [Channels -> Seq(Frames)] /\ wire[c] \in Seq(Frames)
           /\ wire'[c] = Append(wire[c], f) /\ \A d \in Channels : d # c => wire'[d] = wire[d]
  <1>1. wire[c] \in Seq(Frames)
    BY DEF Typed
  <1>2. Append(wire[c], f) \in Seq(Frames)
    BY <1>1
  <1> QED BY <1>1, <1>2 DEF Typed

LEMMA TypedSendTrailer ==
    ASSUME MuxBounds
    PROVE  Typed /\ Mux!SendTrailer => Typed'
  <1> SUFFICES ASSUME Typed, Mux!SendTrailer PROVE Typed'
    OBVIOUS
  <1>1. wire' \in [Channels -> Seq(Frames)]
    BY WireGrows, FrameTypes, OnTypes DEF Mux!SendTrailer
  <1> QED BY <1>1 DEF Typed, Mux!SendTrailer, Mux!files, Mux!schedule, Mux!receiving

\* What the workers do.
LEMMA TypedTake ==
    ASSUME Typed, NEW c \in Channels, Mux!Take(c)
    PROVE  /\ Typed' /\ queue[c] \in Seq(Piece) /\ queue[c] # << >>
           /\ item'[c] = Head(queue[c]) /\ queue'[c] = Tail(queue[c]) /\ worker'[c] = "send"
           /\ \A d \in Channels : d # c => item'[d] = item[d] /\ queue'[d] = queue[d] /\ worker'[d] = worker[d]
  <1>1. queue[c] \in Seq(Piece) /\ queue[c] # << >>
    BY DEF Typed, Mux!Take
  <1>2. Head(queue[c]) \in Piece /\ Tail(queue[c]) \in Seq(Piece)
    BY <1>1, SeqItems
  <1>3. /\ item' \in [Channels -> Piece] /\ queue' \in [Channels -> Seq(Piece)]
        /\ worker' \in [Channels -> {"none", "wait", "send", "account", "end", "gone"}]
    BY <1>2 DEF Typed, Mux!Take
  <1>4. Typed'
    BY <1>3 DEF Typed, Mux!Take, Mux!files, Mux!sending, Mux!network, Mux!receiving
  <1> QED BY <1>1, <1>4 DEF Typed, Mux!Take

LEMMA TypedPuts ==
    ASSUME MuxBounds, Typed, NEW c \in Channels, Mux!SendData(c) \/ Mux!SendChunkEnd(c)
    PROVE  Typed'
  <1>1. PICK f \in Frames : Mux!Put(c, f)
    BY FrameTypes DEF Mux!SendData, Mux!SendChunkEnd, Typed
  <1>2. wire' \in [Channels -> Seq(Frames)]
    <2>1. wire \in [Channels -> Seq(Frames)]
      BY DEF Typed
    <2> QED BY <1>1, <2>1, WireGrows DEF Mux!Put
  <1>3. worker' \in [Channels -> {"none", "wait", "send", "account", "end", "gone"}]
    BY DEF Typed, Mux!SendData, Mux!SendChunkEnd
  <1> QED BY <1>2, <1>3 DEF Typed, Mux!SendData, Mux!SendChunkEnd, Mux!files, Mux!sending, Mux!receiving

LEMMA TypedWorker ==
    ASSUME MuxBounds, Typed, NEW c \in Channels,
           Mux!Account(c) \/ Mux!LeaveLoop(c) \/ Mux!WorkerQuits(c) \/ Mux!WorkerFails(c)
    PROVE  Typed'
  <1>1. worker' \in [Channels -> {"none", "wait", "send", "account", "end", "gone"}] /\ item' \in [Channels -> Piece]
    <2>1. worker \in [Channels -> {"none", "wait", "send", "account", "end", "gone"}] /\ item \in [Channels -> Piece]
      BY DEF Typed
    <2>2. \E w \in {"wait", "end", "gone"} : worker' = [worker EXCEPT ![c] = w]
      BY DEF Mux!Account, Mux!LeaveLoop, Mux!WorkerQuits, Mux!WorkerFails
    <2>3. item' = item \/ item' = [item EXCEPT ![c] = Mux!NoChunk]
      BY DEF Mux!Account, Mux!LeaveLoop, Mux!WorkerQuits, Mux!WorkerFails
    <2> QED BY <2>1, <2>2, <2>3, FrameTypes
  <1>2. cut' \in [Channels -> BOOLEAN] /\ error' \in BOOLEAN
    BY OnTypes DEF Typed, Mux!Account, Mux!LeaveLoop, Mux!WorkerQuits, Mux!WorkerFails, Mux!network
  <1>3. UNCHANGED <<source, entry, accepted, have, prefix, digest, part, queue, wire, reader, failed, hand, finishing>>
    BY DEF Mux!Account, Mux!LeaveLoop, Mux!WorkerQuits, Mux!WorkerFails, Mux!files, Mux!sending, Mux!network,
       Mux!receiving
  <1> QED BY <1>1, <1>2, <1>3 DEF Typed

\* What the readers do.
LEMMA ReadFacts ==
    ASSUME Typed, NEW c \in Channels, NEW tag, Mux!Reads(c, tag)
    PROVE  /\ wire' \in [Channels -> Seq(Frames)] /\ wire[c] \in Seq(Frames) /\ wire[c] # << >>
           /\ Head(wire[c]) \in Frames /\ Head(wire[c]).tag = tag /\ wire'[c] = Tail(wire[c])
           /\ Items(wire[c]) = Items(wire'[c]) \cup {Head(wire[c])}
           /\ \A d \in Channels : d # c => wire'[d] = wire[d]
           /\ rcv = "receive" /\ reader[c]
  <1>1. wire[c] \in Seq(Frames) /\ wire[c] # << >> /\ wire \in [Channels -> Seq(Frames)]
    BY DEF Typed, Mux!Reads
  <1>2. /\ Head(wire[c]) \in Frames /\ Tail(wire[c]) \in Seq(Frames)
        /\ Items(wire[c]) = Items(Tail(wire[c])) \cup {Head(wire[c])}
    BY <1>1, SeqItems
  <1>3. wire' = [wire EXCEPT ![c] = Tail(@)]
    BY DEF Mux!Reads
  <1>4. /\ wire' \in [Channels -> Seq(Frames)] /\ wire'[c] = Tail(wire[c])
        /\ \A d \in Channels : d # c => wire'[d] = wire[d]
    BY <1>1, <1>2, <1>3
  <1> QED BY <1>1, <1>2, <1>4 DEF Mux!Reads

LEMMA WriteFacts ==
    ASSUME MuxBounds, Typed, Reaching, NEW c \in Channels, Mux!WriteChunk(c)
    PROVE  LET k == Head(wire[c]).chunk
           IN  /\ Typed' /\ Reaching' /\ k \in Piece /\ k.at > have /\ k.at <= entry.length /\ Head(wire[c]) = Mux!Data(k)
               /\ part' = Mux!Written(k) /\ rcv = "receive"
  <1> DEFINE k == Head(wire[c]).chunk
  <1>1. /\ Mux!Reads(c, "data") /\ Mux!Acceptable(k) /\ part' = Mux!Written(k) /\ Mux!record_written_range(k)
        /\ UNCHANGED <<source, entry, accepted, snd, digest, hand, finishing, queue, pending, worker, item, error, cut,
                       rcv, have, reader, failed, target>>
    BY DEF Mux!WriteChunk, Mux!files, Mux!sending, Mux!schedule
  <1>2. wire' \in [Channels -> Seq(Frames)] /\ k \in Piece /\ Head(wire[c]) = Mux!Data(k) /\ rcv = "receive"
    BY <1>1, ReadFacts, FrameTypes
  <1> HIDE DEF k
  <1>3. k.at > have /\ k.at <= entry.length /\ k.at \in Nat /\ have \in Nat
    BY <1>1, <1>2 DEF Mux!Acceptable, Typed, Piece
  <1>4. /\ part' \in Seq(Mux!Contents) /\ Len(part) \in Nat /\ Len(part) <= Len(part') /\ k.at <= Len(part')
        /\ Len(part') \in Nat
    BY <1>1, <1>2, <1>3, WrittenFacts DEF Typed
  <1>5. prefix <= Len(part) /\ early \subseteq 1..Len(part) /\ prefix \in Nat
    BY <1>2 DEF Reaching, Typed
  <1>6. prefix' \in Nat /\ prefix' <= Len(part') /\ early' \subseteq 1..Len(part')
    <2>1. CASE k.at <= prefix
      <3>1. UNCHANGED <<prefix, early>>
        BY <1>1, <2>1 DEF Mux!record_written_range
      <3> QED BY <1>4, <1>5, <3>1
    <2>2. CASE ~(k.at <= prefix)
      <3>1. prefix' = Mux!Absorbed(early \cup {k.at}) /\ early' \subseteq early \cup {k.at}
        BY <1>1, <2>2 DEF Mux!record_written_range
      <3>5. k.at \in 1..Len(part')
        BY <1>3, <1>4
      <3>6. \A i \in 1..Len(part) : i \in 1..Len(part')
        BY <1>4
      <3>2. early \cup {k.at} \subseteq 1..Len(part')
        BY <1>5, <3>5, <3>6
      <3>3. prefix <= Len(part')
        BY <1>4, <1>5
      <3>4. prefix' \in Nat /\ prefix' <= Len(part')
        BY <1>4, <1>5, <3>1, <3>2, <3>3, AbsorbedFacts
      <3> QED BY <3>1, <3>2, <3>4
    <2> QED BY <2>1, <2>2
  <1>7. Typed'
    BY <1>1, <1>2, <1>4, <1>6 DEF Typed
  <1>8. Reaching'
    <2>1. have <= Len(part')
      BY <1>2, <1>3, <1>4 DEF Reaching
    <2> QED BY <1>1, <1>2, <1>6, <2>1 DEF Reaching, Begun
  <1> QED BY <1>1, <1>2, <1>3, <1>7, <1>8 DEF k

LEMMA ReaderTyped ==
    ASSUME MuxBounds, Typed, Reaching, NEW c \in Channels, Mux!ReaderStep(c)
    PROVE  Typed' /\ Reaching'
  <1>1. CASE Mux!WriteChunk(c)
    BY <1>1, WriteFacts
  <1>2. CASE Mux!ReadChunkEnd(c) \/ Mux!RefuseChunk(c) \/ Mux!ChannelLost(c)
    <2>1. wire' \in [Channels -> Seq(Frames)]
      BY <1>2, ReadFacts DEF Mux!ReadChunkEnd, Mux!RefuseChunk, Mux!ChannelLost, Typed
    <2>2. UNCHANGED <<source, entry, accepted, snd, digest, hand, finishing, queue, worker, item, error, rcv, have,
                      prefix, early, part>>
      BY <1>2 DEF Mux!ReadChunkEnd, Mux!RefuseChunk, Mux!ChannelLost, Mux!ReaderFails, Mux!files, Mux!sending,
         Mux!schedule
    <2>3. failed' \in BOOLEAN /\ reader' \in [Channels -> BOOLEAN] /\ cut' \in [Channels -> BOOLEAN]
      BY <1>2, OnTypes DEF Mux!ReadChunkEnd, Mux!RefuseChunk, Mux!ChannelLost, Mux!ReaderFails, Typed
    <2>4. Typed'
      BY <2>1, <2>2, <2>3 DEF Typed
    <2> QED BY <2>2, <2>4 DEF Reaching, Begun
  <1> QED BY <1>1, <1>2 DEF Mux!ReaderStep

\* What the receiving thread does.
LEMMA TypedOffer == Typed /\ Reaching /\ Order /\ Mux!Offer => Typed' /\ Reaching'
  <1> SUFFICES ASSUME Typed, Reaching, Order, Mux!Offer PROVE Typed' /\ Reaching'
    OBVIOUS
  <1>1. /\ have' \in Nat /\ have' <= Len(part) /\ UNCHANGED part /\ rcv' = "resume_ack" /\ rcv = "header"
        /\ UNCHANGED worker
    BY DEF Mux!Offer, Mux!ResumablePart, Typed, Mux!schedule
  <1>2. ~Begun'
    BY <1>1 DEF Order, Begun
  <1>3. Typed'
    BY <1>1 DEF Typed, Mux!Offer, Mux!files, Mux!sending, Mux!schedule, Mux!network
  <1> QED BY <1>1, <1>2, <1>3 DEF Reaching

LEMMA StartFacts ==
    ASSUME MuxBounds, Typed, Reaching, Mux!StartReceive
    PROVE  /\ Typed' /\ Reaching' /\ Begun /\ rcv = "resume_ack" /\ rcv' = "receive" /\ accepted <= Len(part)
           /\ Len(part') = accepted /\ \A i \in 1..accepted : part'[i] = part[i]
  <1>1. /\ rcv = "resume_ack" /\ Begun /\ rcv' = "receive" /\ have' = accepted /\ prefix' = accepted /\ early' = {}
        /\ part' = SubSeq(part, 1, accepted) /\ reader' = Mux!On(TRUE)
        /\ UNCHANGED <<source, entry, accepted, snd, digest, hand, finishing, queue, worker, item, error, wire, cut,
                       failed>>
    BY DEF Mux!StartReceive, Begun, Mux!files, Mux!sending, Mux!schedule, Mux!network
  <1>2. accepted \in Nat /\ accepted <= Len(part) /\ part \in Seq(Mux!Contents) /\ Len(part) \in Nat
    BY <1>1 DEF Reaching, Typed
  <1>3. part' \in Seq(Mux!Contents) /\ Len(part') = accepted /\ \A i \in 1..accepted : part'[i] = part[i]
    BY <1>1, <1>2
  <1>4. Typed'
    BY <1>1, <1>2, <1>3, OnTypes DEF Typed
  <1>5. Reaching'
    BY <1>1, <1>2, <1>3 DEF Reaching, Begun
  <1> QED BY <1>1, <1>2, <1>3, <1>4, <1>5

LEMMA TypedReceiver ==
    ASSUME MuxBounds
    PROVE  Typed /\ Reaching /\ (Mux!ReceiveReturns \/ Mux!ReceiveThrows \/ Mux!Complete \/ Mux!ReceiverThrows) =>
              Typed' /\ Reaching'
  <1> SUFFICES ASSUME Typed, Reaching, Mux!ReceiveReturns \/ Mux!ReceiveThrows \/ Mux!Complete \/ Mux!ReceiverThrows
               PROVE  Typed' /\ Reaching'
    OBVIOUS
  <1>1. UNCHANGED <<source, entry, accepted, snd, digest, hand, finishing, queue, worker, item, error, have, reader,
                    failed, prefix, early>>
    BY DEF Mux!ReceiveReturns, Mux!ReceiveThrows, Mux!Complete, Mux!ReceiverThrows, Mux!files, Mux!sending, Mux!schedule
  <1>2. CASE Mux!ReceiveReturns
    <2>1. UNCHANGED <<part, wire, cut>> /\ rcv = "receive" /\ rcv' = "trailer"
      BY <1>2 DEF Mux!ReceiveReturns, Mux!network
    <2>2. Typed'
      BY <1>1, <2>1 DEF Typed
    <2> QED BY <1>1, <2>1, <2>2 DEF Reaching, Begun
  <1>3. CASE Mux!ReceiveThrows
    <2>1. UNCHANGED <<wire, cut>> /\ rcv = "receive" /\ rcv' = "failed" /\ (part' = SubSeq(part, 1,
                      prefix) \/ UNCHANGED part)
      BY <1>3 DEF Mux!ReceiveThrows, Mux!network, Mux!truncate_partial
    <2>2. part \in Seq(Mux!Contents) /\ prefix \in Nat /\ prefix <= Len(part) /\ Len(part) \in Nat
      BY <2>1 DEF Reaching, Typed
    <2>3. SubSeq(part, 1, prefix) \in Seq(Mux!Contents)
      BY <2>2
    <2>4. Typed'
      BY <1>1, <2>1, <2>2, <2>3 DEF Typed
    <2> QED BY <2>1, <2>4 DEF Reaching
  <1>4. CASE Mux!Complete
    <2>1. /\ wire[0] # << >> /\ wire' = [wire EXCEPT ![0] = Tail(@)] /\ part' = << >>
          /\ (cut' = cut \/ cut' = Mux!AllCut) /\ rcv' \in {"done", "corrupt"}
      BY <1>4 DEF Mux!Complete
    <2>2. rcv' \in {"done", "corrupt"} /\ cut' \in [Channels -> BOOLEAN]
      BY <1>4, OnTypes DEF Mux!Complete, Typed
    <2>3. wire[0] \in Seq(Frames) /\ wire \in [Channels -> Seq(Frames)]
      BY OnTypes DEF Typed
    <2>4. Tail(wire[0]) \in Seq(Frames)
      BY <2>1, <2>3, SeqItems
    <2>5. wire' \in [Channels -> Seq(Frames)]
      BY <2>1, <2>3, <2>4
    <2>6. << >> \in Seq(Mux!Contents)
      OBVIOUS
    <2>7. Typed'
      BY <1>1, <2>1, <2>2, <2>5, <2>6 DEF Typed
    <2> QED BY <2>2, <2>7 DEF Reaching
  <1>5. CASE Mux!ReceiverThrows
    <2>1. UNCHANGED <<part, wire>> /\ rcv' = "failed" /\ cut' = Mux!AllCut
      BY <1>5 DEF Mux!ReceiverThrows
    <2>2. Typed'
      BY <1>1, <2>1, OnTypes DEF Typed
    <2> QED BY <2>1, <2>2 DEF Reaching
  <1> QED BY <1>2, <1>3, <1>4, <1>5

\* What happens to the two sides.
LEMMA TypedCrash ==
    ASSUME MuxBounds
    PROVE  Typed /\ Reaching /\ Mux!Crash => Typed' /\ Reaching'
  <1> SUFFICES ASSUME Typed, Reaching, Mux!Crash PROVE Typed' /\ Reaching'
    OBVIOUS
  <1>1. /\ rcv \in {"receive", "trailer"} /\ rcv' = "failed" /\ cut' = Mux!AllCut /\ reader' = Mux!On(FALSE)
        /\ UNCHANGED <<source, entry, accepted, snd, digest, hand, finishing, queue, worker, item, error, wire, have,
                       failed, prefix>>
    BY DEF Mux!Crash, Mux!files, Mux!sending, Mux!schedule
  <1>2. PICK kept \in SUBSET ((have + 1)..Len(part)) :
          part' = [i \in 1..Mux!Max({have} \cup kept) |-> IF i <= have \/ i \in kept THEN part[i] ELSE Mux!Hole]
    BY DEF Mux!Crash
  <1>3. part \in Seq(Mux!Contents) /\ have \in Nat /\ have <= Len(part) /\ Len(part) \in Nat
    BY <1>1 DEF Reaching, Typed
  <1>4. PICK m : m = Mux!Max({have} \cup kept)
    OBVIOUS
  <1>5. m \in Nat /\ m <= Len(part)
    <2> DEFINE S == {have} \cup kept
    <2>1. S \in SUBSET Nat /\ S # {} /\ \A n \in S : n <= Len(part)
      BY <1>3
    <2>2. Mux!Max(S) \in S
      BY <1>3, <2>1, Greatest
    <2> QED BY <1>4, <2>1, <2>2
  <1>6. \A i \in 1..m : (IF i <= have \/ i \in kept THEN part[i] ELSE Mux!Hole) \in Mux!Contents
    <2>1. \A i \in 1..m : part[i] \in Mux!Contents
      BY <1>3, <1>5
    <2> QED BY <2>1, ContentFacts
  <1>7. part' \in Seq(Mux!Contents)
    <2> DEFINE e(i) == IF i <= have \/ i \in kept THEN part[i] ELSE Mux!Hole
    <2>1. part' = [i \in 1..m |-> e(i)] /\ \A i \in 1..m : e(i) \in Mux!Contents
      BY <1>2, <1>4, <1>6
    <2> HIDE DEF e
    <2> QED BY <1>5, <2>1
  <1>8. Typed'
    BY <1>1, <1>7, OnTypes DEF Typed
  <1> QED BY <1>1, <1>8 DEF Reaching

LEMMA TypedOthers ==
    ASSUME MuxBounds
    PROVE  Typed /\ Reaching /\ ((\E c \in Channels : Mux!Break(c)) \/ Mux!Edit \/ Mux!Retry \/ UNCHANGED Mux!vars) =>
              Typed' /\ Reaching'
  <1> SUFFICES ASSUME Typed, Reaching, (\E c \in Channels : Mux!Break(c)) \/ Mux!Edit \/ Mux!Retry \/ UNCHANGED Mux!vars
               PROVE  Typed' /\ Reaching'
    OBVIOUS
  <1>1. CASE \E c \in Channels : Mux!Break(c)
    <2>1. /\ cut' \in [Channels -> BOOLEAN]
          /\ UNCHANGED <<source, entry, accepted, snd, digest, hand, finishing, queue, worker, item, error, wire,
                         Mux!receiving>>
      BY <1>1 DEF Mux!Break, Typed, Mux!files, Mux!sending, Mux!schedule
    <2>2. Typed'
      BY <2>1 DEF Typed, Mux!receiving
    <2> QED BY <2>1, <2>2 DEF Reaching, Begun, Mux!receiving
  <1>2. CASE Mux!Edit
    <2>1. UNCHANGED <<entry, accepted, snd, digest, hand, finishing, queue, worker, item, error, wire, cut,
                      Mux!receiving>>
      BY <1>2 DEF Mux!Edit, Mux!sending, Mux!schedule, Mux!network
    <2>2. PICK n \in Lengths : source' = [version |-> source.version + 1, length |-> n] /\ source.version <= MaxEdits
      BY <1>2 DEF Mux!Edit
    <2>6. source.version + 1 \in 1..(MaxEdits + 1)
      BY <2>2, FileFacts DEF MuxBounds
    <2>3. source' \in [version : 1..(MaxEdits + 1), length : Lengths] /\ source'.version = source.version + 1
          /\ source.version \in Nat /\ entry.version \in Nat /\ entry.version <= source.version
      BY <2>2, <2>6, FileFacts
    <2>4. entry'.version <= source'.version /\ entry'.version # source'.version
      BY <2>1, <2>3
    <2>5. Typed'
      BY <2>1, <2>3, <2>4 DEF Typed, Mux!receiving
    <2> QED BY <2>1, <2>5 DEF Reaching, Begun, Mux!receiving
  <1>3. CASE Mux!Retry
    <2>1. worker' \in [Channels -> {"none", "wait", "send", "account", "end", "gone"}]
      BY <1>3 DEF Mux!Retry, Mux!On
    <2>2. /\ entry' = source /\ digest' = << >> /\ hand' = Mux!NoChunk /\ finishing' = FALSE
          /\ queue' = Mux!On(<< >>) /\ item' = Mux!On(Mux!NoChunk) /\ error' = FALSE /\ wire' = Mux!On(<< >>)
          /\ cut' = Mux!On(FALSE)
          /\ rcv' = "header" /\ have' = 0 /\ reader' = Mux!On(FALSE) /\ failed' = FALSE
          /\ UNCHANGED <<source, accepted, prefix, part>>
      BY <1>3 DEF Mux!Retry
    <2>3. << >> \in Seq(Mux!Contents)
      OBVIOUS
    <2>4. source' \in [version : 1..(MaxEdits + 1), length : Lengths] /\ source.version <= source.version
      BY <2>2, FileFacts DEF Typed
    <2>5. Typed'
      BY <2>1, <2>2, <2>3, <2>4, OnTypes, FrameTypes DEF Typed
    <2> QED BY <2>2, <2>5 DEF Reaching
  <1>4. CASE UNCHANGED Mux!vars
    BY <1>4 DEF Mux!vars, Mux!files, Mux!sending, Mux!schedule, Mux!network, Mux!receiving, Mux!history, Typed,
       Reaching, Begun
  <1> QED BY <1>1, <1>2, <1>3, <1>4

LEMMA WorkerMoves ==
    ASSUME MuxBounds, Typed, NEW c \in Channels, Mux!WorkerStep(c)
    PROVE  /\ worker[c] \notin {"none", "gone"} /\ worker'[c] # "none"
           /\ \A d \in Channels : d # c => worker'[d] = worker[d]
           /\ Begun' <=> Begun
           /\ UNCHANGED <<source, entry, accepted, snd, digest, hand, finishing, Mux!receiving>>
  <1>1. worker[c] \notin {"none", "gone"} /\ UNCHANGED <<source, entry, accepted, snd, digest, hand, finishing,
                                                         Mux!receiving>>
    BY DEF Mux!WorkerStep, Mux!Take, Mux!SendData, Mux!Account, Mux!LeaveLoop, Mux!SendChunkEnd, Mux!WorkerQuits,
       Mux!WorkerFails, Mux!files, Mux!sending
  <1>2. PICK w \in {"wait", "send", "account", "end", "gone"} : worker' = [worker EXCEPT ![c] = w]
    BY DEF Mux!WorkerStep, Mux!Take, Mux!SendData, Mux!Account, Mux!LeaveLoop, Mux!SendChunkEnd, Mux!WorkerQuits,
       Mux!WorkerFails
  <1>3. worker'[c] = w /\ \A d \in Channels : d # c => worker'[d] = worker[d]
    BY <1>2 DEF Typed
  <1> QED BY <1>1, <1>3, OnTypes DEF Begun

LEMMA SenderTyped ==
    ASSUME MuxBounds
    PROVE  Typed /\ Reaching /\ Mux!SenderStep => Typed' /\ Reaching'
  <1> SUFFICES ASSUME Typed, Reaching, Mux!SenderStep PROVE Typed' /\ Reaching'
    OBVIOUS
  <1>1. Typed'
    BY TypedAccept, TypedReadNext, TypedEnqueue, TypedThread, TypedSendTrailer DEF Mux!SenderStep
  <1>2. CASE Mux!Accept
    BY <1>1, <1>2 DEF Mux!Accept, Reaching, Mux!receiving
  <1>3. CASE ~Mux!Accept
    <2>1. UNCHANGED <<accepted, worker, Mux!receiving>>
      BY <1>3 DEF Mux!SenderStep, Mux!AcceptThrows, Mux!ReadNext, Mux!Enqueue, Mux!EnqueueThrows, Mux!Join,
         Mux!SendTrailer, Mux!ReadAck, Mux!SendThrows, Mux!schedule
    <2> QED BY <1>1, <2>1 DEF Reaching, Begun, Mux!receiving
  <1> QED BY <1>2, <1>3

LEMMA WorkerTyped == ASSUME MuxBounds, Typed, Reaching, NEW c \in Channels, Mux!WorkerStep(c) PROVE Typed' /\ Reaching'
  <1>1. Typed'
    BY TypedTake, TypedPuts, TypedWorker DEF Mux!WorkerStep
  <1>2. (Begun' <=> Begun) /\ UNCHANGED <<accepted, Mux!receiving>>
    BY WorkerMoves
  <1> QED BY <1>1, <1>2 DEF Reaching, Mux!receiving

LEMMA NextTyped ==
    ASSUME MuxBounds
    PROVE  Typed /\ Reaching /\ Order /\ [Mux!Next]_Mux!vars => Typed' /\ Reaching'
  <1> SUFFICES ASSUME Typed, Reaching, Order, [Mux!Next]_Mux!vars PROVE Typed' /\ Reaching'
    OBVIOUS
  <1> QED BY SenderTyped, WorkerTyped, ReaderTyped, TypedOffer, StartFacts, TypedReceiver, TypedCrash, TypedOthers
          DEF Mux!Next, Mux!ReceiverStep

-----------------------------------------------------------------------------
(* Order.                                                                  *)

LEMMA OrderSender ==
    ASSUME MuxBounds
    PROVE  Typed /\ Order /\ Mux!SenderStep => Order'
  <1> SUFFICES ASSUME Typed, Order, Mux!SenderStep PROVE Order'
    OBVIOUS
  <1>1. UNCHANGED <<error, rcv, failed, reader>>
    BY DEF Mux!SenderStep, Mux!Accept, Mux!AcceptThrows, Mux!ReadNext, Mux!Enqueue, Mux!EnqueueThrows, Mux!Join,
       Mux!SendTrailer, Mux!ReadAck, Mux!SendThrows,
           Mux!schedule, Mux!receiving
  <1>2. CASE Mux!Accept
    <2>1. /\ snd = "resume" /\ snd' = "read" /\ rcv = "resume_ack" /\ worker' = Mux!On("wait") /\ UNCHANGED finishing
      BY <1>2 DEF Mux!Accept
    <2>2. \A c \in Channels : worker'[c] = "wait"
      BY <2>1, OnTypes
    <2> QED BY <1>1, <2>1, <2>2, OnTypes DEF Order, Begun
  <1>3. CASE Mux!AcceptThrows \/ Mux!SendThrows
    <2>1. snd' = "failed" /\ UNCHANGED <<worker, queue, wire, finishing>>
      BY <1>3 DEF Mux!AcceptThrows, Mux!SendThrows, Mux!schedule
    <2> QED BY <1>1, <2>1 DEF Order, Begun
  <1>4. CASE Mux!ReadNext \/ Mux!EnqueueThrows \/ Mux!Join \/ Mux!ReadAck
    <2>1. /\ snd \in {"read", "enqueue", "join", "ack"} /\ snd' \notin {"resume", "read"} /\ UNCHANGED <<worker,
                                                                                                         queue, wire>>
      BY <1>4 DEF Mux!ReadNext, Mux!EnqueueThrows, Mux!Join, Mux!ReadAck, Mux!schedule, Mux!network
    <2>2. \/ snd' = "enqueue" /\ snd = "read" /\ ~finishing'
          \/ finishing' /\ snd' \in {"join", "failed", "trailer", "done"}
          \/ UNCHANGED finishing /\ snd' \in {"join", "failed", "trailer", "done"}
      BY <1>4 DEF Mux!ReadNext, Mux!EnqueueThrows, Mux!Join, Mux!ReadAck, Order
    <2>3. snd' \in {"trailer", "done"} => ~error /\ \A c \in Channels : worker[c] = "gone"
      BY <1>4 DEF Mux!ReadNext, Mux!EnqueueThrows, Mux!Join, Mux!ReadAck, Order
    <2>4. Begun
      BY <2>1 DEF Order
    <2>5. finishing => finishing'
      BY <1>4 DEF Mux!ReadNext, Mux!EnqueueThrows, Mux!Join, Mux!ReadAck, Order
    <2> QED BY <1>1, <2>1, <2>2, <2>3, <2>4, <2>5 DEF Order, Begun
  <1>5. CASE \E c \in Channels : Mux!Enqueue(c)
    <2>1. PICK c \in Channels : Mux!Enqueue(c)
      BY <1>5
    <2>2. snd = "enqueue" /\ snd' = "read" /\ UNCHANGED <<finishing, worker, wire>> /\ ~error
      BY <2>1 DEF Mux!Enqueue, Mux!network
    <2>3. \A d \in Channels : d # c => queue'[d] = queue[d]
      BY <2>1 DEF Mux!Enqueue, Typed
    <2>4. ~finishing /\ Begun
      BY <2>2 DEF Order
    <2>5. \A d \in Channels : worker[d] \notin {"end", "gone"}
      BY <2>2, <2>4 DEF Order
    <2> QED BY <1>1, <2>2, <2>3, <2>4, <2>5 DEF Order, Begun
  <1>6. CASE Mux!SendTrailer
    <2>1. snd = "trailer" /\ snd' = "ack" /\ UNCHANGED <<finishing, worker, queue>>
      BY <1>6 DEF Mux!SendTrailer, Mux!schedule
    <2>2. Begun
      BY <2>1 DEF Order
    <2> QED BY <1>1, <2>1, <2>2 DEF Order, Begun
  <1> QED BY <1>2, <1>3, <1>4, <1>5, <1>6 DEF Mux!SenderStep

LEMMA OrderWorker == ASSUME MuxBounds, Typed, Order, NEW c \in Channels, Mux!WorkerStep(c) PROVE Order'
  <1>1. /\ worker[c] \notin {"none", "gone"} /\ worker'[c] # "none"
        /\ \A d \in Channels : d # c => worker'[d] = worker[d]
        /\ (Begun' <=> Begun) /\ UNCHANGED <<snd, finishing, rcv, failed, reader>>
    BY WorkerMoves DEF Mux!receiving
  <1>2. Begun /\ snd \notin {"trailer", "ack", "done"}
    BY <1>1 DEF Order
  <1>3. \A d \in Channels : d # c => queue'[d] = queue[d]
    BY DEF Mux!WorkerStep, Mux!Take, Mux!SendData, Mux!Account, Mux!LeaveLoop, Mux!SendChunkEnd, Mux!WorkerQuits,
       Mux!WorkerFails, Typed
  <1>4. error => error'
    BY DEF Mux!WorkerStep, Mux!Take, Mux!SendData, Mux!Account, Mux!LeaveLoop, Mux!SendChunkEnd, Mux!WorkerQuits,
       Mux!WorkerFails
  <1>5. worker'[c] \in {"end", "gone"} /\ ~error' => finishing /\ queue'[c] = << >>
    <2>1. worker \in [Channels -> {"none", "wait", "send", "account", "end", "gone"}]
      BY DEF Typed
    <2>2. CASE Mux!Take(c) \/ Mux!SendData(c) \/ Mux!Account(c)
      BY <2>1, <2>2 DEF Mux!Take, Mux!SendData, Mux!Account
    <2>3. CASE Mux!LeaveLoop(c)
      BY <2>1, <2>3 DEF Mux!LeaveLoop, Mux!Drained
    <2>4. CASE Mux!SendChunkEnd(c)
      BY <2>1, <2>4 DEF Mux!SendChunkEnd, Order
    <2>5. CASE Mux!WorkerQuits(c) \/ Mux!WorkerFails(c)
      BY <2>5 DEF Mux!WorkerQuits, Mux!WorkerFails
    <2> QED BY <2>2, <2>3, <2>4, <2>5 DEF Mux!WorkerStep
  <1>6. \A d \in Channels : worker'[d] # "none"
    BY <1>1, <1>2 DEF Order
  <1>7. \A d \in Channels : worker'[d] \in {"end", "gone"} /\ ~error' => finishing /\ queue'[d] = << >>
    <2> TAKE d \in Channels
    <2>1. CASE d = c
      BY <1>5, <2>1
    <2>2. CASE d # c
      BY <1>1, <1>3, <1>4, <2>2 DEF Order
    <2> QED BY <2>1, <2>2
  <1> QED BY <1>1, <1>2, <1>6, <1>7 DEF Order

LEMMA OrderReader == ASSUME Typed, Reaching, Order, NEW c \in Channels, Mux!ReaderStep(c) PROVE Order'
  <1>1. UNCHANGED <<snd, finishing, queue, worker, error, rcv>> /\ rcv = "receive"
    BY DEF Mux!ReaderStep, Mux!WriteChunk, Mux!ReadChunkEnd, Mux!RefuseChunk, Mux!ChannelLost, Mux!ReaderFails,
       Mux!Reads, Mux!sending, Mux!schedule
  <1>2. Begun
    BY <1>1 DEF Reaching
  <1> QED BY <1>1, <1>2 DEF Order, Begun

LEMMA OrderReceiver == Typed /\ Reaching /\ Order /\ Mux!ReceiverStep => Order'
  <1> SUFFICES ASSUME Typed, Reaching, Order, Mux!ReceiverStep PROVE Order'
    OBVIOUS
  <1>1. UNCHANGED <<snd, finishing, queue, worker, error>> /\ rcv' # "header"
    BY DEF Mux!ReceiverStep, Mux!Offer, Mux!StartReceive, Mux!ReceiveReturns, Mux!ReceiveThrows, Mux!Complete,
       Mux!ReceiverThrows, Mux!sending, Mux!schedule
  <1>2. rcv' = "trailer" => rcv = "receive" /\ Mux!Readers = {} /\ ~failed /\ UNCHANGED <<failed, reader>>
    BY DEF Mux!ReceiverStep, Mux!Offer, Mux!StartReceive, Mux!ReceiveReturns, Mux!ReceiveThrows, Mux!Complete,
       Mux!ReceiverThrows
  <1>3. rcv' = "trailer" => ~failed' /\ \A c \in Channels : ~reader'[c]
    BY <1>2 DEF Mux!Readers
  <1>4. UNCHANGED wire \/ Begun
    BY DEF Mux!ReceiverStep, Mux!Offer, Mux!StartReceive, Mux!ReceiveReturns, Mux!ReceiveThrows, Mux!Complete,
       Mux!ReceiverThrows, Mux!network, Reaching
  <1> QED BY <1>1, <1>3, <1>4 DEF Order, Begun

LEMMA OrderOthers ==
    ASSUME MuxBounds
    PROVE  /\ Typed /\ Reaching /\ Order
           /\ (\E c \in Channels : Mux!Break(c)) \/ Mux!Crash \/ Mux!Edit \/ Mux!Retry \/ UNCHANGED Mux!vars
           => Order'
  <1> SUFFICES ASSUME Typed, Reaching, Order,
                      (\E c \in Channels : Mux!Break(c)) \/ Mux!Crash \/ Mux!Edit \/ Mux!Retry \/ UNCHANGED Mux!vars
               PROVE  Order'
    OBVIOUS
  <1>1. CASE Mux!Retry
    <2>1. /\ snd' = "resume" /\ rcv' = "header" /\ finishing' = FALSE
          /\ worker' = Mux!On("none") /\ queue' = Mux!On(<< >>) /\ wire' = Mux!On(<< >>)
      BY <1>1 DEF Mux!Retry
    <2>2. \A c \in Channels : worker'[c] = "none" /\ queue'[c] = << >> /\ wire'[c] = << >>
      BY <2>1, OnTypes
    <2> QED BY <2>1, <2>2, OnTypes DEF Order, Begun
  <1>2. CASE Mux!Crash
    <2>1. UNCHANGED <<snd, finishing, queue, worker, error, wire>> /\ rcv' = "failed"
      BY <1>2 DEF Mux!Crash, Mux!sending, Mux!schedule
    <2> QED BY <2>1 DEF Order, Begun
  <1>3. CASE (\E c \in Channels : Mux!Break(c)) \/ Mux!Edit \/ UNCHANGED Mux!vars
    <2>1. UNCHANGED <<snd, finishing, queue, worker, error, wire, rcv, failed, reader>>
      BY <1>3 DEF Mux!Break, Mux!Edit, Mux!vars, Mux!sending, Mux!schedule, Mux!network, Mux!receiving
    <2> QED BY <2>1 DEF Order, Begun
  <1> QED BY <1>1, <1>2, <1>3

LEMMA InitOrder ==
    ASSUME MuxBounds
    PROVE  Mux!Init => Reaching /\ Order /\ Ends
  <1> SUFFICES ASSUME Mux!Init PROVE Reaching /\ Order /\ Ends
    OBVIOUS
  <1>1. /\ snd = "resume" /\ rcv = "header" /\ finishing = FALSE /\ worker = Mux!On("none")
        /\ queue = Mux!On(<< >>) /\ wire = Mux!On(<< >>)
    BY DEF Mux!Init
  <1>2. \A c \in Channels : worker[c] = "none" /\ queue[c] = << >> /\ wire[c] = << >>
    BY <1>1, OnTypes
  <1>3. Settled(<< >>) /\ \A tag : ~Has(<< >>, tag)
    BY DEF Settled, Has, Items
  <1>4. Ends
    BY <1>1, <1>2, <1>3 DEF Ends
  <1> QED BY <1>1, <1>2, <1>4, OnTypes DEF Reaching, Order, Begun

LEMMA NextOrder ==
    ASSUME MuxBounds
    PROVE  Typed /\ Reaching /\ Order /\ [Mux!Next]_Mux!vars => Order'
  BY OrderSender, OrderWorker, OrderReader, OrderReceiver, OrderOthers DEF Mux!Next

-----------------------------------------------------------------------------
(* Ends.                                                                   *)

LEMMA HasFacts ==
    ASSUME NEW s \in Seq(Frames)
    PROVE  /\ \A x \in Frames : \A tag : Has(Append(s, x), tag) <=> Has(s, tag) \/ x.tag = tag
           /\ s # << >> => \A tag : Has(Tail(s), tag) => Has(s, tag)
           /\ s # << >> => Has(s, Head(s).tag)
           /\ \A tag : ~Has(<< >>, tag)
  BY SeqItems DEF Has

\* The wires and the workers stay.
LEMMA EndsStay ==
    ASSUME Ends, UNCHANGED wire, \A c \in Channels : worker[c] = "gone" => worker'[c] = "gone",
           error' => error \/ \E c \in Channels : worker[c] # "gone",
           rcv' \in {"receive", "trailer"} /\ ~failed' =>
              \/ rcv \in {"receive", "trailer"} /\ ~failed /\ UNCHANGED reader
              \/ \A c \in Channels : reader'[c]
    PROVE  Ends'
  BY DEF Ends

\* A frame is put on the wire.
LEMMA EndsPut ==
    ASSUME Typed, Ends, NEW c \in Channels, NEW f \in Frames, wire' = [wire EXCEPT ![c] = Append(@, f)],
           \A d \in Channels : d # c => worker'[d] = worker[d],
           worker[c] = "gone" => worker'[c] = "gone",
           f.tag = "data" => worker[c] # "gone",
           f.tag = "chunk_end" => worker[c] # "gone" /\ worker'[c] = "gone",
           f.tag = "file_end" => ~error /\ (\A d \in Channels : worker[d] = "gone"),
           UNCHANGED <<error, rcv, failed, reader>>
    PROVE  Ends'
  <1>1. /\ wire[c] \in Seq(Frames) /\ wire'[c] = Append(wire[c], f) /\ \A d \in Channels : d # c => wire'[d] = wire[d]
    BY WireGrows
  <1>2. \A tag : Has(wire'[c], tag) <=> Has(wire[c], tag) \/ f.tag = tag
    BY <1>1, HasFacts
  <1>3. Settled(wire'[c])
    BY <1>1, SettledFacts DEF Ends
  <1>4. \A d \in Channels : worker[d] = "gone" => worker'[d] = "gone"
    OBVIOUS
  <1>5. ASSUME NEW d \in Channels
        PROVE  /\ Settled(wire'[d]) /\ (Has(wire'[d], "chunk_end") => worker'[d] = "gone")
               /\ Has(wire'[d], "file_end") => ~error' /\ \A e \in Channels : worker'[e] = "gone"
    <2>1. CASE d = c
      BY <1>2, <1>3, <1>4, <2>1 DEF Ends
    <2>2. CASE d # c
      BY <1>1, <1>4, <2>2 DEF Ends
    <2> QED BY <2>1, <2>2
  <1>6. ASSUME rcv' \in {"receive", "trailer"}, ~failed', NEW d \in Channels, ~reader'[d]
        PROVE  worker'[d] = "gone" /\ ~Has(wire'[d], "data")
    <2>1. worker[d] = "gone" /\ ~Has(wire[d], "data")
      BY <1>6 DEF Ends
    <2> QED BY <1>1, <1>2, <1>4, <2>1
  <1> QED BY <1>5, <1>6 DEF Ends

LEMMA EndsSender ==
    ASSUME MuxBounds
    PROVE  Typed /\ Order /\ Ends /\ Mux!SenderStep => Ends'
  <1> SUFFICES ASSUME Typed, Order, Ends, Mux!SenderStep PROVE Ends'
    OBVIOUS
  <1>1. UNCHANGED <<error, rcv, failed, reader>>
    BY DEF Mux!SenderStep, Mux!Accept, Mux!AcceptThrows, Mux!ReadNext, Mux!Enqueue, Mux!EnqueueThrows, Mux!Join,
       Mux!SendTrailer, Mux!ReadAck, Mux!SendThrows,
           Mux!schedule, Mux!receiving
  <1>2. CASE Mux!SendTrailer
    <2>1. wire' = [wire EXCEPT ![0] = Append(@, Mux!FileEnd)] /\ UNCHANGED worker /\ snd = "trailer"
      BY <1>2 DEF Mux!SendTrailer, Mux!schedule
    <2>2. ~error /\ \A d \in Channels : worker[d] = "gone"
      BY <2>1 DEF Order
    <2> QED BY <1>1, <2>1, <2>2, EndsPut, FrameTypes, OnTypes
  <1>3. CASE Mux!Accept
    <2>1. UNCHANGED wire /\ rcv = "resume_ack" /\ snd = "resume"
      BY <1>3 DEF Mux!Accept, Mux!network
    <2>2. \A c \in Channels : worker[c] = "none"
      BY <2>1 DEF Order
    <2> QED BY <1>1, <2>1, <2>2, EndsStay
  <1>4. CASE ~Mux!SendTrailer /\ ~Mux!Accept
    <2>1. UNCHANGED <<worker, wire>>
      BY <1>4 DEF Mux!SenderStep, Mux!AcceptThrows, Mux!ReadNext, Mux!Enqueue, Mux!EnqueueThrows, Mux!Join,
         Mux!ReadAck, Mux!SendThrows, Mux!schedule, Mux!network
    <2> QED BY <1>1, <2>1, EndsStay
  <1> QED BY <1>2, <1>3, <1>4

LEMMA EndsWorker == ASSUME MuxBounds, Typed, Ends, NEW c \in Channels, Mux!WorkerStep(c) PROVE Ends'
  <1>1. /\ worker[c] \notin {"none", "gone"} /\ \A d \in Channels : d # c => worker'[d] = worker[d]
        /\ UNCHANGED <<rcv, failed, reader>>
    BY WorkerMoves DEF Mux!receiving
  <1>2. CASE UNCHANGED wire
    BY <1>1, <1>2, EndsStay
  <1>3. CASE ~UNCHANGED wire
    <2>1. (Mux!SendData(c) \/ Mux!SendChunkEnd(c)) /\ UNCHANGED error
      BY <1>3 DEF Mux!WorkerStep, Mux!Take, Mux!SendData, Mux!Account, Mux!LeaveLoop, Mux!SendChunkEnd,
         Mux!WorkerQuits, Mux!WorkerFails, Mux!network
    <2>2. PICK f \in Frames : /\ Mux!Put(c, f) /\ f.tag \in {"data", "chunk_end"}
                              /\ f.tag = "chunk_end" => worker' = [worker EXCEPT ![c] = "gone"]
      BY <2>1, FrameTypes DEF Mux!SendData, Mux!SendChunkEnd, Typed
    <2>3. wire' = [wire EXCEPT ![c] = Append(@, f)]
      BY <1>3, <2>2 DEF Mux!Put
    <2>4. f.tag = "chunk_end" => worker'[c] = "gone"
      BY <2>2 DEF Typed
    <2> QED BY <1>1, <2>1, <2>2, <2>3, <2>4, EndsPut
  <1> QED BY <1>2, <1>3

LEMMA EndsReader == ASSUME Typed, Ends, NEW c \in Channels, Mux!ReaderStep(c) PROVE Ends'
  <1>1. UNCHANGED <<worker, error, rcv>> /\ rcv = "receive"
    BY DEF Mux!ReaderStep, Mux!WriteChunk, Mux!ReadChunkEnd, Mux!RefuseChunk, Mux!ChannelLost, Mux!ReaderFails,
       Mux!Reads, Mux!schedule
  <1>2. CASE Mux!ChannelLost(c)
    <2>1. UNCHANGED wire /\ failed'
      BY <1>2 DEF Mux!ChannelLost, Mux!ReaderFails
    <2> QED BY <1>1, <2>1, EndsStay
  <1>3. CASE ~Mux!ChannelLost(c)
    <2>1. PICK tag \in {"data", "chunk_end"} :
             Mux!Reads(c, tag) /\ (UNCHANGED <<failed,
                                               reader>> \/ failed' \/ (tag = "chunk_end" /\ Mux!ReadChunkEnd(c)))
      BY <1>3 DEF Mux!ReaderStep, Mux!WriteChunk, Mux!ReadChunkEnd, Mux!RefuseChunk, Mux!ReaderFails
    <2>2. /\ wire[c] \in Seq(Frames) /\ wire[c] # << >> /\ wire'[c] = Tail(wire[c])
          /\ Head(wire[c]).tag = tag /\ \A d \in Channels : d # c => wire'[d] = wire[d]
      BY <2>1, ReadFacts
    <2>3. \A t : Has(wire'[c], t) => Has(wire[c], t)
      BY <2>2, HasFacts
    <2>4. Settled(wire'[c]) /\ (tag = "chunk_end" => Has(wire[c], "chunk_end") /\ ~Has(wire'[c], "data"))
      BY <2>2, HasFacts, SettledFacts DEF Ends
    <2>5. ASSUME NEW d \in Channels
          PROVE  /\ Settled(wire'[d]) /\ (Has(wire'[d], "chunk_end") => worker'[d] = "gone")
                 /\ Has(wire'[d], "file_end") => ~error' /\ \A e \in Channels : worker'[e] = "gone"
      BY <1>1, <2>2, <2>3, <2>4 DEF Ends
    <2>6. ASSUME ~failed', NEW d \in Channels, ~reader'[d]
          PROVE  worker'[d] = "gone" /\ ~Has(wire'[d], "data")
      <3>1. CASE UNCHANGED <<failed, reader>>
        BY <1>1, <2>2, <2>3, <2>6, <3>1 DEF Ends
      <3>2. CASE tag = "chunk_end" /\ Mux!ReadChunkEnd(c)
        <4>1. reader' = [reader EXCEPT ![c] = FALSE] /\ UNCHANGED failed
          BY <3>2 DEF Mux!ReadChunkEnd
        <4>2. CASE d = c
          BY <1>1, <2>4, <3>2, <4>2 DEF Ends
        <4>3. CASE d # c
          <5>1. reader'[d] = reader[d]
            BY <4>1, <4>3 DEF Typed
          <5> QED BY <1>1, <2>2, <2>6, <4>1, <4>3, <5>1 DEF Ends
        <4> QED BY <4>2, <4>3
      <3> QED BY <2>1, <2>6, <3>1, <3>2
    <2> QED BY <2>5, <2>6 DEF Ends
  <1> QED BY <1>2, <1>3

LEMMA EndsReceiver ==
    ASSUME MuxBounds
    PROVE  Typed /\ Order /\ Ends /\ Mux!ReceiverStep => Ends'
  <1> SUFFICES ASSUME Typed, Order, Ends, Mux!ReceiverStep PROVE Ends'
    OBVIOUS
  <1>1. UNCHANGED <<worker, error, failed>>
    BY DEF Mux!ReceiverStep, Mux!Offer, Mux!StartReceive, Mux!ReceiveReturns, Mux!ReceiveThrows, Mux!Complete,
       Mux!ReceiverThrows, Mux!schedule
  <1>2. CASE Mux!StartReceive
    <2>1. reader' = Mux!On(TRUE) /\ UNCHANGED wire
      BY <1>2 DEF Mux!StartReceive, Mux!network
    <2>2. \A c \in Channels : reader'[c]
      BY <2>1 DEF Mux!On
    <2> QED BY <1>1, <2>1, <2>2, EndsStay
  <1>3. CASE Mux!ReceiveReturns
    BY <1>1, <1>3, EndsStay DEF Mux!ReceiveReturns, Mux!network
  <1>4. CASE Mux!Complete
    <2>1. /\ wire[0] # << >> /\ wire' = [wire EXCEPT ![0] = Tail(@)] /\ rcv' \notin {"receive", "trailer"}
      BY <1>4 DEF Mux!Complete
    <2>2. /\ 0 \in Channels /\ wire[0] \in Seq(Frames) /\ wire'[0] = Tail(wire[0])
          /\ \A d \in Channels : d # 0 => wire'[d] = wire[d]
      BY <2>1 DEF Typed, MuxBounds
    <2>3. \A t : Has(wire'[0], t) => Has(wire[0], t)
      BY <2>1, <2>2, HasFacts
    <2>4. Settled(wire'[0])
      BY <2>1, <2>2, SettledFacts DEF Ends
    <2>5. ASSUME NEW d \in Channels
          PROVE  /\ Settled(wire'[d]) /\ (Has(wire'[d], "chunk_end") => worker'[d] = "gone")
                 /\ Has(wire'[d], "file_end") => ~error' /\ \A e \in Channels : worker'[e] = "gone"
      BY <1>1, <2>2, <2>3, <2>4 DEF Ends
    <2> QED BY <2>1, <2>5 DEF Ends
  <1>5. CASE Mux!Offer \/ Mux!ReceiveThrows \/ Mux!ReceiverThrows
    <2>1. UNCHANGED wire /\ rcv' \notin {"receive", "trailer"}
      BY <1>5 DEF Mux!Offer, Mux!ReceiveThrows, Mux!ReceiverThrows, Mux!network
    <2> QED BY <1>1, <2>1, EndsStay
  <1> QED BY <1>2, <1>3, <1>4, <1>5 DEF Mux!ReceiverStep

LEMMA EndsOthers ==
    /\ Ends /\ (\E c \in Channels : Mux!Break(c)) => Ends'
    /\ Ends /\ (Mux!Crash \/ Mux!Edit \/ Mux!Retry \/ UNCHANGED Mux!vars) => Ends'
  <1>1. ASSUME Ends, NEW c \in Channels, Mux!Break(c) PROVE Ends'
    <2>1. UNCHANGED <<wire, worker, error, rcv, failed, reader>>
      BY <1>1 DEF Mux!Break, Mux!schedule, Mux!receiving
    <2> QED BY <1>1, <2>1, EndsStay
  <1>2. ASSUME Ends, Mux!Crash PROVE Ends'
    <2>1. UNCHANGED <<wire, worker, error>> /\ rcv' = "failed"
      BY <1>2 DEF Mux!Crash, Mux!schedule
    <2> QED BY <1>2, <2>1, EndsStay
  <1>3. ASSUME Ends, Mux!Edit \/ UNCHANGED Mux!vars PROVE Ends'
    <2>1. UNCHANGED <<wire, worker, error, rcv, failed, reader>>
      BY <1>3 DEF Mux!Edit, Mux!vars, Mux!schedule, Mux!network, Mux!receiving
    <2> QED BY <1>3, <2>1, EndsStay
  <1>4. ASSUME Mux!Retry PROVE Ends'
    <2>1. wire' = Mux!On(<< >>) /\ rcv' = "header"
      BY <1>4 DEF Mux!Retry
    <2>2. \A c \in Channels : wire'[c] = << >>
      BY <2>1 DEF Mux!On
    <2>3. \A c \in Channels : Settled(wire'[c]) /\ \A t : ~Has(wire'[c], t)
      BY <2>2 DEF Settled, Has, Items
    <2> QED BY <2>1, <2>3 DEF Ends
  <1> QED BY <1>1, <1>2, <1>3, <1>4

LEMMA NextEnds ==
    ASSUME MuxBounds
    PROVE  Typed /\ Order /\ Ends /\ [Mux!Next]_Mux!vars => Ends'
  BY EndsSender, EndsWorker, EndsReader, EndsReceiver, EndsOthers DEF Mux!Next

LEMMA NextCore ==
    ASSUME MuxBounds
    PROVE  Core /\ [Mux!Next]_Mux!vars => Core'
  BY NextTyped, NextOrder, NextEnds DEF Core

-----------------------------------------------------------------------------
(* The chunks.                                                             *)

\* Nothing that was read or written changes, and no chunk is lost unless a
\* frame may have been.
LEMMA GoodStays ==
    ASSUME Good, UNCHANGED <<entry, accepted, digest, part>>, Begun' <=> Begun, Underway' \subseteq Underway,
           Begun /\ finishing' /\ ~error' => (finishing /\ ~error) \/ Len(digest) = entry.length,
           Begun /\ rcv' \in {"resume_ack", "receive", "trailer"} =>
              /\ rcv \in {"resume_ack", "receive", "trailer"}
              /\ rcv' \in {"receive", "trailer"} <=> rcv \in {"receive", "trailer"},
           rcv' \in {"receive", "trailer"} => rcv \in {"receive", "trailer"},
           rcv' # "corrupt",
           Broken' \/ (~Broken /\ Underway' = Underway)
    PROVE  Good'
  <1>1. Agreed' /\ Right'
    BY DEF Good, Agreed, Right
  <1>2. Opened'
    BY DEF Good, Opened
  <1>3. NothingLost'
    <2> SUFFICES ASSUME Begun, rcv' \in {"resume_ack", "receive", "trailer"}, ~Broken',
                        NEW i \in (accepted + 1)..Len(digest)
                 PROVE  Stored(i)' \/ \E k \in Underway' : k.at = i
      BY DEF NothingLost
    <2>1. Stored(i) \/ \E k \in Underway : k.at = i
      BY DEF Good, NothingLost
    <2> QED BY <2>1 DEF Stored
  <1> QED BY <1>1, <1>2, <1>3 DEF Good

\* The receiver is past reading: only what the sender holds still matters.
LEMMA GoodEnds ==
    ASSUME Good, UNCHANGED <<entry, accepted, digest, finishing, error>>, Begun' <=> Begun,
                             Underway' \subseteq Underway,
           rcv' \notin {"resume_ack", "receive", "trailer", "corrupt"}
    PROVE  Good'
  BY DEF Good, Agreed, Right, Opened, NothingLost

LEMMA BrokenStays ==
    ASSUME error => error', failed => failed',
           \A c \in Channels : cut[c] => cut'[c] /\ (Ended(c)' => Ended(c))
    PROVE  Broken => Broken'
  BY DEF Broken

\* The chunks stay where they are.
LEMMA UnderwayStays ==
    ASSUME UNCHANGED <<snd, hand, queue, wire>>,
           \A c \in Channels : worker'[c] = "send" => worker[c] = "send" /\ item'[c] = item[c]
    PROVE  /\ Underway' \subseteq Underway
           /\ (\A c \in Channels : worker[c] = "send" => worker'[c] = "send") => Underway' = Underway
  <1>1. ASSUME NEW c \in Channels, NEW k \in Piece
        PROVE  /\ At(c, k)' => At(c, k)
               /\ (worker[c] = "send" => worker'[c] = "send") => (At(c, k) => At(c, k)')
    BY <1>1 DEF At
  <1> QED BY <1>1 DEF Underway

\* What the sending thread does.
LEMMA SoundAccept ==
    ASSUME MuxBounds
    PROVE  Core /\ Core' /\ Same /\ Mux!Accept => Good'
  <1> SUFFICES ASSUME Core, Core', Same, Mux!Accept PROVE Good'
    OBVIOUS
  <1> USE DEF Core
  <1>1. /\ snd = "resume" /\ rcv = "resume_ack" /\ source.length >= have /\ snd' = "read" /\ rcv' = "resume_ack"
        /\ accepted' = (IF SubSeq(part, 1, have) = Mux!SourcePrefix(have) THEN have ELSE 0)
        /\ digest' = [i \in 1..accepted' |-> source.version]
        /\ worker' = Mux!On("wait") /\ UNCHANGED <<source, entry, queue, wire, part, finishing>>
    BY DEF Mux!Accept, Mux!PrefixMatches, Mux!SourcePrefix, Mux!files, Mux!network, Mux!receiving
  <1>2. entry = source /\ have \in Nat /\ part \in Seq(Mux!Contents) /\ have <= Len(part) /\ Len(part) \in Nat
    BY <1>1 DEF Typed, Reaching, Same
  <1>3. accepted' \in Nat /\ accepted' <= have
    BY <1>1, <1>2
  <1>4. PICK a \in Nat : a = accepted'
    BY <1>3
  <1>5. source.version \in Nat /\ source.length \in Nat
    BY FileFacts
  <1>6. Len(digest') = a /\ \A i \in 1..a : digest'[i] = source.version
    BY <1>1, <1>4, <1>5
  <1>7. Agreed'
    <2>1. ~finishing'
      BY <1>1 DEF Order
    <2> QED BY <1>1, <1>2, <1>3, <1>4, <1>5, <1>6, <2>1 DEF Agreed
  <1>8. Underway' = {}
    <2>1. \A c \in Channels : worker[c] = "none" /\ queue[c] = << >> /\ wire[c] = << >>
      BY <1>1 DEF Order
    <2>2. \A c \in Channels : worker'[c] = "wait" /\ Items(queue'[c]) = {} /\ Items(wire'[c]) = {}
      BY <1>1, <2>1, OnTypes DEF Items
    <2>3. \A c \in Channels, k \in Piece : ~At(c, k)'
      BY <2>2 DEF At
    <2> QED BY <1>1, <2>3 DEF Underway
  <1>9. Opened'
    <2> SUFFICES ASSUME NEW i \in 1..a PROVE part[i] = source.version
      BY <1>1, <1>2, <1>3, <1>4 DEF Opened
    <2>1. a = have /\ SubSeq(part, 1, have) = Mux!SourcePrefix(have)
      BY <1>1, <1>4
    <2>2. SubSeq(part, 1, have)[i] = part[i]
      BY <1>2, <2>1
    <2>3. Mux!SourcePrefix(have)[i] = source.version
      BY <2>1 DEF Mux!SourcePrefix
    <2> QED BY <2>1, <2>2, <2>3
  <1>10. NothingLost'
    <2>1. \A i : i \notin (a + 1)..a
      BY <1>4
    <2> QED BY <1>4, <1>6, <2>1 DEF NothingLost
  <1> QED BY <1>1, <1>7, <1>8, <1>9, <1>10 DEF Good, Right

\* A chunk is read.
LEMMA SoundRead ==
    ASSUME MuxBounds
    PROVE  Core /\ Same /\ Good /\ Mux!ReadNext /\ Len(digest) < source.length => Good'
  <1> SUFFICES ASSUME Core, Same, Good, Mux!ReadNext, Len(digest) < source.length PROVE Good'
    OBVIOUS
  <1> USE DEF Core
  <1> DEFINE n == Len(digest) + 1
             k == [at |-> n, content |-> source.version]
  <1>1. /\ snd = "read" /\ snd' = "enqueue" /\ hand' = k /\ digest' = Append(digest, source.version)
        /\ UNCHANGED <<source, entry, accepted, queue, worker, item, error, wire, cut, rcv, reader, failed, part,
                       finishing>>
    BY DEF Mux!ReadNext, Mux!files, Mux!schedule, Mux!network, Mux!receiving
  <1>2. /\ entry = source /\ entry.version \in Nat /\ entry.length \in Nat /\ digest \in Seq(Mux!Contents)
        /\ Len(digest) \in Nat /\ accepted \in Nat
    BY FileFacts DEF Typed, Same
  <1>3. k \in Piece /\ k.at = n /\ k.content = entry.version /\ n \in Nat
    BY <1>2, FileFacts DEF Piece
  <1> HIDE DEF k
  <1>4. Begun /\ ~finishing
    BY <1>1 DEF Order
  <1>5. Len(digest') = n /\ digest'[n] = entry.version /\ \A i \in 1..Len(digest) : digest'[i] = digest[i]
    BY <1>1, <1>2
  <1>6. /\ accepted <= Len(digest) /\ Len(digest) <= entry.length
        /\ \A i \in 1..Len(digest) : digest[i] = entry.version
    BY <1>4 DEF Good, Agreed
  <1>7. Agreed'
    <2>1. \A i \in 1..n : digest'[i] = entry.version
      <3> SUFFICES ASSUME NEW i \in 1..n PROVE digest'[i] = entry.version
        OBVIOUS
      <3>1. i = n \/ i \in 1..Len(digest)
        BY <1>2
      <3> QED BY <1>5, <1>6, <3>1
    <2>2. accepted <= n /\ n <= entry.length
      BY <1>2, <1>6
    <2> QED BY <1>1, <1>4, <1>5, <2>1, <2>2 DEF Agreed
  <1>8. Underway' = Underway \cup {k}
    <2>1. \A c \in Channels, l \in Piece : At(c, l)' <=> At(c, l)
      BY <1>1 DEF At
    <2> QED BY <1>1, <1>3, <2>1 DEF Underway
  <1>9. Right'
    <2> SUFFICES ASSUME NEW l \in Underway' PROVE accepted < l.at /\ l.at <= n /\ l.content = entry.version
      BY <1>1, <1>5 DEF Right
    <2>1. CASE l = k
      BY <1>2, <1>3, <1>6, <2>1
    <2>2. CASE l \in Underway
      <3>1. accepted < l.at /\ l.at <= Len(digest) /\ l.content = entry.version /\ l.at \in Nat
        BY <2>2 DEF Good, Right, Underway, Piece
      <3> QED BY <1>2, <3>1
    <2> QED BY <1>8, <2>1, <2>2
  <1>10. Opened'
    BY <1>1 DEF Good, Opened, Begun
  <1>11. NothingLost'
    <2> SUFFICES ASSUME rcv \in {"resume_ack", "receive", "trailer"}, ~Broken', NEW i \in (accepted + 1)..n
                 PROVE  Stored(i)' \/ \E l \in Underway' : l.at = i
      BY <1>1, <1>5 DEF NothingLost
    <2>1. ~Broken
      BY <1>1 DEF Broken, Ended
    <2>2. CASE i = n
      BY <1>3, <1>8, <2>2
    <2>3. CASE i # n
      <3>1. i \in (accepted + 1)..Len(digest)
        BY <1>2, <2>3
      <3>2. Stored(i) \/ \E l \in Underway : l.at = i
        BY <1>4, <2>1, <3>1 DEF Good, NothingLost
      <3> QED BY <1>1, <1>8, <3>2 DEF Stored
    <2> QED BY <2>2, <2>3
  <1> QED BY <1>1, <1>7, <1>9, <1>10, <1>11 DEF Good

LEMMA SoundEnqueue == Core /\ Good /\ (\E c \in Channels : Mux!Enqueue(c)) => Good'
  <1> SUFFICES ASSUME Core, Good, NEW c \in Channels, Mux!Enqueue(c) PROVE Good'
    OBVIOUS
  <1> USE DEF Core
  <1>1. /\ snd = "enqueue" /\ snd' = "read" /\ queue' = [queue EXCEPT ![c] = Append(@, hand)]
        /\ UNCHANGED <<entry, accepted, digest, worker, item, error, wire, cut, rcv, reader, failed, part, finishing>>
    BY DEF Mux!Enqueue, Mux!files, Mux!network, Mux!receiving
  <1>2. queue[c] \in Seq(Piece) /\ hand \in Piece
    BY DEF Typed
  <1>3. queue'[c] = Append(queue[c], hand) /\ \A d \in Channels : d # c => queue'[d] = queue[d]
    BY <1>1 DEF Typed
  <1>4. Items(queue'[c]) = Items(queue[c]) \cup {hand}
    BY <1>2, <1>3, SeqItems
  <1>5. \A d \in Channels, k \in Piece : At(d, k)' <=> At(d, k) \/ (d = c /\ k = hand)
    <2> SUFFICES ASSUME NEW d \in Channels, NEW k \in Piece PROVE At(d, k)' <=> At(d, k) \/ (d = c /\ k = hand)
      OBVIOUS
    <2>1. CASE d = c
      BY <1>1, <1>4, <2>1 DEF At
    <2>2. CASE d # c
      BY <1>1, <1>3, <2>2 DEF At
    <2> QED BY <2>1, <2>2
  <1>6. Underway' = Underway
    BY <1>1, <1>5 DEF Underway
  <1>7. Broken' <=> Broken
    BY <1>1 DEF Broken, Ended
  <1> QED BY <1>1, <1>6, <1>7, GoodStays DEF Begun, Good

LEMMA SoundSender ==
    ASSUME MuxBounds
    PROVE  Core /\ Core' /\ Same /\ Good /\ Mux!SenderStep => Good'
  <1> SUFFICES ASSUME Core, Core', Same, Good, Mux!SenderStep PROVE Good'
    OBVIOUS
  <1>1. CASE Mux!Accept
    BY <1>1, SoundAccept
  <1>2. CASE \E c \in Channels : Mux!Enqueue(c)
    BY <1>2, SoundEnqueue
  <1>3. CASE Mux!ReadNext
    <2>1. CASE Len(digest) < source.length
      BY <1>3, <2>1, SoundRead
    <2>2. CASE ~(Len(digest) < source.length)
      <3>1. /\ snd = "read" /\ snd' = "join" /\ UNCHANGED <<entry, accepted, digest, hand, queue, worker, item,
                                                            error, wire, cut,
                                                            rcv, reader, failed, part>>
        BY <1>3, <2>2 DEF Mux!ReadNext, Mux!files, Mux!schedule, Mux!network, Mux!receiving
      <3>2. Begun => Len(digest) = entry.length
        <4>1. /\ entry = source /\ Len(digest) \in Nat /\ entry.length \in Nat
          BY FileFacts DEF Core, Same
        <4> QED BY <2>2, <4>1 DEF Good, Agreed
      <3>3. \A c \in Channels, k \in Piece : At(c, k)' <=> At(c, k)
        BY <3>1 DEF At
      <3>4. Underway' = Underway
        BY <3>1, <3>3 DEF Underway
      <3>5. Broken' <=> Broken
        BY <3>1 DEF Broken, Ended
      <3> QED BY <3>1, <3>2, <3>4, <3>5, GoodStays DEF Begun, Good
    <2> QED BY <2>1, <2>2
  <1>4. CASE Mux!EnqueueThrows
    <2>1. /\ error /\ snd' = "join" /\ UNCHANGED <<entry, accepted, digest, queue, worker, item, error, wire, rcv,
                                                   part>>
      BY <1>4 DEF Mux!EnqueueThrows, Mux!files, Mux!schedule, Mux!network, Mux!receiving
    <2>2. \A c \in Channels, k \in Piece : At(c, k)' <=> At(c, k)
      BY <2>1 DEF At
    <2>3. Underway' \subseteq Underway /\ Broken'
      BY <2>1, <2>2 DEF Underway, Broken
    <2> QED BY <2>1, <2>3, GoodStays DEF Begun, Good
  <1>5. CASE Mux!SendTrailer
    <2>1. /\ snd = "trailer" /\ snd' = "ack" /\ wire' = [wire EXCEPT ![0] = Append(@, Mux!FileEnd)]
          /\ UNCHANGED <<entry, accepted, digest, hand, finishing, queue, worker, item, error, cut, rcv, reader,
                         failed, part>>
      BY <1>5 DEF Mux!SendTrailer, Mux!files, Mux!schedule, Mux!receiving
    <2>2. /\ wire[0] \in Seq(Frames) /\ wire'[0] = Append(wire[0], Mux!FileEnd)
          /\ \A d \in Channels : d # 0 => wire'[d] = wire[d]
      BY <2>1, WireGrows, OnTypes, FrameTypes DEF Core
    <2>3. Items(wire'[0]) = Items(wire[0]) \cup {Mux!FileEnd}
      BY <2>2, SeqItems, FrameTypes
    <2>4. \A k \in Piece : Mux!Data(k) # Mux!FileEnd
      BY DEF Mux!Data, Mux!FileEnd
    <2>5. ASSUME NEW c \in Channels, NEW k \in Piece
          PROVE  Mux!Data(k) \in Items(wire'[c]) <=> Mux!Data(k) \in Items(wire[c])
      <3>1. CASE c = 0
        BY <2>3, <2>4, <3>1
      <3>2. CASE c # 0
        BY <2>2, <3>2
      <3> QED BY <3>1, <3>2
    <2>6. \A c \in Channels, k \in Piece : At(c, k)' <=> At(c, k)
      BY <2>1, <2>5 DEF At
    <2>7. Underway' = Underway
      BY <2>1, <2>6 DEF Underway
    <2>8. ASSUME NEW c \in Channels, Has(wire'[c], "chunk_end") PROVE Has(wire[c], "chunk_end")
      <3>1. Has(wire'[0], "chunk_end") => Has(wire[0], "chunk_end")
        <4>1. Mux!FileEnd \in Frames /\ Mux!FileEnd.tag # "chunk_end"
          BY FrameTypes
        <4> QED BY <2>2, <4>1, HasFacts
      <3>2. CASE c = 0
        BY <2>8, <3>1, <3>2
      <3>3. CASE c # 0
        BY <2>2, <2>8, <3>3
      <3> QED BY <3>2, <3>3
    <2>9. Broken => Broken'
      BY <2>1, <2>8, BrokenStays DEF Ended
    <2> QED BY <2>1, <2>7, <2>9, GoodStays DEF Begun, Good
  <1>6. CASE Mux!AcceptThrows \/ Mux!Join \/ Mux!ReadAck \/ Mux!SendThrows
    <2>1. /\ snd \notin {"enqueue"} /\ snd' \notin {"enqueue"}
          /\ UNCHANGED <<entry, accepted, digest, hand, finishing, queue, worker, item, error, wire, rcv, reader,
                         failed, part>>
          /\ cut' = cut \/ cut' = Mux!AllCut
      BY <1>6 DEF Mux!AcceptThrows, Mux!Join, Mux!ReadAck, Mux!SendThrows, Mux!files, Mux!schedule, Mux!network,
         Mux!receiving
    <2>2. \A c \in Channels, k \in Piece : At(c, k)' <=> At(c, k)
      BY <2>1 DEF At
    <2>3. Underway' = Underway
      BY <2>1, <2>2 DEF Underway
    <2>4. \A c \in Channels : cut[c] => cut'[c]
      BY <2>1, OnTypes DEF Mux!AllCut
    <2>5. Broken => Broken'
      BY <2>1, <2>4, BrokenStays DEF Ended
    <2> QED BY <2>1, <2>3, <2>5, GoodStays DEF Begun, Good
  <1> QED BY <1>1, <1>2, <1>3, <1>4, <1>5, <1>6 DEF Mux!SenderStep

\* What the workers do.
LEMMA SoundTake == ASSUME MuxBounds, Core, Good, NEW c \in Channels, Mux!Take(c) PROVE Good'
  <1>1. /\ worker[c] = "wait" /\ queue[c] # << >> /\ item' = [item EXCEPT ![c] = Head(queue[c])]
        /\ queue' = [queue EXCEPT ![c] = Tail(@)] /\ worker' = [worker EXCEPT ![c] = "send"]
        /\ UNCHANGED <<entry, accepted, snd, digest, hand, finishing, error, wire, cut, rcv, reader, failed, part>>
    BY DEF Mux!Take, Mux!files, Mux!sending, Mux!network, Mux!receiving
  <1>2. queue[c] \in Seq(Piece)
    BY DEF Core, Typed
  <1>3. /\ queue'[c] = Tail(queue[c]) /\ worker'[c] = "send" /\ item'[c] = Head(queue[c])
        /\ \A d \in Channels : d # c => queue'[d] = queue[d] /\ worker'[d] = worker[d] /\ item'[d] = item[d]
    BY <1>1 DEF Core, Typed
  <1>4. Items(queue[c]) = Items(queue'[c]) \cup {item'[c]}
    BY <1>1, <1>2, <1>3, SeqItems
  <1>5. \A d \in Channels, k \in Piece : At(d, k)' <=> At(d, k)
    <2> SUFFICES ASSUME NEW d \in Channels, NEW k \in Piece PROVE At(d, k)' <=> At(d, k)
      OBVIOUS
    <2>1. CASE d = c
      BY <1>1, <1>3, <1>4, <2>1 DEF At
    <2>2. CASE d # c
      BY <1>1, <1>3, <2>2 DEF At
    <2> QED BY <2>1, <2>2
  <1>6. Underway' = Underway
    BY <1>1, <1>5 DEF Underway
  <1>7. Broken' <=> Broken
    BY <1>1 DEF Broken, Ended
  <1>8. Begun' <=> Begun
    BY WorkerMoves DEF Core, Mux!WorkerStep
  <1> QED BY <1>1, <1>6, <1>7, <1>8, GoodStays DEF Good

LEMMA SoundSend == ASSUME MuxBounds, Core, Good, NEW c \in Channels, Mux!SendData(c) PROVE Good'
  <1>1. /\ worker[c] = "send" /\ worker' = [worker EXCEPT ![c] = "account"]
        /\ wire' = IF cut[c] THEN wire ELSE [wire EXCEPT ![c] = Append(@, Mux!Data(item[c]))]
        /\ UNCHANGED <<entry, accepted, snd, digest, hand, finishing, queue, item, error, cut, rcv, reader, failed,
                       part>>
    BY DEF Mux!SendData, Mux!Put, Mux!files, Mux!sending, Mux!receiving
  <1>2. worker'[c] = "account" /\ \A d \in Channels : d # c => worker'[d] = worker[d]
    BY <1>1 DEF Core, Typed
  <1>3. item[c] \in Piece
    BY DEF Core, Typed
  <1>4. Begun' <=> Begun
    BY WorkerMoves DEF Core, Mux!WorkerStep
  <1>5. CASE cut[c]
    <2>1. UNCHANGED wire
      BY <1>1, <1>5
    <2>2. Underway' \subseteq Underway
      BY <1>1, <1>2, <2>1, UnderwayStays
    <2>3. Broken'
      <3> SUFFICES ASSUME ~failed PROVE Broken'
        BY <1>1 DEF Broken
      <3>1. ~Ended(c)
        BY <1>1 DEF Core, Ends, Ended
      <3>2. cut'[c] /\ ~Ended(c)'
        BY <1>1, <1>5, <2>1, <3>1 DEF Ended
      <3> QED BY <3>2 DEF Broken
    <2> QED BY <1>1, <1>4, <2>2, <2>3, GoodStays DEF Good
  <1>6. CASE ~cut[c]
    <2>1. /\ wire[c] \in Seq(Frames) /\ wire'[c] = Append(wire[c], Mux!Data(item[c]))
          /\ \A d \in Channels : d # c => wire'[d] = wire[d]
      BY <1>1, <1>3, <1>6, WireGrows, FrameTypes DEF Core
    <2>2. Items(wire'[c]) = Items(wire[c]) \cup {Mux!Data(item[c])}
      BY <1>3, <2>1, SeqItems, FrameTypes
    <2>3. \A k \in Piece : Mux!Data(k) = Mux!Data(item[c]) <=> k = item[c]
      BY <1>3, FrameTypes
    <2>4. \A d \in Channels, k \in Piece : At(d, k)' <=> At(d, k)
      <3> SUFFICES ASSUME NEW d \in Channels, NEW k \in Piece PROVE At(d, k)' <=> At(d, k)
        OBVIOUS
      <3>1. CASE d = c
        BY <1>1, <1>2, <2>2, <2>3, <3>1 DEF At
      <3>2. CASE d # c
        BY <1>1, <1>2, <2>1, <3>2 DEF At
      <3> QED BY <3>1, <3>2
    <2>5. Underway' = Underway
      BY <1>1, <2>4 DEF Underway
    <2>6. ASSUME NEW d \in Channels, Has(wire'[d], "chunk_end") PROVE Has(wire[d], "chunk_end")
      <3>1. Has(wire'[c], "chunk_end") => Has(wire[c], "chunk_end")
        <4>1. Mux!Data(item[c]) \in Frames /\ Mux!Data(item[c]).tag # "chunk_end"
          BY <1>3, FrameTypes
        <4> QED BY <2>1, <4>1, HasFacts
      <3>2. CASE d = c
        BY <2>6, <3>1, <3>2
      <3>3. CASE d # c
        BY <2>1, <2>6, <3>3
      <3> QED BY <3>2, <3>3
    <2>7. Broken => Broken'
      BY <1>1, <2>6, BrokenStays DEF Ended
    <2> QED BY <1>1, <1>4, <2>5, <2>7, GoodStays DEF Good
  <1> QED BY <1>5, <1>6

LEMMA SoundSendEnd == ASSUME MuxBounds, Core, Good, NEW c \in Channels, Mux!SendChunkEnd(c) PROVE Good'
  <1>1. /\ worker[c] = "end" /\ worker' = [worker EXCEPT ![c] = "gone"]
        /\ wire' = IF cut[c] THEN wire ELSE [wire EXCEPT ![c] = Append(@, Mux!ChunkEnd)]
        /\ UNCHANGED <<entry, accepted, snd, digest, hand, finishing, queue, item, error, cut, rcv, reader, failed,
                       part>>
    BY DEF Mux!SendChunkEnd, Mux!Put, Mux!files, Mux!sending, Mux!receiving
  <1>2. worker'[c] = "gone" /\ \A d \in Channels : d # c => worker'[d] = worker[d]
    BY <1>1 DEF Core, Typed
  <1>3. Begun' <=> Begun
    BY WorkerMoves DEF Core, Mux!WorkerStep
  <1>4. \A d \in Channels, k \in Piece : Mux!Data(k) \in Items(wire'[d]) <=> Mux!Data(k) \in Items(wire[d])
    <2>1. CASE cut[c]
      BY <1>1, <2>1
    <2>2. CASE ~cut[c]
      <3>1. /\ wire[c] \in Seq(Frames) /\ wire'[c] = Append(wire[c], Mux!ChunkEnd)
            /\ \A d \in Channels : d # c => wire'[d] = wire[d]
        BY <1>1, <2>2, WireGrows, FrameTypes DEF Core
      <3>2. Items(wire'[c]) = Items(wire[c]) \cup {Mux!ChunkEnd}
        BY <3>1, SeqItems, FrameTypes
      <3>3. \A k \in Piece : Mux!Data(k) # Mux!ChunkEnd
        BY DEF Mux!Data, Mux!ChunkEnd
      <3>4. ASSUME NEW d \in Channels, NEW k \in Piece
            PROVE  Mux!Data(k) \in Items(wire'[d]) <=> Mux!Data(k) \in Items(wire[d])
        <4>1. CASE d = c
          BY <3>2, <3>3, <4>1
        <4>2. CASE d # c
          BY <3>1, <4>2
        <4> QED BY <4>1, <4>2
      <3> QED BY <3>4
    <2> QED BY <2>1, <2>2
  <1>5. \A d \in Channels, k \in Piece : At(d, k)' <=> At(d, k)
    <2> SUFFICES ASSUME NEW d \in Channels, NEW k \in Piece PROVE At(d, k)' <=> At(d, k)
      OBVIOUS
    <2>1. worker'[d] = "send" <=> worker[d] = "send"
      BY <1>1, <1>2
    <2> QED BY <1>1, <1>4, <2>1 DEF At
  <1>6. Underway' = Underway
    BY <1>1, <1>5 DEF Underway
  <1>7. Broken => Broken'
    <2>1. \A d \in Channels : cut[d] => wire'[d] = wire[d]
      BY <1>1 DEF Core, Typed
    <2> QED BY <1>1, <2>1, BrokenStays DEF Ended
  <1> QED BY <1>1, <1>3, <1>6, <1>7, GoodStays DEF Good

LEMMA SoundWorker == ASSUME MuxBounds, Core, Good, NEW c \in Channels, Mux!WorkerStep(c) PROVE Good'
  <1>1. CASE Mux!Take(c) \/ Mux!SendData(c) \/ Mux!SendChunkEnd(c)
    BY <1>1, SoundTake, SoundSend, SoundSendEnd
  <1>2. CASE Mux!Account(c) \/ Mux!LeaveLoop(c) \/ Mux!WorkerQuits(c) \/ Mux!WorkerFails(c)
    <2>1. (Begun' <=> Begun) /\ (\A d \in Channels : d # c => worker'[d] = worker[d])
      BY WorkerMoves DEF Core
    <2>2. /\ worker'[c] # "send"
          /\ UNCHANGED <<entry, accepted, snd, digest, hand, finishing, queue, wire, rcv, reader, failed, part>>
          /\ error => error'
          /\ \A d \in Channels : d # c => item'[d] = item[d]
      BY <1>2 DEF Mux!Account, Mux!LeaveLoop, Mux!WorkerQuits, Mux!WorkerFails, Mux!files, Mux!sending, Mux!network,
         Mux!receiving, Core, Typed
    <2>3. Underway' \subseteq Underway
      BY <2>1, <2>2, UnderwayStays
    <2>4. CASE Mux!WorkerFails(c)
      <3>1. error'
        BY <2>4 DEF Mux!WorkerFails
      <3> QED BY <2>1, <2>2, <2>3, <3>1, GoodStays DEF Good, Broken
    <2>5. CASE ~Mux!WorkerFails(c)
      <3>1. worker[c] # "send" /\ UNCHANGED <<error, cut>>
        BY <1>2, <2>5 DEF Mux!Account, Mux!LeaveLoop, Mux!WorkerQuits, Mux!network
      <3>2. Underway' = Underway
        BY <2>1, <2>2, <3>1, UnderwayStays
      <3>3. Broken' <=> Broken
        BY <2>2, <3>1 DEF Broken, Ended
      <3> QED BY <2>1, <2>2, <3>1, <3>2, <3>3, GoodStays DEF Good
    <2> QED BY <2>4, <2>5
  <1> QED BY <1>1, <1>2 DEF Mux!WorkerStep

\* What the readers do.
LEMMA ReadUnderway ==
    ASSUME Typed, NEW c \in Channels, NEW tag, Mux!Reads(c, tag), UNCHANGED <<snd, hand, queue, worker, item>>
    PROVE  Underway' \subseteq Underway /\ \A k \in Underway : k \in Underway' \/ Mux!Data(k) = Head(wire[c])
  <1>1. /\ Items(wire[c]) = Items(wire'[c]) \cup {Head(wire[c])} /\ \A d \in Channels : d # c => wire'[d] = wire[d]
    BY ReadFacts
  <1>2. ASSUME NEW d \in Channels, NEW k \in Piece
        PROVE  (At(d, k)' => At(d, k)) /\ (At(d, k) => At(d, k)' \/ Mux!Data(k) = Head(wire[c]))
    <2>1. CASE d = c
      BY <1>1, <2>1 DEF At
    <2>2. CASE d # c
      BY <1>1, <2>2 DEF At
    <2> QED BY <2>1, <2>2
  <1>3. Underway' \subseteq Underway
    BY <1>2 DEF Underway
  <1>4. ASSUME NEW k \in Underway PROVE k \in Underway' \/ Mux!Data(k) = Head(wire[c])
    BY <1>2 DEF Underway
  <1> QED BY <1>3, <1>4

LEMMA SoundWrite == ASSUME MuxBounds, Core, Good, NEW c \in Channels, Mux!WriteChunk(c) PROVE Good'
  <1> USE DEF Core
  <1>1. PICK k \in Piece : /\ k.at > have /\ k.at <= entry.length /\ Head(wire[c]) = Mux!Data(k) /\ part' = Mux!Written(k)
    BY WriteFacts
  <1>2. /\ Mux!Reads(c, "data") /\ rcv = "receive"
        /\ UNCHANGED <<entry, accepted, snd, digest, hand, finishing, queue, worker, item, error, cut, rcv, reader,
                       failed>>
    BY DEF Mux!WriteChunk, Mux!Reads, Mux!files, Mux!sending, Mux!schedule
  <1>3. /\ wire[c] \in Seq(Frames) /\ wire[c] # << >> /\ wire'[c] = Tail(wire[c])
        /\ Items(wire[c]) = Items(wire'[c]) \cup {Head(wire[c])} /\ \A d \in Channels : d # c => wire'[d] = wire[d]
    BY <1>2, ReadFacts
  <1>4. k \in Underway
    BY <1>1, <1>3 DEF Underway, At
  <1>5. Underway' \subseteq Underway /\ \A l \in Underway : l \in Underway' \/ l = k
    <2>1. \A l \in Piece : Mux!Data(l) = Mux!Data(k) => l = k
      BY FrameTypes
    <2>2. \A l \in Underway : l \in Piece
      BY DEF Underway
    <2> QED BY <1>1, <1>2, <2>1, <2>2, ReadUnderway
  <1>6. Begun /\ have = accepted /\ accepted \in Nat /\ k.at \in Nat /\ k.at > accepted /\ k.content = entry.version
    BY <1>1, <1>2, <1>4 DEF Reaching, Typed, Piece, Good, Right
  <1>7. /\ Len(part) \in Nat /\ Len(part') \in {Len(part), k.at} /\ Len(part) <= Len(part') /\ k.at <= Len(part')
        /\ part'[k.at] = entry.version /\ \A i \in 1..Len(part) : i # k.at => part'[i] = part[i]
    BY <1>1, <1>6, WrittenFacts DEF Typed
  <1>8. /\ accepted <= Len(part) /\ (\A i \in 1..accepted : part[i] = entry.version) /\ Len(part) <= entry.length
    BY <1>2, <1>6 DEF Good, Opened
  <1>9. Opened'
    <2>1. accepted <= Len(part') /\ Len(part') <= entry.length
      BY <1>1, <1>6, <1>7, <1>8
    <2>2. ASSUME NEW i \in 1..accepted PROVE part'[i] = entry.version
      <3>1. i \in 1..Len(part) /\ i # k.at
        BY <1>6, <1>7, <1>8
      <3> QED BY <1>7, <1>8, <3>1
    <2> QED BY <1>2, <2>1, <2>2 DEF Opened
  <1>10. Agreed' /\ Right'
    BY <1>2, <1>5 DEF Good, Agreed, Right, Begun
  <1>11. NothingLost'
    <2> SUFFICES ASSUME ~Broken', NEW i \in (accepted + 1)..Len(digest)
                 PROVE  Stored(i)' \/ \E l \in Underway' : l.at = i
      BY <1>2 DEF NothingLost
    <2>1. \A d \in Channels : Has(wire'[d], "chunk_end") => Has(wire[d], "chunk_end")
      BY <1>3, HasFacts
    <2>2. ~Broken
      BY <1>2, <2>1, BrokenStays DEF Ended
    <2>3. Stored(i) \/ \E l \in Underway : l.at = i
      BY <1>2, <1>6, <2>2 DEF Good, NothingLost
    <2>4. Stored(k.at)'
      BY <1>2, <1>7 DEF Stored
    <2>5. CASE Stored(i)
      <3>1. i \in 1..Len(part) /\ part[i] = entry.version
        BY <1>6, <1>7, <2>5 DEF Stored
      <3>2. i <= Len(part') /\ part'[i] = entry.version
        BY <1>7, <3>1
      <3> QED BY <1>2, <3>2 DEF Stored
    <2>6. CASE \E l \in Underway : l.at = i
      BY <1>5, <2>4, <2>6
    <2> QED BY <2>3, <2>5, <2>6
  <1> QED BY <1>2, <1>9, <1>10, <1>11 DEF Good

LEMMA SoundReader == ASSUME MuxBounds, Core, Good, NEW c \in Channels, Mux!ReaderStep(c) PROVE Good'
  <1>1. CASE Mux!WriteChunk(c)
    BY <1>1, SoundWrite
  <1>2. CASE Mux!RefuseChunk(c) \/ Mux!ChannelLost(c)
    <2>1. /\ failed' /\ UNCHANGED <<entry, accepted, snd, digest, hand, finishing, queue, worker, item, error, rcv,
                                    part>>
          /\ UNCHANGED wire \/ Mux!Reads(c, "data")
      BY <1>2 DEF Mux!RefuseChunk, Mux!ChannelLost, Mux!ReaderFails, Mux!files, Mux!sending, Mux!schedule
    <2>2. Underway' \subseteq Underway
      <3>1. CASE UNCHANGED wire
        BY <2>1, <3>1, UnderwayStays
      <3>2. CASE Mux!Reads(c, "data")
        BY <2>1, <3>2, ReadUnderway DEF Core
      <3> QED BY <2>1, <3>1, <3>2
    <2> QED BY <2>1, <2>2, GoodStays DEF Good, Broken, Begun
  <1>3. CASE Mux!ReadChunkEnd(c)
    <2>1. /\ Mux!Reads(c, "chunk_end") /\ reader' = [reader EXCEPT ![c] = FALSE]
          /\ UNCHANGED <<entry, accepted, snd, digest, hand, finishing, queue, worker, item, error, cut, rcv, failed,
                         part>>
      BY <1>3 DEF Mux!ReadChunkEnd, Mux!files, Mux!sending, Mux!schedule
    <2>2. /\ wire[c] \in Seq(Frames) /\ wire[c] # << >> /\ wire'[c] = Tail(wire[c]) /\ Head(wire[c]) \in Frames
          /\ Head(wire[c]).tag = "chunk_end" /\ \A d \in Channels : d # c => wire'[d] = wire[d]
      BY <2>1, ReadFacts DEF Core
    <2>3. \A k \in Piece : Mux!Data(k) # Head(wire[c])
      BY <2>2, FrameTypes
    <2>4. Underway' = Underway
      <3>1. \A k \in Underway : k \in Piece
        BY DEF Underway
      <3> QED BY <2>1, <2>3, <3>1, ReadUnderway DEF Core
    <2>5. \A d \in Channels : Ended(d)' => Ended(d)
      <3>1. Ended(c)
        BY <2>2, HasFacts DEF Ended
      <3>2. \A d \in Channels : d # c => reader'[d] = reader[d]
        BY <2>1 DEF Core, Typed
      <3> QED BY <2>1, <2>2, <3>1, <3>2 DEF Ended
    <2>6. Broken => Broken'
      BY <2>1, <2>5, BrokenStays
    <2> QED BY <2>1, <2>4, <2>6, GoodStays DEF Good, Begun
  <1> QED BY <1>1, <1>2, <1>3 DEF Mux!ReaderStep

\* When the FileEnd is read, every chunk was written.
LEMMA WholeFile ==
    ASSUME MuxBounds, Core, Good, rcv = "trailer", wire[0] # << >>, Head(wire[0]) = Mux!FileEnd
    PROVE  Len(part) = entry.length /\ part = digest
  <1> USE DEF Core
  <1>1. ~error /\ \A c \in Channels : worker[c] = "gone"
    <2>1. wire[0] \in Seq(Frames)
      BY OnTypes DEF Typed
    <2>2. Has(wire[0], "file_end")
      BY <2>1, HasFacts, FrameTypes
    <2> QED BY <2>2, OnTypes DEF Ends
  <1>2. ~failed /\ \A c \in Channels : ~reader[c]
    BY DEF Order
  <1>3. Begun /\ ~Broken
    BY <1>1, <1>2 DEF Reaching, Broken, Ended
  <1>4. finishing /\ snd # "enqueue" /\ \A c \in Channels : queue[c] = << >>
    BY <1>1, OnTypes DEF Order
  <1>5. \A k : k \notin Underway
    <2>1. ASSUME NEW c \in Channels, NEW k \in Piece PROVE ~At(c, k)
      <3>1. ~Has(wire[c], "data")
        BY <1>2 DEF Ends
      <3>2. Mux!Data(k) \notin Items(wire[c])
        BY <3>1, FrameTypes DEF Has
      <3> QED BY <1>1, <1>4, <3>2 DEF At, Items
    <2> QED BY <1>4, <2>1 DEF Underway
  <1>6. /\ Len(digest) = entry.length /\ accepted <= entry.length
        /\ \A i \in 1..entry.length : digest[i] = entry.version
    BY <1>1, <1>3, <1>4 DEF Good, Agreed
  <1>7. /\ accepted <= Len(part) /\ (\A i \in 1..accepted : part[i] = entry.version) /\ Len(part) <= entry.length
    BY <1>3 DEF Good, Opened
  <1>8. \A i \in (accepted + 1)..entry.length : i <= Len(part) /\ part[i] = entry.version
    BY <1>3, <1>5, <1>6 DEF Good, NothingLost, Stored
  <1>9. /\ accepted \in Nat /\ entry.length \in Nat /\ Len(part) \in Nat /\ part \in Seq(Mux!Contents)
        /\ digest \in Seq(Mux!Contents)
    BY FileFacts DEF Typed
  <1>10. Len(part) = entry.length
    <2>1. CASE accepted = entry.length
      BY <1>7, <1>9, <2>1
    <2>2. CASE accepted # entry.length
      <3>1. entry.length \in (accepted + 1)..entry.length
        BY <1>6, <1>9, <2>2
      <3> QED BY <1>7, <1>8, <1>9, <3>1
    <2> QED BY <2>1, <2>2
  <1>11. ASSUME NEW i \in 1..entry.length PROVE part[i] = digest[i]
    <2>1. i \in 1..accepted \/ i \in (accepted + 1)..entry.length
      BY <1>9
    <2> QED BY <1>6, <1>7, <1>8, <2>1
  <1>12. part = digest
    BY <1>6, <1>9, <1>10, <1>11
  <1> QED BY <1>10, <1>12

\* What the receiving thread does.
LEMMA SoundStart ==
    ASSUME MuxBounds
    PROVE  Core /\ Good /\ Mux!StartReceive => Good'
  <1> SUFFICES ASSUME Core, Good, Mux!StartReceive PROVE Good'
    OBVIOUS
  <1>1. /\ Begun /\ rcv = "resume_ack" /\ rcv' = "receive" /\ accepted <= Len(part)
        /\ Len(part') = accepted /\ \A i \in 1..accepted : part'[i] = part[i]
    BY StartFacts DEF Core
  <1>2. /\ UNCHANGED <<entry, accepted, digest, snd, hand, finishing, queue, worker, item, error, wire, cut, failed>>
        /\ reader' = Mux!On(TRUE)
    BY DEF Mux!StartReceive, Mux!files, Mux!sending, Mux!schedule, Mux!network
  <1>3. Underway' = Underway
    BY <1>2, UnderwayStays
  <1>4. Agreed' /\ Right'
    BY <1>2, <1>3 DEF Good, Agreed, Right, Begun
  <1>5. Opened'
    <2>1. accepted <= entry.length /\ \A i \in 1..accepted : part[i] = entry.version
      <3>1. accepted <= Len(digest) /\ Len(digest) <= entry.length /\ \A i \in 1..accepted : part[i] = entry.version
        BY <1>1 DEF Good, Agreed, Opened
      <3>2. accepted \in Nat /\ Len(digest) \in Nat /\ entry.length \in Nat
        BY FileFacts DEF Core, Typed
      <3> QED BY <3>1, <3>2
    <2>2. accepted \in Nat
      BY DEF Core, Typed
    <2> QED BY <1>1, <1>2, <2>1, <2>2 DEF Opened
  <1>6. NothingLost'
    <2>1. \A c \in Channels : Ended(c)' => Ended(c)
      BY <1>2, OnTypes DEF Ended
    <2>2. Broken => Broken'
      BY <1>2, <2>1, BrokenStays
    <2>3. \A i : ~Stored(i)
      BY <1>1 DEF Stored
    <2> QED BY <1>1, <1>2, <1>3, <2>2, <2>3 DEF Good, NothingLost, Begun
  <1> QED BY <1>1, <1>4, <1>5, <1>6 DEF Good

LEMMA SoundReceiver ==
    ASSUME MuxBounds
    PROVE  Core /\ Good /\ Mux!ReceiverStep => Good'
  <1> SUFFICES ASSUME Core, Good, Mux!ReceiverStep PROVE Good'
    OBVIOUS
  <1>1. /\ UNCHANGED <<entry, snd, digest, hand, finishing, queue, worker, item, error, accepted>>
        /\ Begun' <=> Begun
    BY DEF Mux!ReceiverStep, Mux!Offer, Mux!StartReceive, Mux!ReceiveReturns, Mux!ReceiveThrows, Mux!Complete,
       Mux!ReceiverThrows, Mux!files, Mux!sending,
           Mux!schedule, Begun
  <1>2. CASE Mux!StartReceive
    BY <1>2, SoundStart
  <1>3. CASE Mux!Offer
    <2>1. UNCHANGED wire /\ rcv' = "resume_ack" /\ rcv = "header"
      BY <1>3 DEF Mux!Offer, Mux!network
    <2>2. ~Begun'
      BY <1>1, <2>1 DEF Core, Order
    <2>3. Underway' = Underway
      BY <1>1, <2>1, UnderwayStays
    <2> QED BY <1>1, <2>1, <2>2, <2>3 DEF Good, Agreed, Right, Opened, NothingLost
  <1>4. CASE Mux!ReceiveReturns
    <2>1. rcv = "receive" /\ rcv' = "trailer" /\ UNCHANGED <<wire, cut, reader, failed, part>>
      BY <1>4 DEF Mux!ReceiveReturns, Mux!network
    <2>2. Underway' = Underway
      BY <1>1, <2>1, UnderwayStays
    <2>3. Broken' <=> Broken
      BY <1>1, <2>1 DEF Broken, Ended
    <2> QED BY <1>1, <2>1, <2>2, <2>3, GoodStays DEF Good
  <1>5. CASE Mux!ReceiveThrows \/ Mux!ReceiverThrows
    <2>1. rcv' = "failed" /\ UNCHANGED wire
      BY <1>5 DEF Mux!ReceiveThrows, Mux!ReceiverThrows, Mux!network
    <2>2. Underway' = Underway
      BY <1>1, <2>1, UnderwayStays
    <2> QED BY <1>1, <2>1, <2>2, GoodEnds
  <1>6. CASE Mux!Complete
    <2>1. rcv = "trailer" /\ wire[0] # << >> /\ Head(wire[0]) = Mux!FileEnd /\ wire' = [wire EXCEPT ![0] = Tail(@)]
      BY <1>6 DEF Mux!Complete
    <2>2. rcv' = "done"
      BY <1>6, <2>1, WholeFile DEF Mux!Complete
    <2>3. /\ wire[0] \in Seq(Frames) /\ wire'[0] = Tail(wire[0]) /\ \A d \in Channels : d # 0 => wire'[d] = wire[d]
      BY <2>1, OnTypes DEF Core, Typed
    <2>4. Items(wire'[0]) \subseteq Items(wire[0])
      BY <2>1, <2>3, SeqItems
    <2>5. \A c \in Channels, k \in Piece : At(c, k)' => At(c, k)
      <3> SUFFICES ASSUME NEW c \in Channels, NEW k \in Piece, At(c, k)' PROVE At(c, k)
        OBVIOUS
      <3>1. Items(wire'[c]) \subseteq Items(wire[c])
        BY <2>3, <2>4
      <3> QED BY <1>1, <3>1 DEF At
    <2>6. Underway' \subseteq Underway
      BY <1>1, <2>5 DEF Underway
    <2> QED BY <1>1, <2>2, <2>6, GoodEnds
  <1> QED BY <1>2, <1>3, <1>4, <1>5, <1>6 DEF Mux!ReceiverStep

\* What happens to the two sides.
LEMMA SoundBreak == ASSUME Good, NEW c \in Channels, Mux!Break(c) PROVE Good'
  <1>1. /\ UNCHANGED <<entry, accepted, snd, digest, hand, finishing, queue, worker, item, error, wire, rcv, reader,
                       failed, part>>
        /\ cut' = [cut EXCEPT ![c] = TRUE]
    BY DEF Mux!Break, Mux!files, Mux!sending, Mux!schedule, Mux!receiving
  <1>2. Underway' = Underway
    BY <1>1, UnderwayStays
  <1>3. Broken => Broken'
    <2>1. \A d \in Channels : cut[d] => cut'[d]
      BY <1>1
    <2> QED BY <1>1, <2>1, BrokenStays DEF Ended
  <1> QED BY <1>1, <1>2, <1>3, GoodStays DEF Good, Begun

LEMMA SoundCrash == Good /\ Mux!Crash => Good'
  <1> SUFFICES ASSUME Good, Mux!Crash PROVE Good'
    OBVIOUS
  <1>1. /\ UNCHANGED <<entry, accepted, snd, digest, hand, finishing, queue, worker, item, error, wire>>
        /\ rcv' = "failed"
    BY DEF Mux!Crash, Mux!files, Mux!sending, Mux!schedule
  <1>2. Underway' = Underway
    BY <1>1, UnderwayStays
  <1> QED BY <1>1, <1>2, GoodEnds DEF Begun

Blank ==
    /\ snd = "resume" /\ rcv = "header"
    /\ worker = Mux!On("none") /\ queue = Mux!On(<< >>) /\ wire = Mux!On(<< >>)

\* An attempt begins with nothing read.
LEMMA Fresh ==
    ASSUME MuxBounds
    PROVE  Blank => Good
  <1> SUFFICES ASSUME Blank PROVE Good
    OBVIOUS
  <1>1. \A c \in Channels : worker[c] = "none" /\ queue[c] = << >> /\ wire[c] = << >>
    BY DEF Mux!On, Blank
  <1>2. ~Begun
    BY <1>1, OnTypes DEF Begun
  <1>3. \A c \in Channels, k \in Piece : ~At(c, k)
    BY <1>1 DEF At, Items
  <1>4. \A k : k \notin Underway
    BY <1>3 DEF Underway, Blank
  <1> QED BY <1>2, <1>4 DEF Blank, Good, Agreed, Right, Opened, NothingLost

LEMMA NextSound ==
    ASSUME MuxBounds
    PROVE  Core /\ Core' /\ Sound /\ [Mux!Next]_Mux!vars => Sound'
  <1> SUFFICES ASSUME Core, Core', Sound, [Mux!Next]_Mux!vars, Same' PROVE Good'
    BY DEF Sound
  <1>1. CASE Mux!Retry
    <2>1. Blank' => Good'
      BY Fresh, PTL
    <2>2. Blank'
      BY <1>1 DEF Mux!Retry, Mux!On, Blank
    <2> QED BY <2>1, <2>2
  <1>2. CASE Mux!Edit
    <2>1. /\ UNCHANGED entry /\ source'.version = source.version + 1
      BY <1>2 DEF Mux!Edit
    <2>2. entry.version <= source.version /\ entry.version \in Nat /\ source.version \in Nat
      BY DEF Core, Typed
    <2> QED BY <2>1, <2>2 DEF Same
  <1>3. CASE UNCHANGED Mux!vars
    <2>1. /\ UNCHANGED <<source, entry, accepted, snd, digest, hand, finishing, queue, worker, item, error, wire,
                         cut, rcv,
                         reader, failed, part>>
      BY <1>3 DEF Mux!vars, Mux!files, Mux!sending, Mux!schedule, Mux!network, Mux!receiving
    <2>2. Underway' = Underway
      BY <2>1, UnderwayStays
    <2>3. Broken' <=> Broken
      BY <2>1 DEF Broken, Ended
    <2>4. Good
      BY <2>1 DEF Sound, Same
    <2> QED BY <2>1, <2>2, <2>3, <2>4, GoodStays DEF Good, Begun
  <1>4. CASE Mux!Next /\ ~Mux!Retry /\ ~Mux!Edit
    <2>1. UNCHANGED <<source, entry>>
      BY <1>4 DEF Mux!Next, Mux!SenderStep, Mux!WorkerStep, Mux!ReaderStep, Mux!ReceiverStep, Mux!Accept,
         Mux!AcceptThrows, Mux!ReadNext, Mux!Enqueue,
                  Mux!EnqueueThrows, Mux!Join, Mux!SendTrailer, Mux!ReadAck, Mux!SendThrows, Mux!Take, Mux!SendData,
                  Mux!Account, Mux!LeaveLoop, Mux!SendChunkEnd,
                  Mux!WorkerQuits, Mux!WorkerFails, Mux!WriteChunk, Mux!ReadChunkEnd, Mux!RefuseChunk,
                  Mux!ChannelLost, Mux!ReaderFails, Mux!Break, Mux!Offer,
                  Mux!StartReceive, Mux!ReceiveReturns, Mux!ReceiveThrows, Mux!Complete, Mux!ReceiverThrows,
                  Mux!Crash, Mux!files
    <2>2. Same /\ Good
      BY <2>1 DEF Sound, Same
    <2> QED BY <1>4, <2>2, SoundSender, SoundWorker, SoundReader, SoundReceiver, SoundBreak, SoundCrash DEF Mux!Next
  <1> QED BY <1>1, <1>2, <1>3, <1>4

\* The final digest of MuxReceiveSession fails only when the source was rewritten after
\* the files were collected: every ChunkEnd that is read stands behind its channel's
\* chunks, and whatever could lose a chunk also keeps a ChunkEnd from arriving or makes
\* one of the two sides fail.
THEOREM MuxNeverCorrupt == MuxBounds /\ Mux!Spec => []Mux!NeverCorrupt
  <1> SUFFICES ASSUME MuxBounds PROVE Mux!Spec => []Mux!NeverCorrupt
    OBVIOUS
  <1>1. Mux!Init => Core /\ Sound
    <2>1. Mux!Init => Core
      BY InitTyped, InitOrder DEF Core
    <2>2. Mux!Init => Good
      BY Fresh DEF Mux!Init, Blank
    <2> QED BY <2>1, <2>2 DEF Sound
  <1>2. Core /\ Sound /\ [Mux!Next]_Mux!vars => Core' /\ Sound'
    BY NextCore, NextSound
  <1>3. Sound => Mux!NeverCorrupt
    BY DEF Sound, Same, Good, Mux!NeverCorrupt
  <1> QED BY <1>1, <1>2, <1>3, PTL DEF Mux!Spec

-----------------------------------------------------------------------------
(* The rest of the types.                                                  *)

\* A finite set of numbers has a bound.
LEMMA Bounded ==
    ASSUME NEW S \in SUBSET Nat, IsFiniteSet(S)
    PROVE  \E b \in Nat : \A n \in S : n <= b
  <1>1. PICK n \in Nat : ExistsSurjection(1..n, S)
    BY FS_NatSurjection
  <1>2. PICK f \in Surjection(1..n, S) : TRUE
    BY <1>1 DEF ExistsSurjection
  <1>3. f \in [1..n -> S] /\ \A s \in S : \E i \in 1..n : f[i] = s
    BY <1>2 DEF Surjection
  <1> DEFINE Top(i) == \E b \in Nat : \A j \in 1..i : f[j] <= b
             Bad    == {i \in 0..n : ~Top(i)}
  <1>4. ASSUME NEW i \in 0..n, i # 0, Top(i - 1) PROVE Top(i)
    <2>1. PICK b \in Nat : \A j \in 1..(i - 1) : f[j] <= b
      BY <1>4
    <2>2. ASSUME NEW j \in 1..i PROVE j \in 1..n /\ f[j] \in Nat
      <3>1. j \in 1..n
        BY <1>4
      <3> QED BY <1>3, <3>1
    <2>3. i \in 1..i
      BY <1>4
    <2>4. PICK m \in Nat : m = b + f[i]
      BY <2>1, <2>2, <2>3
    <2>5. ASSUME NEW j \in 1..i PROVE f[j] <= m
      <3>1. f[j] \in Nat /\ f[i] \in Nat
        BY <2>2, <2>3
      <3>2. CASE j = i
        BY <2>1, <2>4, <3>1, <3>2
      <3>3. CASE j # i
        <4>1. f[j] <= b
          BY <1>4, <2>1, <3>3
        <4> QED BY <2>1, <2>4, <3>1, <4>1
      <3> QED BY <3>2, <3>3
    <2> QED BY <2>5
  <1>5. Top(0)
    <2>1. \A j : j \notin 1..0
      OBVIOUS
    <2> QED BY <2>1
  <1>6. Bad \in SUBSET Nat /\ \A i : i \in Bad <=> i \in 0..n /\ ~Top(i)
    OBVIOUS
  <1>7. Top(n) => \E b \in Nat : \A s \in S : s <= b
    BY <1>3
  <1> HIDE DEF Top, Bad
  <1>8. Bad = {}
    <2> SUFFICES ASSUME Bad # {} PROVE FALSE
      OBVIOUS
    <2>1. PICK i \in Bad : \A j \in Bad : i <= j
      BY <1>6, Least
    <2>2. i \in 0..n /\ ~Top(i) /\ i # 0
      BY <1>5, <1>6
    <2>3. i - 1 \in 0..n /\ ~(i <= i - 1)
      BY <2>2
    <2>4. Top(i - 1)
      BY <1>6, <2>1, <2>3
    <2> QED BY <1>4, <2>2, <2>4
  <1>9. n \in 0..n
    BY <1>1
  <1>10. Top(n)
    BY <1>6, <1>8, <1>9
  <1> QED BY <1>7, <1>10

LEMMA LongestFile ==
    ASSUME MuxBounds
    PROVE  Mux!Max(Lengths) \in Nat /\ \A n \in Lengths : n <= Mux!Max(Lengths)
  <1>1. PICK b \in Nat : \A n \in Lengths : n <= b
    BY Bounded DEF MuxBounds
  <1> QED BY <1>1, Greatest DEF MuxBounds

\* What TypeOK says beyond Typed.
Limited ==
    /\ snd \in {"resume", "read", "enqueue", "join", "trailer", "ack", "done", "failed"}
    /\ rcv \in {"header", "resume_ack", "receive", "trailer"} \cup Mux!Over
    /\ target \in Seq(Mux!Contents)
    /\ pending \in [Channels -> 0..PendingLimit]
    /\ early \subseteq 1..Mux!Max(Lengths)
    /\ attempt \in 1..MaxAttempts

LEMMA InitLimited ==
    ASSUME MuxBounds
    PROVE  Mux!Init => Limited
  <1> SUFFICES ASSUME Mux!Init PROVE Limited
    OBVIOUS
  <1>1. Mux!On(0) \in [Channels -> 0..PendingLimit] /\ 1 \in 1..MaxAttempts
    BY DEF Mux!On, MuxBounds
  <1>2. << >> \in Seq(Mux!Contents)
    OBVIOUS
  <1> QED BY <1>1, <1>2 DEF Mux!Init, Limited

LEMMA LimitedSender ==
    ASSUME MuxBounds
    PROVE  Limited /\ Mux!SenderStep => Limited'
  <1> SUFFICES ASSUME Limited, Mux!SenderStep PROVE Limited'
    OBVIOUS
  <1>1. UNCHANGED <<rcv, target, early, attempt>>
        /\ snd' \in {"resume", "read", "enqueue", "join", "trailer", "ack", "done", "failed"}
    BY DEF Limited, Mux!SenderStep, Mux!Accept, Mux!AcceptThrows, Mux!ReadNext, Mux!Enqueue, Mux!EnqueueThrows,
       Mux!Join, Mux!SendTrailer, Mux!ReadAck,
           Mux!SendThrows, Mux!receiving, Mux!history
  <1>2. pending' \in [Channels -> 0..PendingLimit]
    <2>1. CASE \E c \in Channels : Mux!Enqueue(c)
      <3>1. PICK c \in Channels : pending[c] < PendingLimit /\ pending' = [pending EXCEPT ![c] = @ + 1]
        BY <2>1 DEF Mux!Enqueue, Mux!choose_ready_channel
      <3>2. pending[c] + 1 \in 0..PendingLimit
        BY <3>1 DEF Limited, MuxBounds
      <3> QED BY <3>1, <3>2 DEF Limited
    <2>2. CASE ~\E c \in Channels : Mux!Enqueue(c)
      <3>1. UNCHANGED pending
        BY <2>2 DEF Mux!SenderStep, Mux!Accept, Mux!AcceptThrows, Mux!ReadNext, Mux!EnqueueThrows, Mux!Join,
           Mux!SendTrailer, Mux!ReadAck, Mux!SendThrows, Mux!schedule
      <3> QED BY <3>1 DEF Limited
    <2> QED BY <2>1, <2>2
  <1> QED BY <1>1, <1>2 DEF Limited

LEMMA LimitedWorker == ASSUME MuxBounds, Limited, NEW c \in Channels, Mux!WorkerStep(c) PROVE Limited'
  <1>1. UNCHANGED <<snd, rcv, target, early, attempt>>
    BY DEF Mux!WorkerStep, Mux!Take, Mux!SendData, Mux!Account, Mux!LeaveLoop, Mux!SendChunkEnd, Mux!WorkerQuits,
       Mux!WorkerFails, Mux!sending, Mux!receiving, Mux!history
  <1>2. pending' \in [Channels -> 0..PendingLimit]
    <2>1. pending' = pending \/ (pending[c] > 0 /\ pending' = [pending EXCEPT ![c] = pending[c] - 1])
                             \/ pending' = [pending EXCEPT ![c] = 0]
      BY DEF Mux!WorkerStep, Mux!Take, Mux!SendData, Mux!Account, Mux!LeaveLoop, Mux!SendChunkEnd, Mux!WorkerQuits,
         Mux!WorkerFails
    <2>2. pending \in [Channels -> 0..PendingLimit] /\ 0 \in 0..PendingLimit
      BY DEF Limited, MuxBounds
    <2>3. pending[c] > 0 => pending[c] - 1 \in 0..PendingLimit
      BY <2>2 DEF MuxBounds
    <2> QED BY <2>1, <2>2, <2>3
  <1> QED BY <1>1, <1>2 DEF Limited

LEMMA LimitedReader == ASSUME MuxBounds, Typed, Reaching, Limited, NEW c \in Channels, Mux!ReaderStep(c) PROVE Limited'
  <1>1. UNCHANGED <<snd, rcv, target, pending, attempt>>
    BY DEF Mux!ReaderStep, Mux!WriteChunk, Mux!ReadChunkEnd, Mux!RefuseChunk, Mux!ChannelLost, Mux!ReaderFails,
       Mux!sending, Mux!schedule, Mux!history
  <1>2. early' \subseteq 1..Mux!Max(Lengths)
    <2>1. CASE Mux!WriteChunk(c)
      <3>1. PICK k \in Piece : k.at > have /\ k.at <= entry.length /\ Mux!record_written_range(k)
        BY <2>1, WriteFacts DEF Mux!WriteChunk
      <3>2. /\ k.at \in Nat /\ have \in Nat /\ entry.length \in Nat /\ entry.length <= Mux!Max(Lengths)
            /\ Mux!Max(Lengths) \in Nat
        BY LongestFile, FileFacts DEF Typed, Piece
      <3>3. k.at \in 1..Mux!Max(Lengths)
        BY <3>1, <3>2
      <3>4. early' \subseteq early \cup {k.at}
        BY <3>1 DEF Mux!record_written_range
      <3> QED BY <3>3, <3>4 DEF Limited
    <2>2. CASE ~Mux!WriteChunk(c)
      <3>1. UNCHANGED early
        BY <2>2 DEF Mux!ReaderStep, Mux!ReadChunkEnd, Mux!RefuseChunk, Mux!ChannelLost, Mux!ReaderFails
      <3> QED BY <3>1 DEF Limited
    <2> QED BY <2>1, <2>2
  <1> QED BY <1>1, <1>2 DEF Limited

LEMMA LimitedReceiver == Typed /\ Limited /\ Mux!ReceiverStep => Limited'
  <1> SUFFICES ASSUME Typed, Limited, Mux!ReceiverStep PROVE Limited'
    OBVIOUS
  <1>1. UNCHANGED <<snd, pending, attempt>> /\ rcv' \in {"header", "resume_ack", "receive", "trailer"} \cup Mux!Over
    BY DEF Mux!ReceiverStep, Mux!Offer, Mux!StartReceive, Mux!ReceiveReturns, Mux!ReceiveThrows, Mux!Complete,
       Mux!ReceiverThrows, Mux!sending, Mux!schedule,
           Mux!history, Mux!Over
  <1>2. early' = early \/ early' = {}
    BY DEF Mux!ReceiverStep, Mux!Offer, Mux!StartReceive, Mux!ReceiveReturns, Mux!ReceiveThrows, Mux!Complete,
       Mux!ReceiverThrows
  <1>3. target' = target \/ target' = part
    BY DEF Mux!ReceiverStep, Mux!Offer, Mux!StartReceive, Mux!ReceiveReturns, Mux!ReceiveThrows, Mux!Complete,
       Mux!ReceiverThrows
  <1>4. target' \in Seq(Mux!Contents)
    BY <1>3 DEF Typed, Limited
  <1> QED BY <1>1, <1>2, <1>4 DEF Limited

LEMMA LimitedOthers ==
    ASSUME MuxBounds
    PROVE  /\ Limited
           /\ (\E c \in Channels : Mux!Break(c)) \/ Mux!Crash \/ Mux!Edit \/ Mux!Retry \/ UNCHANGED Mux!vars
           => Limited'
  <1> SUFFICES ASSUME Limited,
                      (\E c \in Channels : Mux!Break(c)) \/ Mux!Crash \/ Mux!Edit \/ Mux!Retry \/ UNCHANGED Mux!vars
               PROVE  Limited'
    OBVIOUS
  <1>1. CASE Mux!Retry
    <2>1. Mux!On(0) \in [Channels -> 0..PendingLimit]
      BY DEF Mux!On, MuxBounds
    <2>2. attempt + 1 \in 1..MaxAttempts
      BY <1>1 DEF Mux!Retry, Limited, MuxBounds
    <2> QED BY <1>1, <2>1, <2>2 DEF Mux!Retry, Limited
  <1>2. CASE Mux!Crash
    BY <1>2 DEF Mux!Crash, Limited, Mux!Over, Mux!sending, Mux!schedule
  <1>3. CASE (\E c \in Channels : Mux!Break(c)) \/ Mux!Edit \/ UNCHANGED Mux!vars
    <2>1. UNCHANGED <<snd, rcv, target, pending, early, attempt>>
      BY <1>3 DEF Mux!Break, Mux!Edit, Mux!vars, Mux!sending, Mux!schedule, Mux!receiving, Mux!history
    <2> QED BY <2>1 DEF Limited
  <1> QED BY <1>1, <1>2, <1>3

\* Type correctness of the multiplexed transfer: what a channel has pending stays within
\* its limit, and what was written beyond the prefix within the longest file.
THEOREM MuxTypeCorrect == MuxBounds /\ Mux!Spec => []Mux!TypeOK
  <1> SUFFICES ASSUME MuxBounds PROVE Mux!Spec => []Mux!TypeOK
    OBVIOUS
  <1>1. Mux!Init => Core /\ Limited
    BY InitTyped, InitOrder, InitLimited DEF Core
  <1>2. Core /\ Limited /\ [Mux!Next]_Mux!vars => Core' /\ Limited'
    <2>1. Core /\ Limited /\ [Mux!Next]_Mux!vars => Limited'
      BY LimitedSender, LimitedWorker, LimitedReader, LimitedReceiver, LimitedOthers DEF Core, Mux!Next
    <2> QED BY <2>1, NextCore
  <1>3. Core /\ Limited => Mux!TypeOK
    <2> SUFFICES ASSUME Typed, Limited PROVE Mux!TypeOK
      BY DEF Core
    <2>1. Mux!Contents \subseteq Nat /\ Piece \subseteq Mux!Chunk
      BY ContentFacts DEF Piece, Mux!Chunk
    <2>2. queue \in [Channels -> Seq(Mux!Chunk)]
      <3>1. \A c \in Channels : queue[c] \in Seq(Mux!Chunk)
        BY <2>1 DEF Typed
      <3> QED BY <3>1 DEF Typed
    <2>3. item \in [Channels -> Mux!Chunk] /\ hand \in Mux!Chunk
      BY <2>1 DEF Typed
    <2>4. wire \in [Channels -> Seq([tag : {"data", "chunk_end", "file_end"}, chunk : Mux!Chunk])]
      <3> DEFINE F == [tag : {"data", "chunk_end", "file_end"}, chunk : Mux!Chunk]
      <3>1. Frames \subseteq F
        BY <2>1 DEF Frames
      <3> HIDE DEF F
      <3>2. \A c \in Channels : wire[c] \in Seq(F)
        BY <3>1 DEF Typed
      <3>3. wire \in [Channels -> Seq(F)]
        BY <3>2 DEF Typed
      <3> QED BY <3>3 DEF F
    <2>5. early \subseteq 1..(prefix + Mux!Max(Lengths))
      <3>1. prefix \in Nat /\ Mux!Max(Lengths) \in Nat
        BY LongestFile DEF Typed
      <3>2. \A n \in 1..Mux!Max(Lengths) : n \in 1..(prefix + Mux!Max(Lengths))
        BY <3>1
      <3> QED BY <3>2 DEF Limited
    <2> QED BY <2>2, <2>3, <2>4, <2>5 DEF Typed, Limited, Mux!TypeOK
  <1> QED BY <1>1, <1>2, <1>3, PTL DEF Mux!Spec
=============================================================================
