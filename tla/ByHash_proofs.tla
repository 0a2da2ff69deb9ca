----------------------------- MODULE ByHash_proofs -----------------------------
(* Retention, for every set of indexes and digests, every retention period and *)
(* however long the clock runs.                                                *)
EXTENDS ByHash, TLAPS

\* Whether the last three publishes left a version is read off the history, which
\* is the current version and the two before it.
HistoryInv ==
    \A i \in Index :
        IF live.current[i] = None
        THEN live.history[i] = NoVersions /\ past[i] = <<None, None>>
        ELSE live.history[i] = <<live.current[i], past[i][1], past[i][2]>>

\* A hashed file bears the time at which it retired, and stays for the period.
StampInv ==
    \A k \in Hash :
        /\ Current(live, k) => Kept(live, k)
        /\ Current(live, k) <=> Kept(live, k) /\ retired[k] = None
        /\ retired[k] # None /\ Kept(live, k) => live.files[k] = retired[k]
        /\ retired[k] # None /\ retired[k] + Retention >= live.at => Kept(live, k)

\* Stamp, at the time of the staged tree.
StagedStamp(k) ==
    IF staged.current[k[1]] = k[2] THEN staged.at
    ELSE IF ~Kept(live, k) THEN None
    ELSE IF Current(live, k) THEN staged.at
    ELSE IF \/ Protected(staged.history, k)
            \/ live.files[k] + Retention >= staged.at
         THEN live.files[k]
    ELSE None

\* What was staged was made of the tree that is still live.
StagedInv ==
    staged # None =>
        /\ live.at <= staged.at
        /\ staged.at <= now
        /\ staged.history = NewHistory(staged.current)
        /\ \A k \in Hash : staged.files[k] = StagedStamp(k)

Inv ==
    /\ TypeOK
    /\ live.at <= now
    /\ HistoryInv
    /\ StampInv
    /\ StagedInv
    /\ TwoPreviousKept
    /\ Collected

USE DEF Hash, Time

\* The history of an index after a publish is a history.
LEMMA VersionsType ==
    ASSUME NEW h \in [1 .. 3 -> Digest \cup {None}], NEW d \in Digest
    PROVE  Versions(h, d) \in [1 .. 3 -> Digest \cup {None}]
BY DEF Versions

\* The history of the new tree is its current version and the new past.
LEMMA HistoryPast ==
    ASSUME Inv, staged # None,
           NEW i \in Index, staged.current[i] # None
    PROVE  staged.history[i] = <<staged.current[i], NewPast(i)[1], NewPast(i)[2]>>
<1> DEFINE d == staged.current[i]
           h == live.history[i]
<1>0. staged.history[i] = Versions(h, d)
      BY DEF Inv, StagedInv, NewHistory
<1>1. past[i] \in [1 .. 2 -> Digest \cup {None}]
      BY DEF Inv, TypeOK
<1>2. d \in Digest /\ d # None
      BY NoneAssumption DEF Inv, TypeOK, Tree
<1>3. CASE live.current[i] = None
      BY <1>0, <1>2, <1>3 DEF Inv, HistoryInv, NoVersions, Versions, NewPast
<1>4. CASE live.current[i] # None
  <2>1. h = <<live.current[i], past[i][1], past[i][2]>>
        BY <1>4 DEF Inv, HistoryInv
  <2>2. CASE d = live.current[i]
        BY <1>0, <1>4, <2>1, <2>2, <1>2 DEF Versions, NewPast, Displaced
  <2>3. CASE d # live.current[i] /\ d = past[i][1]
        BY <1>0, <1>4, <2>1, <2>3, <1>2 DEF Versions, NewPast, Displaced
  <2>4. CASE d # live.current[i] /\ d # past[i][1]
        BY <1>0, <1>4, <2>1, <2>4, <1>2 DEF Versions, NewPast, Displaced
  <2> QED BY <2>2, <2>3, <2>4
<1> QED BY <1>3, <1>4

-----------------------------------------------------------------------------

\* The invariant holds initially.
LEMMA InitInv == Init => Inv
<1> SUFFICES ASSUME Init PROVE Inv
    OBVIOUS
<1> USE RetentionAssumption, NoneAssumption
<1>1. /\ live.current \in [Index -> Digest \cup {None}]
      /\ live.history \in [Index -> [1 .. 3 -> Digest \cup {None}]]
      /\ live.files \in [Hash -> Time \cup {None}]
      /\ live.at \in Time
      BY DEF Init, NoVersions
<1>2. TypeOK
      BY <1>1 DEF Init, TypeOK, Tree
<1>3. \A k \in Hash : ~Current(live, k) /\ ~Kept(live, k)
      BY DEF Init, Current, Kept
<1>4. StampInv /\ Collected
      BY <1>3 DEF Init, StampInv, Collected
<1>5. HistoryInv /\ TwoPreviousKept
      BY DEF Init, HistoryInv, TwoPreviousKept
<1> QED BY <1>2, <1>4, <1>5 DEF Init, Inv, StagedInv

\* Time alone changes nothing: ages are compared when a publish is prepared.
LEMMA TickStep == Inv /\ Tick => Inv'
<1> SUFFICES ASSUME Inv, Tick PROVE Inv'
    OBVIOUS
<1> USE RetentionAssumption
<1>1. TypeOK'
      BY DEF Inv, TypeOK, Tick
<1>2. now' >= now
      BY DEF Inv, TypeOK, Tick
<1>3. staged # None => staged \in Tree
      BY DEF Inv, TypeOK
<1>4. (live.at <= now)' /\ StagedInv'
      BY <1>2, <1>3 DEF Inv, TypeOK, Tick, StagedInv, StagedStamp, Tree, NewHistory,
                        Current, Kept, Protected
<1>5. (HistoryInv /\ StampInv /\ TwoPreviousKept /\ Collected)'
      BY DEF Inv, Tick, HistoryInv, StampInv, TwoPreviousKept, Collected, Current, Kept
<1> QED BY <1>1, <1>4, <1>5 DEF Inv

\* A publish keeps the invariant: it carries over what the history and the time
\* stamps of the live index tell it to.
LEMMA PrepareStep == Inv /\ prepare_by_hash => Inv'
<1> SUFFICES ASSUME Inv, prepare_by_hash PROVE Inv'
    OBVIOUS
<1> USE RetentionAssumption, NoneAssumption
<1>1. PICK index \in [Index -> Digest \cup {None}] :
         staged' = [current |-> index,
                    history |-> NewHistory(index),
                    files   |-> [k \in Hash |-> Stamp(index, NewHistory(index), k)],
                    at      |-> now]
      BY DEF prepare_by_hash
<1>2. NewHistory(index) \in [Index -> [1 .. 3 -> Digest \cup {None}]]
  <2> SUFFICES ASSUME NEW i \in Index
               PROVE  NewHistory(index)[i] \in [1 .. 3 -> Digest \cup {None}]
      BY DEF NewHistory
  <2>1. live.history[i] \in [1 .. 3 -> Digest \cup {None}]
        BY DEF Inv, TypeOK, Tree
  <2>2. CASE index[i] = None
        BY <2>2 DEF NewHistory, NoVersions
  <2>3. CASE index[i] # None
        BY <2>1, <2>3, VersionsType DEF NewHistory
  <2> QED BY <2>2, <2>3
<1>3. \A k \in Hash : Stamp(index, NewHistory(index), k) \in Time \cup {None}
      BY DEF Inv, TypeOK, Tree, Stamp, Kept
<1>4. staged' \in Tree
      BY <1>1, <1>2, <1>3 DEF Inv, TypeOK, Tree
<1>5. TypeOK'
      BY <1>4 DEF Inv, TypeOK, prepare_by_hash
<1>6. StagedInv'
  <2>1. live' = live /\ now' = now
        BY DEF prepare_by_hash
  <2>2. staged'.history = NewHistory(index) /\ staged'.current = index /\ staged'.at = now
        BY <1>1
  <2>3. NewHistory(staged.current)' = NewHistory(index)
        BY <2>1, <2>2 DEF NewHistory
  <2>4. ASSUME NEW k \in Hash
        PROVE  staged'.files[k] = StagedStamp(k)'
    <3>1. staged'.files[k] = Stamp(index, NewHistory(index), k)
          BY <1>1
    <3>2. QED
          BY <2>1, <2>2, <3>1 DEF StagedStamp, Stamp, Kept, Current
  <2>5. live.at <= now /\ now <= now
        BY DEF Inv, TypeOK
  <2> QED BY <2>1, <2>2, <2>3, <2>4, <2>5 DEF StagedInv
<1>7. (live.at <= now /\ HistoryInv /\ StampInv /\ TwoPreviousKept /\ Collected)'
      BY DEF Inv, prepare_by_hash, HistoryInv, StampInv, TwoPreviousKept, Collected,
             Current, Kept
<1> QED BY <1>5, <1>6, <1>7 DEF Inv

\* A publish that fails keeps the invariant: the live history is not advanced.
LEMMA FailStep == Inv /\ PublishFails => Inv'
BY DEF Inv, TypeOK, PublishFails, HistoryInv, StampInv, StagedInv, TwoPreviousKept,
       Collected, Current, Kept

\* The exchange: what the history protects are the two versions of the past, and
\* what it does not protect has the time stamp to speak for it.
LEMMA ExchangeStep == Inv /\ rename_exchange => Inv'
<1> SUFFICES ASSUME Inv, rename_exchange PROVE Inv'
    OBVIOUS
<1> USE RetentionAssumption, NoneAssumption
<1>1. staged \in Tree /\ live \in Tree /\ staged # None
      BY DEF Inv, TypeOK, rename_exchange
<1>2. /\ \A k \in Hash : staged.files[k] = StagedStamp(k)
      /\ live.at \in Nat /\ staged.at \in Nat /\ now \in Nat
      /\ live.at <= staged.at /\ staged.at <= now
      BY <1>1 DEF Inv, StagedInv, Tree, TypeOK
<1>3. \A i \in Index : NewPast(i) \in [1 .. 2 -> Digest \cup {None}]
      BY <1>1 DEF Inv, TypeOK, Tree, NewPast
<1>4. \A k \in Hash : retired'[k] = IF Current(staged, k) THEN None
                                    ELSE IF Current(live, k) THEN staged.at
                                    ELSE retired[k]
      BY DEF rename_exchange
<1>5. \A i \in Index : past'[i] = NewPast(i)
      BY DEF rename_exchange
<1>6. TypeOK'
  <2>1. retired' \in [Hash -> Time \cup {None}]
        BY <1>1 DEF Inv, TypeOK, Tree, rename_exchange
  <2>2. past' \in [Index -> [1 .. 2 -> Digest \cup {None}]]
        BY <1>3 DEF rename_exchange
  <2> QED BY <1>1, <2>1, <2>2 DEF Inv, TypeOK, rename_exchange
<1>7. (live.at <= now)' /\ StagedInv'
      BY <1>2 DEF rename_exchange, StagedInv
<1>8. HistoryInv'
  <2> SUFFICES ASSUME NEW i \in Index
               PROVE  IF staged.current[i] = None
                      THEN staged.history[i] = NoVersions /\ NewPast(i) = <<None, None>>
                      ELSE staged.history[i]
                              = <<staged.current[i], NewPast(i)[1], NewPast(i)[2]>>
      BY <1>5 DEF HistoryInv, rename_exchange
  <2>1. CASE staged.current[i] = None
        BY <1>1, <2>1 DEF Inv, StagedInv, NewHistory, NewPast
  <2>2. CASE staged.current[i] # None
        BY <1>1, <2>2, HistoryPast
  <2> QED BY <2>1, <2>2
<1>9. ASSUME NEW k \in Hash
      PROVE  /\ Protected(staged.history, k) /\ ~Current(staged, k) =>
                   \E n \in {1, 2} : NewPast(k[1])[n] = k[2]
             /\ ~Protected(staged.history, k) =>
                   \A n \in {1, 2} : NewPast(k[1])[n] # k[2]
  <2>1. k[1] \in Index /\ k[2] \in Digest /\ k[2] # None
        OBVIOUS
  <2>2. CASE staged.current[k[1]] = None
    <3>1. staged.history[k[1]] = NoVersions
          BY <1>1, <2>1, <2>2 DEF Inv, StagedInv, NewHistory
    <3>2. NewPast(k[1]) = <<None, None>>
          BY <2>2 DEF NewPast
    <3> QED BY <2>1, <3>1, <3>2 DEF Protected, NoVersions
  <2>3. CASE staged.current[k[1]] # None
    <3> DEFINE h == staged.history[k[1]]
               q == NewPast(k[1])
    <3>1. h = <<staged.current[k[1]], q[1], q[2]>>
          BY <1>1, <2>1, <2>3, HistoryPast
    <3>2. h[1] = staged.current[k[1]] /\ h[2] = q[1] /\ h[3] = q[2]
          BY <3>1
    <3>3. Protected(staged.history, k) <=> h[1] = k[2] \/ h[2] = k[2] \/ h[3] = k[2]
          BY DEF Protected
    <3> HIDE DEF h, q
    <3>4. QED
          BY <3>2, <3>3 DEF Current, q
  <2> QED BY <2>2, <2>3
<1>10. StampInv'
  <2> SUFFICES ASSUME NEW k \in Hash
               PROVE  /\ Current(staged, k) => Kept(staged, k)
                      /\ Current(staged, k) <=> Kept(staged, k) /\ retired'[k] = None
                      /\ retired'[k] # None /\ Kept(staged, k)
                            => staged.files[k] = retired'[k]
                      /\ retired'[k] # None /\ retired'[k] + Retention >= staged.at
                            => Kept(staged, k)
      BY DEF StampInv, rename_exchange
  <2>1. staged.files[k] = StagedStamp(k)
        BY <1>2
  <2>2. /\ Current(live, k) <=> Kept(live, k) /\ retired[k] = None
        /\ retired[k] # None /\ Kept(live, k) => live.files[k] = retired[k]
        /\ retired[k] # None /\ retired[k] + Retention >= live.at => Kept(live, k)
        BY DEF Inv, StampInv
  <2>3. retired[k] # None => retired[k] \in Nat
        BY DEF Inv, TypeOK
  <2>4. CASE Current(staged, k)
        BY <1>2, <1>4, <2>1, <2>4 DEF StagedStamp, Kept, Current
  <2>5. CASE ~Current(staged, k) /\ Current(live, k)
        BY <1>2, <1>4, <2>1, <2>2, <2>5 DEF StagedStamp, Kept, Current
  <2>6. CASE ~Current(staged, k) /\ ~Current(live, k)
    <3>1. retired'[k] = retired[k]
          BY <1>4, <2>6
    <3>2. Kept(staged, k) => Kept(live, k) /\ staged.files[k] = live.files[k]
          BY <2>1, <2>6 DEF StagedStamp, Kept, Current
    <3>3. retired[k] # None /\ retired[k] + Retention >= staged.at => Kept(staged, k)
      <4> SUFFICES ASSUME retired[k] # None, retired[k] + Retention >= staged.at
                   PROVE  Kept(staged, k)
          OBVIOUS
      <4>1. Kept(live, k)
            BY <1>2, <2>2, <2>3
      <4>2. live.files[k] = retired[k]
            BY <2>2, <4>1
      <4> QED BY <2>1, <2>3, <2>6, <4>1, <4>2 DEF StagedStamp, Kept, Current
    <3> QED BY <2>2, <2>6, <3>1, <3>2, <3>3
  <2> QED BY <2>4, <2>5, <2>6
<1>11. TwoPreviousKept'
  <2> SUFFICES ASSUME NEW i \in Index, NEW n \in {1, 2}, NewPast(i)[n] # None
               PROVE  Kept(staged, <<i, NewPast(i)[n]>>)
      BY <1>5 DEF TwoPreviousKept, rename_exchange, Kept
  <2> DEFINE k == <<i, NewPast(i)[n]>>
  <2>1. k \in Hash /\ k[1] = i /\ k[2] = NewPast(i)[n]
        BY <1>3
  <2>2. Protected(staged.history, k)
        BY <1>9, <2>1
  <2>3. Kept(live, k)
    <3>1. \/ NewPast(i)[n] = live.current[i]
          \/ \E m \in {1, 2} : NewPast(i)[n] = past[i][m]
          BY DEF NewPast
    <3>2. CASE NewPast(i)[n] = live.current[i]
          BY <2>1, <3>2 DEF Inv, StampInv, Current
    <3>3. CASE \E m \in {1, 2} : NewPast(i)[n] = past[i][m]
          BY <3>3 DEF Inv, TwoPreviousKept
    <3> QED BY <3>1, <3>2, <3>3
  <2>4. staged.files[k] = StagedStamp(k)
        BY <1>2, <2>1
  <2> HIDE DEF k
  <2>5. StagedStamp(k) # None
        BY <1>2, <2>2, <2>3 DEF StagedStamp, Kept
  <2> QED BY <2>4, <2>5 DEF Kept, k
<1>12. Collected'
  <2> SUFFICES ASSUME NEW k \in Hash, Kept(staged, k), ~Current(staged, k)
               PROVE  \/ \E n \in {1, 2} : NewPast(k[1])[n] = k[2]
                      \/ retired'[k] # None /\ retired'[k] + Retention >= staged.at
      BY <1>5 DEF Collected, rename_exchange, Kept, Current
  <2>1. staged.files[k] = StagedStamp(k)
        BY <1>2
  <2>2. CASE Current(live, k)
        BY <1>2, <1>4, <2>2
  <2>3. CASE ~Current(live, k) /\ Protected(staged.history, k)
        BY <1>9, <2>3
  <2>4. CASE ~Current(live, k) /\ ~Protected(staged.history, k)
    <3>1. Kept(live, k) /\ live.files[k] + Retention >= staged.at
          BY <2>1, <2>4 DEF StagedStamp, Kept, Current
    <3>2. retired[k] # None /\ live.files[k] = retired[k]
          BY <2>4, <3>1 DEF Inv, StampInv
    <3> QED BY <1>4, <2>4, <3>1, <3>2
  <2> QED BY <2>2, <2>3, <2>4
<1> QED BY <1>6, <1>7, <1>8, <1>10, <1>11, <1>12 DEF Inv

-----------------------------------------------------------------------------

\* The invariant holds in every state.
THEOREM InvAlways == Spec => []Inv
<1>1. Inv /\ [Next]_vars => Inv'
  <2> SUFFICES ASSUME Inv, [Next]_vars PROVE Inv'
      OBVIOUS
  <2>1. CASE prepare_by_hash
        BY <2>1, PrepareStep
  <2>2. CASE rename_exchange
        BY <2>2, ExchangeStep
  <2>3. CASE PublishFails
        BY <2>3, FailStep
  <2>4. CASE Tick
        BY <2>4, TickStep
  <2>5. CASE UNCHANGED vars
        BY <2>5 DEF vars, Inv, TypeOK, HistoryInv, StampInv, StagedInv, StagedStamp,
                    NewHistory, TwoPreviousKept, Collected, Current, Kept
  <2> QED BY <2>1, <2>2, <2>3, <2>4, <2>5 DEF Next
<1> QED BY InitInv, <1>1, PTL DEF Spec

\* Every index can be fetched by hash while it is current and for the retention
\* period after it ceased to be (byhash.py:29-63).
THEOREM AlwaysFetchable == Spec => []Fetchable
<1>1. Inv => Fetchable
  <2> SUFFICES ASSUME Inv, NEW k \in Hash,
                      \/ Current(live, k)
                      \/ retired[k] # None /\ retired[k] + Retention >= now
               PROVE  Kept(live, k)
      BY DEF Fetchable
  <2>1. /\ retired[k] # None => retired[k] \in Nat
        /\ live.at \in Nat /\ now \in Nat /\ live.at <= now
        BY DEF Inv, TypeOK, Tree
  <2> QED BY <2>1, RetentionAssumption DEF Inv, StampInv
<1> QED BY InvAlways, <1>1, PTL

\* Two previous versions of an index outlive the period (byhash.py:47-50).
THEOREM TwoPreviousAlwaysKept == Spec => []TwoPreviousKept
<1>1. Inv => TwoPreviousKept
      BY DEF Inv
<1> QED BY InvAlways, <1>1, PTL

\* A publish leaves nothing behind that retired before the period (byhash.py:61-62).
THEOREM AlwaysCollected == Spec => []Collected
<1>1. Inv => Collected
      BY DEF Inv
<1> QED BY InvAlways, <1>1, PTL

\* Variables keep their types.
THEOREM TypeCorrect == Spec => []TypeOK
<1>1. Inv => TypeOK
      BY DEF Inv
<1> QED BY InvAlways, <1>1, PTL
=============================================================================
