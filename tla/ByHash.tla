-------------------------------- MODULE ByHash --------------------------------
(* Retention of index files under the names of their digests: what each        *)
(* publish carries over from the live dists tree into the staged one before    *)
(* the two are exchanged.  The by-hash directories are part of dists, and so   *)
(* is the history of versions, so that a publish that fails changes neither.   *)
(* A publish runs under publish.lock: there is one staged tree at a time.      *)
(*                                                                             *)
(* Packages, Packages.gz and Release of one directory share its by-hash        *)
(* directory, but no two of them ever have the same bytes: a hashed file is    *)
(* known by its index and its digest.                                          *)
EXTENDS Naturals

CONSTANTS
    Index,       \* index files: suite, component, architecture, file name
    Digest,      \* their contents, told apart by SHA256
    Retention,   \* RETENTION_SECONDS
    MaxTime,     \* bound on the clock
    None         \* no index, no version, no file, no tree

ASSUME RetentionAssumption == Retention \in Nat /\ MaxTime \in Nat
ASSUME NoneAssumption == None \notin Digest /\ None \notin Nat

VARIABLES
    now,         \* the clock
    live,        \* the dists tree that is served
    staged,      \* the tree that a publish under way has prepared, or None
    retired,     \* when each hashed file ceased to be current (history)
    past         \* the two versions of each index before the current (history)

vars == <<now, live, staged, retired, past>>

Hash == Index \X Digest
Time == 0 .. MaxTime

\* current: the index files; files: time stamps of the hashed files; at: the
\* clock when the tree was prepared; history: three versions, the newest first.
Tree == [current : [Index -> Digest \cup {None}],
         history : [Index -> [1 .. 3 -> Digest \cup {None}]],
         files   : [Hash -> Time \cup {None}],
         at      : Time]

ASSUME TreeAssumption == None \notin Tree

NoVersions == <<None, None, None>>

Init ==
    /\ now = 0
    /\ live = [current |-> [i \in Index |-> None],
               history |-> [i \in Index |-> NoVersions],
               files   |-> [k \in Hash |-> None],
               at      |-> 0]
    /\ staged = None
    /\ retired = [k \in Hash |-> None]
    /\ past = [i \in Index |-> <<None, None>>]

Current(tree, k) == tree.current[k[1]] = k[2]
Kept(tree, k) == tree.files[k] # None

-----------------------------------------------------------------------------
(* prepare_by_hash.                                                            *)

\* The digest in front of the others, without repetition, three at most.
Versions(h, d) ==
    IF d = h[1] THEN h
    ELSE IF d = h[2] THEN <<d, h[1], h[3]>>
    ELSE <<d, h[1], h[2]>>

\* The history of an index that is not rendered any more is dropped.
NewHistory(index) ==
    [i \in Index |-> IF index[i] = None THEN NoVersions
                     ELSE Versions(live.history[i], index[i])]

Protected(history, k) == \E n \in 1 .. 3 : history[k[1]][n] = k[2]

\* Fault: the time stamp of a file that retires is not renewed.
Unrenewed(index, history, k) ==
    IF index[k[1]] = k[2] THEN now
    ELSE IF ~Kept(live, k) THEN None
    ELSE IF Protected(history, k) \/ live.files[k] + Retention >= now
         THEN live.files[k]
    ELSE None

\* Fault: every file that is carried over is renewed.
AllRenewed(index, history, k) ==
    IF index[k[1]] = k[2] THEN now
    ELSE IF ~Kept(live, k) THEN None
    ELSE IF \/ Current(live, k) \/ Protected(history, k)
            \/ live.files[k] + Retention >= now
         THEN now
    ELSE None

\* Time stamp of a hashed file in the staged tree: now if it is current, now if
\* it was current until this publish, the old one if it is carried over.
Stamp(index, history, k) ==
    IF index[k[1]] = k[2] THEN now
    ELSE IF ~Kept(live, k) THEN None
    ELSE IF Current(live, k) THEN now
    ELSE IF Protected(history, k) \/ live.files[k] + Retention >= now
         THEN live.files[k]
    ELSE None

\* The indexes are rendered from the packages and settings of the moment, then
\* the hashed files are linked or copied.
prepare_by_hash ==
    /\ staged = None
    /\ \E index \in [Index -> Digest \cup {None}] :
          staged' = [current |-> index,
                     history |-> NewHistory(index),
                     files   |-> [k \in Hash |-> Stamp(index, NewHistory(index), k)],
                     at      |-> now]
    /\ UNCHANGED <<now, live, retired, past>>

-----------------------------------------------------------------------------
(* The rest of publish_unlocked, as far as dists is concerned.                 *)

Displaced(i) == staged.current[i] # live.current[i]

\* An index that was not there has no past versions; a version that comes back
\* leaves the past.
NewPast(i) ==
    IF staged.current[i] = None \/ live.current[i] = None THEN <<None, None>>
    ELSE IF ~Displaced(i) THEN past[i]
    ELSE <<live.current[i],
           IF past[i][1] = staged.current[i] THEN past[i][2] ELSE past[i][1]>>

rename_exchange ==
    /\ staged # None
    /\ live' = staged
    /\ staged' = None
    /\ retired' = [k \in Hash |->
                      IF Current(staged, k) THEN None
                      ELSE IF Current(live, k) THEN staged.at ELSE retired[k]]
    /\ past' = [i \in Index |-> NewPast(i)]
    /\ UNCHANGED now

\* Fault: the history is kept outside of dists.
FailAdvancingHistory ==
    /\ staged # None
    /\ live' = [live EXCEPT !.history = staged.history]
    /\ staged' = None
    /\ UNCHANGED <<now, retired, past>>

\* Signing or the exchange fails, or the process dies: the staged tree is
\* removed now or by the next publish.
PublishFails ==
    /\ staged # None
    /\ staged' = None
    /\ UNCHANGED <<now, live, retired, past>>

Tick ==
    /\ now < MaxTime
    /\ now' = now + 1
    /\ UNCHANGED <<live, staged, retired, past>>

Next == prepare_by_hash \/ rename_exchange \/ PublishFails \/ Tick

Spec == Init /\ [][Next]_vars

-----------------------------------------------------------------------------
(* Correctness.                                                                *)

TypeOK ==
    /\ now \in Time
    /\ live \in Tree
    /\ staged \in Tree \cup {None}
    /\ retired \in [Hash -> Time \cup {None}]
    /\ past \in [Index -> [1 .. 2 -> Digest \cup {None}]]

\* README, "Publishing retains hash-addressed indexes for seven days": a client
\* that read a Release can fetch its indexes by hash while they are current and
\* for the retention period after the publish that replaced them began, however
\* many publishes succeed or fail in between and however old the index was.
Fetchable ==
    \A k \in Hash :
        \/ Current(live, k)
        \/ retired[k] # None /\ retired[k] + Retention >= now
        => Kept(live, k)

\* README, "and at least two previous versions of each current index": whatever
\* their age, as long as the index itself stays.
TwoPreviousKept ==
    \A i \in Index, n \in {1, 2} : past[i][n] # None => Kept(live, <<i, past[i][n]>>)

\* Nothing else stays: a publish drops what retired before the retention period.
Collected ==
    \A k \in Hash : Kept(live, k) =>
        \/ Current(live, k)
        \/ \E n \in {1, 2} : past[k[1]][n] = k[2]
        \/ retired[k] # None /\ retired[k] + Retention >= live.at
=============================================================================
