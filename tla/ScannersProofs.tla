--------------------------- MODULE ScannersProofs ---------------------------
(***************************************************************************)
(* What the scanners leave behind is journaled, and what the horizon lets  *)
(* settle is complete, for any number of transfers, scanners, pages and    *)
(* faults.  Leases play no part in the argument: scans only add to the     *)
(* journal, and each of them knows on its own what it may say it has read. *)
(***************************************************************************)
EXTENDS Scanners, FiniteSetTheorems, TLAPS

-----------------------------------------------------------------------------
(* Finite sets of naturals, and the place of an element in them.            *)

\* A set of naturals that is not empty has a least element, and if it is bounded
\* a greatest: what Min and Max pick.
LEMMA HasLeast ==
  ASSUME NEW S \in SUBSET Nat, S # {}
  PROVE  \E m \in S : \A y \in S : m <= y
  <1> DEFINE R == {ss \in Nat \X Nat : ss[1] < ss[2]}
  <1>1. R = OpToRel(<, Nat)
    BY DEF OpToRel
  <1>2. IsWellFoundedOn(R, Nat)
    BY <1>1, NatLessThanWellFounded
  <1>3. PICK m \in S : \A y \in S : ~ (<<y, m>> \in R)
    <2> HIDE DEF R
    <2> QED  BY <1>2, WFMin
  <1>4. ASSUME NEW y \in S
        PROVE  m <= y
    <2>1. <<y, m>> \in Nat \X Nat /\ <<y, m>>[1] = y /\ <<y, m>>[2] = m
      OBVIOUS
    <2>2. ~ (y < m)
      BY <1>3, <2>1
    <2> QED  BY <2>2
  <1> QED  BY <1>4

LEMMA MinIsLeast ==
  ASSUME NEW S \in SUBSET Nat, S # {}
  PROVE  Min(S) \in S /\ \A y \in S : Min(S) <= y
  <1>1. PICK m \in S : \A y \in S : m <= y
    BY HasLeast
  <1> QED  BY <1>1 DEF Min

LEMMA MaxIsGreatest ==
  ASSUME NEW S \in SUBSET Nat, S # {}, NEW b \in Nat, \A x \in S : x <= b
  PROVE  Max(S) \in S /\ \A y \in S : Max(S) >= y
  <1> DEFINE D == {b - x : x \in S}
  <1>1. D \subseteq Nat
    <2> SUFFICES ASSUME NEW x \in S
                 PROVE  b - x \in Nat
      OBVIOUS
    <2> QED  BY x <= b
  <1>2. D # {}
    OBVIOUS
  <1>3. PICK d \in D : \A y \in D : d <= y
    <2> HIDE DEF D
    <2> QED  BY <1>1, <1>2, HasLeast
  <1>4. PICK m \in S : d = b - m
    OBVIOUS
  <1>5. ASSUME NEW y \in S
        PROVE  m >= y
    <2>1. b - y \in D
      OBVIOUS
    <2>2. b - m <= b - y
      BY <1>3, <1>4, <2>1
    <2> QED  BY <2>2
  <1> QED  BY <1>5 DEF Max

\* The places of an element are naturals, below the size of the set it is in,
\* grow with the set, and follow the order of the elements.
LEMMA PlaceType ==
  ASSUME NEW S, IsFiniteSet(S), NEW i
  PROVE  Before(S, i) \in Nat /\ After(S, i) \in Nat
  BY FS_Subset, FS_CardinalityType DEF Before, After

LEMMA PlaceInSize ==
  ASSUME NEW S \in SUBSET Nat, IsFiniteSet(S), NEW i \in S
  PROVE  Before(S, i) < Cardinality(S) /\ After(S, i) < Cardinality(S)
  <1>1. IsFiniteSet(S \ {i}) /\ Cardinality(S \ {i}) = Cardinality(S) - 1
    BY FS_RemoveElement
  <1>2. {j \in S : j < i} \subseteq S \ {i} /\ {j \in S : j > i} \subseteq S \ {i}
    OBVIOUS
  <1>3. Before(S, i) <= Cardinality(S \ {i}) /\ After(S, i) <= Cardinality(S \ {i})
    BY <1>1, <1>2, FS_Subset DEF Before, After
  <1>4. Cardinality(S) \in Nat /\ Before(S, i) \in Nat /\ After(S, i) \in Nat
    BY FS_CardinalityType, PlaceType
  <1> QED  BY <1>1, <1>3, <1>4

LEMMA PlaceGrows ==
  ASSUME NEW S, NEW T, IsFiniteSet(T), S \subseteq T, NEW i
  PROVE  Before(S, i) <= Before(T, i) /\ After(S, i) <= After(T, i)
  <1>1. /\ IsFiniteSet({j \in T : j < i}) /\ {j \in S : j < i} \subseteq {j \in T : j < i}
        /\ IsFiniteSet({j \in T : j > i}) /\ {j \in S : j > i} \subseteq {j \in T : j > i}
    BY FS_Subset
  <1> QED  BY <1>1, FS_Subset DEF Before, After

LEMMA AfterFollowsOrder ==
  ASSUME NEW S \in SUBSET Nat, IsFiniteSet(S), NEW i \in Nat, NEW k \in Nat, i <= k
  PROVE  After(S, k) <= After(S, i)
  <1>1. IsFiniteSet({j \in S : j > i})
    BY FS_Subset
  <1>2. ASSUME NEW j \in S, j > k
        PROVE  j > i
    <2>1. j \in Nat
      OBVIOUS
    <2> QED  BY <1>2, <2>1
  <1>3. {j \in S : j > k} \subseteq {j \in S : j > i}
    BY <1>2
  <1> QED  BY <1>1, <1>3, FS_Subset DEF After
-----------------------------------------------------------------------------
(* The invariant.                                                           *)

\* The blockchain and the provider keep their word.
Provider ==
  /\ \A i \in Transfers : chain[i].at <= now
  /\ \A i, k \in Transfers : i <= k => chain[i].at <= chain[k].at
  /\ \A i \in Transfers \ visible : now <= chain[i].at + Lag
  /\ \A i \in visible : \A k \in Transfers :
       chain[i].stream = "GRAM" /\ chain[k].stream = "GRAM" /\ k < i => k \in visible

\* What a cursor says has been scanned is journaled.
CursorSound(s) ==
  /\ cursor[s].through <= now
  /\ Behind(s) \subseteq journal
  /\ \A i \in Transfers : chain[i].stream = s /\ Passed(s, i) => i \in journal
  /\ cursor[s].last # 0 =>
       s = "GRAM" /\ cursor[s].last \in visible /\ chain[cursor[s].last].stream = "GRAM"

Of(w) == {i \in Transfers : chain[i].stream = StreamOf[w]}

\* What a scan will claim to have read: what the provider has shown since the
\* batch began, and what precedes the transfer that becomes the cursor.
Claims(w) ==
  {i \in Of(w) : \/ chain[i].at + Lag < worker[w].batch
                 \/ worker[w].newest # 0 /\ i <= worker[w].newest}

Place(w, i) == IF Gram(w) THEN After(GramWindow(w), i) ELSE Before(UsdtWindow(w), i)

\* What lies before the scan's starting point is journaled.
StartSound(w) ==
  IF Gram(w)
  THEN worker[w].from # 0 =>
         /\ worker[w].from \in visible \cap Of(w)
         /\ \A i \in Of(w) : i <= worker[w].from => i \in journal
  ELSE /\ worker[w].from <= now
       /\ \A i \in Of(w) : chain[i].at + Overlap < worker[w].from => i \in journal

\* What the pages of a scan hold is found, to be journaled, or journaled.
PagesSound(w) ==
  /\ worker[w].todo \subseteq Shown(w)
  /\ worker[w].found \subseteq IF Gram(w) THEN Shown(w) ELSE {}
  /\ worker[w].newest # 0 =>
       /\ Gram(w) /\ worker[w].newest \in Shown(w)
       /\ chain[worker[w].newest].at <= worker[w].batch
  /\ IF worker[w].done
     THEN Claims(w) \subseteq worker[w].todo \cup journal
     ELSE \A i \in Claims(w) : Place(w, i) < worker[w].page * PageSize =>
            i \in worker[w].found \cup worker[w].todo \cup journal

Fresh(w) ==
  /\ worker[w].page = 0 /\ ~ worker[w].done /\ worker[w].newest = 0
  /\ worker[w].found = {} /\ worker[w].todo = {}

PhaseSound(w) ==
  /\ worker[w].phase = "CLAIM" => Fresh(w)
  /\ worker[w].phase = "RENEW" => (worker[w].done <=> worker[w].todo # {})
  /\ worker[w].phase = "FETCH" => ~ worker[w].done /\ worker[w].todo = {}
  /\ worker[w].phase = "RECORD" => worker[w].todo # {} /\ (Gram(w) => worker[w].done)
  /\ worker[w].phase = "COMPLETE" => worker[w].done /\ worker[w].todo = {}

Scanning(w) == worker[w].phase \in {"CLAIM", "RENEW", "FETCH", "RECORD", "COMPLETE"}

ScanSound(w) ==
  /\ worker[w].phase = "IDLE" => Fresh(w)
  /\ Scanning(w) =>
       /\ worker[w].batch <= now
       /\ PhaseSound(w)
       /\ worker[w].phase # "CLAIM" \/ ~ Gram(w) => StartSound(w)
       /\ worker[w].phase # "CLAIM" => PagesSound(w)

Sound ==
  /\ TypeOK
  /\ Provider
  /\ \A s \in Streams : CursorSound(s)
  /\ \A w \in Workers : ScanSound(w)
-----------------------------------------------------------------------------
(* Types, taken apart.                                                      *)

LEMMA Constants ==
  /\ {PageSize, MaxPages, Lease, Retry, Interval, Overlap, Horizon, Ahead, Lag} \subseteq Nat
  /\ 0 < PageSize /\ 0 < Horizon /\ Lag < Horizon /\ Lag <= Overlap
  /\ StreamOf \in [Workers -> Streams] /\ Streams \subseteq {"GRAM", "USDT"}
  <1>1. PageSize \in Nat \ {0} /\ Horizon \in Nat \ {0}
    BY ScannerAssumption
  <1> QED  BY <1>1, ScannerAssumption

LEMMA Numbers ==
  ASSUME TypeOK
  PROVE  /\ now \in Nat /\ scanPriorityAt \in Nat /\ faults \in Nat
         /\ \A i \in Transfers : chain[i].at \in Nat /\ chain[i].stream \in Streams /\ i \in Nat /\ i # 0
         /\ \A s \in Streams : cursor[s].through \in Nat /\ cursor[s].last \in Nat
         /\ \A w \in Workers :
              /\ worker[w].batch \in Nat /\ worker[w].from \in Nat /\ worker[w].page \in Nat
              /\ worker[w].page * PageSize \in Nat /\ worker[w].newest \in Nat
              /\ worker[w].todo \subseteq Nat /\ worker[w].found \subseteq Nat
              /\ worker[w].done \in BOOLEAN
  <1>1. \A i \in Transfers : chain[i] \in [stream : Streams, at : Nat] /\ i \in Nat /\ i # 0
    <2> DEFINE Rows == [stream : Streams, at : Nat]
    <2>1. chain \in Seq(Rows)
      BY DEF TypeOK
    <2> HIDE DEF Rows
    <2>2. /\ DOMAIN chain = 1 .. Len(chain) /\ Len(chain) \in Nat
          /\ \A i \in 1 .. Len(chain) : chain[i] \in Rows
      BY <2>1
    <2> QED  BY <2>2 DEF Rows, Transfers
  <1>2. \A s \in Streams : cursor[s] \in Cursors
    BY DEF TypeOK
  <1>3. \A w \in Workers : worker[w] \in WorkerStates
    BY DEF TypeOK
  <1>4. ASSUME NEW w \in Workers
        PROVE  worker[w].page * PageSize \in Nat
    <2>1. worker[w].page \in Nat /\ PageSize \in Nat
      BY <1>3, Constants DEF WorkerStates
    <2> QED  BY <2>1
  <1> QED  BY <1>1, <1>2, <1>3, <1>4 DEF TypeOK, Cursors, WorkerStates
-----------------------------------------------------------------------------
(* What a step leaves alone.                                                *)

LEMMA LenIsNat ==
  ASSUME TypeOK
  PROVE  Len(chain) \in Nat
  <1> DEFINE Rows == [stream : Streams, at : Nat]
  <1>1. chain \in Seq(Rows)
    BY DEF TypeOK
  <1> HIDE DEF Rows
  <1> QED  BY <1>1

LEMMA Windows ==
  ASSUME TypeOK, NEW w \in Workers
  PROVE  /\ Transfers = 1 .. Len(chain) /\ Transfers \subseteq Nat
         /\ \A i \in Transfers : chain[i] \in [stream : Streams, at : Nat]
         /\ Shown(w) \subseteq Of(w) /\ Of(w) \subseteq Transfers
         /\ GramWindow(w) \subseteq Shown(w) /\ UsdtWindow(w) \subseteq Shown(w)
         /\ IsFiniteSet(Transfers) /\ IsFiniteSet(Shown(w)) /\ IsFiniteSet(GramWindow(w)) /\ IsFiniteSet(UsdtWindow(w))
  <1>1. /\ Transfers = 1 .. Len(chain) /\ Len(chain) \in Nat /\ visible \subseteq Transfers
        /\ \A i \in Transfers : chain[i] \in [stream : Streams, at : Nat]
    <2> DEFINE Rows == [stream : Streams, at : Nat]
    <2>1. chain \in Seq(Rows) /\ visible \subseteq Transfers
      BY DEF TypeOK
    <2> HIDE DEF Rows
    <2>2. /\ DOMAIN chain = 1 .. Len(chain) /\ Len(chain) \in Nat
          /\ \A i \in 1 .. Len(chain) : chain[i] \in Rows
      BY <2>1
    <2> QED  BY <2>1, <2>2 DEF Rows, Transfers
  <1>2. IsFiniteSet(Transfers)
    BY <1>1, FS_Interval
  <1>3. /\ Shown(w) \subseteq Of(w) /\ Of(w) \subseteq Transfers
        /\ GramWindow(w) \subseteq Shown(w) /\ UsdtWindow(w) \subseteq Shown(w)
    BY <1>1 DEF Shown, Of, GramWindow, UsdtWindow
  <1> QED  BY <1>1, <1>2, <1>3, FS_Subset

LEMMA Places ==
  ASSUME TypeOK, NEW w \in Workers, NEW i
  PROVE  Place(w, i) \in Nat
  BY Windows, PlaceType DEF Place

SameScan(w) ==
  /\ worker'[w].batch = worker[w].batch /\ worker'[w].from = worker[w].from
  /\ worker'[w].page = worker[w].page   /\ worker'[w].done = worker[w].done
  /\ worker'[w].found = worker[w].found /\ worker'[w].newest = worker[w].newest
  /\ worker'[w].todo = worker[w].todo

\* A scan stands as it stood when others journal and the clock goes on.
LEMMA ScanStands ==
  ASSUME TypeOK, TypeOK', NEW w \in Workers, SameScan(w), UNCHANGED <<chain, visible>>,
         journal \subseteq journal', now <= now'
  PROVE  /\ StartSound(w) => StartSound(w)'
         /\ PagesSound(w) => PagesSound(w)'
  <1>1. /\ Of(w)' = Of(w) /\ Shown(w)' = Shown(w)
        /\ GramWindow(w)' = GramWindow(w) /\ UsdtWindow(w)' = UsdtWindow(w)
        /\ Claims(w)' = Claims(w) /\ Gram(w)' = Gram(w)
    BY DEF SameScan, Of, Shown, GramWindow, UsdtWindow, Claims, Gram, Transfers
  <1>2. \A i : Place(w, i)' = Place(w, i)
    BY <1>1 DEF Place, Before, After
  <1>3. ASSUME StartSound(w)
        PROVE  StartSound(w)'
    <2>1. worker[w].from \in Nat /\ now \in Nat /\ now' \in Nat
      BY DEF TypeOK, WorkerStates
    <2> QED  BY <1>1, <1>3, <2>1 DEF SameScan, StartSound
  <1>4. PagesSound(w) => PagesSound(w)'
    BY <1>1, <1>2 DEF SameScan, PagesSound
  <1> QED  BY <1>3, <1>4

LEMMA OthersStand ==
  ASSUME TypeOK, TypeOK', NEW w \in Workers, worker'[w] = worker[w], ScanSound(w),
         UNCHANGED <<chain, visible>>, journal \subseteq journal', now <= now'
  PROVE  ScanSound(w)'
  <1>1. SameScan(w)
    BY DEF SameScan
  <1>2. worker[w].batch <= now => worker'[w].batch <= now'
    BY DEF TypeOK, WorkerStates
  <1>3. /\ Gram(w)' = Gram(w) /\ (PhaseSound(w) => PhaseSound(w)')
        /\ Scanning(w)' = Scanning(w)
    BY DEF PhaseSound, Fresh, Scanning, Gram
  <1> QED  BY <1>1, <1>2, <1>3, ScanStands DEF ScanSound, Fresh

LEMMA CursorStands ==
  ASSUME NEW s \in Streams, CursorSound(s), TypeOK, TypeOK',
         cursor'[s].through = cursor[s].through, cursor'[s].last = cursor[s].last,
         UNCHANGED <<chain, visible>>, journal \subseteq journal', now <= now'
  PROVE  CursorSound(s)'
  <1>1. cursor[s].through \in Nat /\ now \in Nat /\ now' \in Nat
    BY DEF TypeOK, Cursors
  <1> QED  BY <1>1 DEF CursorSound, Behind, Passed, Transfers
-----------------------------------------------------------------------------

(* The world's steps.                                                       *)

\* What PassedIsForGood asks of a step.
Onward == \A s \in Streams : \A i \in Transfers : Passed(s, i) => Passed(s, i)'

LEMMA ArriveIsSound ==
  ASSUME Sound, NEW s \in Streams, Arrive(s)
  PROVE  Sound' /\ Onward
  <1> DEFINE n == Len(chain) + 1
  <1>1. /\ chain' = Append(chain, [stream |-> s, at |-> now])
        /\ UNCHANGED <<now, visible, cursor, scanPriorityAt, journal, settled, worker, faults>>
    BY DEF Arrive
  <1>2. /\ Transfers = 1 .. Len(chain) /\ Len(chain) \in Nat /\ now \in Nat
        /\ visible \subseteq Transfers
        /\ \A i \in Transfers : chain[i] \in [stream : Streams, at : Nat]
    <2> DEFINE Rows == [stream : Streams, at : Nat]
    <2>1. chain \in Seq(Rows) /\ visible \subseteq Transfers /\ now \in Nat
      BY DEF Sound, TypeOK
    <2> HIDE DEF Rows
    <2>2. /\ DOMAIN chain = 1 .. Len(chain) /\ Len(chain) \in Nat
          /\ \A i \in 1 .. Len(chain) : chain[i] \in Rows
      BY <2>1
    <2> QED  BY <2>1, <2>2 DEF Rows, Transfers
  <1>3. /\ Transfers' = 1 .. n /\ chain'[n] = [stream |-> s, at |-> now]
        /\ \A i \in Transfers : chain'[i] = chain[i]
    <2> DEFINE row == [stream |-> s, at |-> now]
           Rows == [stream : Streams, at : Nat]
    <2>1. row \in Rows /\ chain \in Seq(Rows)
      BY <1>2 DEF Sound, TypeOK
    <2> HIDE DEF row, Rows
    <2> QED  BY <1>1, <1>2, <2>1 DEF Transfers, row
  <1>4. TypeOK'
    <2> DEFINE row == [stream |-> s, at |-> now]
           Rows == [stream : Streams, at : Nat]
    <2>1. row \in Rows /\ chain \in Seq(Rows) /\ chain' = Append(chain, row)
      BY <1>1, <1>2 DEF Sound, TypeOK
    <2>2. chain' \in Seq(Rows)
      <3> HIDE DEF row, Rows
      <3> QED  BY <2>1
    <2>3. visible' \subseteq Transfers'
      BY <1>1, <1>2, <1>3
    <2> QED  BY <1>1, <2>2, <2>3 DEF Sound, TypeOK
  <1>5. /\ \A i \in Transfers' : i \in Transfers \/ i = n
        /\ n \in Nat /\ n \notin Transfers /\ \A i \in Transfers : i \in Nat /\ i < n
        /\ \A i \in Transfers : i \in Transfers'
        /\ chain'[n].stream = s /\ chain'[n].at = now
    <2>1. \A i \in 1 .. n : i \in 1 .. Len(chain) \/ i = n
      BY <1>2
    <2>2. /\ n \in Nat /\ n \notin 1 .. Len(chain)
          /\ \A i \in 1 .. Len(chain) : i \in Nat /\ i < n /\ i \in 1 .. n
      BY <1>2
    <2>3. chain'[n].stream = s /\ chain'[n].at = now
      BY <1>3
    <2> QED  BY <1>2, <1>3, <2>1, <2>2, <2>3
  <1> HIDE DEF n
  <1>6. Provider'
    <2>1. \A i \in Transfers' : chain'[i].at <= now'
      BY <1>1, <1>2, <1>3, <1>5 DEF Sound, Provider
    <2>2. ASSUME NEW i \in Transfers', NEW k \in Transfers', i <= k
          PROVE  chain'[i].at <= chain'[k].at
      <3>1. CASE k = n
        BY <1>1, <1>5, <2>1, <3>1
      <3>2. CASE k \in Transfers
        <4>1. i \in Transfers
          BY <1>2, <1>5, <2>2, <3>2
        <4> QED  BY <1>3, <2>2, <3>2, <4>1 DEF Sound, Provider
      <3> QED  BY <1>5, <3>1, <3>2
    <2>3. ASSUME NEW i \in Transfers' \ visible'
          PROVE  now' <= chain'[i].at + Lag
      <3>1. Lag \in Nat
        BY Constants
      <3> QED  BY <1>1, <1>2, <1>3, <1>5, <3>1 DEF Sound, Provider
    <2>4. ASSUME NEW i \in visible', NEW k \in Transfers',
                 chain'[i].stream = "GRAM", chain'[k].stream = "GRAM", k < i
          PROVE  k \in visible'
      <3>1. i \in Transfers /\ i \in visible
        BY <1>1, <1>2
      <3>2. k \in Transfers
        BY <1>2, <1>5, <2>4, <3>1
      <3> QED  BY <1>1, <1>3, <2>4, <3>1, <3>2 DEF Sound, Provider
    <2> QED  BY <2>1, <2>2, <2>3, <2>4 DEF Provider
  <1>7. ASSUME NEW t \in Streams
        PROVE  CursorSound(t)'
    <2>1. /\ CursorSound(t) /\ cursor[t].through \in Nat /\ cursor[t].last \in Nat
          /\ cursor[t].through <= now
      BY Numbers DEF Sound, CursorSound
    <2>2. Overlap \in Nat /\ Horizon \in Nat /\ 0 < Horizon
      BY Constants
    <2>3. ~ (cursor[t].through >= chain'[n].at + Horizon) /\ ~ (chain'[n].at + Overlap < cursor[t].through)
      BY <1>2, <1>5, <2>1, <2>2
    <2>4. n \notin Behind(t)'
      <3>1. CASE t = "GRAM"
        <4>1. cursor[t].last # 0 => cursor[t].last \in Transfers
          BY <1>2, <2>1 DEF CursorSound
        <4>2. ~ (cursor[t].last # 0 /\ n <= cursor[t].last)
          BY <1>2, <1>5, <2>1, <4>1
        <4> QED  BY <1>1, <3>1, <4>2 DEF Behind
      <3>2. CASE t # "GRAM"
        BY <1>1, <2>3, <3>2 DEF Behind
      <3> QED  BY <3>1, <3>2
    <2>5. Behind(t)' \subseteq Behind(t)
      <3> SUFFICES ASSUME NEW i \in Behind(t)'
                   PROVE  i \in Behind(t)
        OBVIOUS
      <3>1. i \in Transfers' /\ i # n
        BY <2>4 DEF Behind
      <3> QED  BY <1>1, <1>3, <1>5, <3>1 DEF Behind
    <2>6. ASSUME NEW i \in Transfers', chain'[i].stream = t, Passed(t, i)'
          PROVE  i \in journal'
      <3>1. i \in Transfers
        BY <1>1, <1>5, <2>3, <2>6 DEF Passed
      <3>2. chain[i].stream = t /\ Passed(t, i)
        BY <1>1, <1>3, <2>6, <3>1 DEF Passed
      <3> QED  BY <1>1, <2>1, <3>1, <3>2 DEF CursorSound
    <2>7. cursor[t].last \in visible => chain'[cursor[t].last] = chain[cursor[t].last]
      BY <1>2, <1>3
    <2> QED  BY <1>1, <2>1, <2>5, <2>6, <2>7 DEF CursorSound
  <1>8. ASSUME NEW w \in Workers
        PROVE  ScanSound(w)'
    <2>1. /\ ScanSound(w) /\ worker[w].from \in Nat /\ worker[w].newest \in Nat
          /\ worker[w].batch \in Nat /\ Lag \in Nat /\ Overlap \in Nat
      BY Numbers, Constants DEF Sound
    <2>2. /\ Shown(w)' = Shown(w) /\ GramWindow(w)' = GramWindow(w)
          /\ UsdtWindow(w)' = UsdtWindow(w) /\ Gram(w)' = Gram(w)
      BY <1>1, <1>2, <1>3 DEF Shown, GramWindow, UsdtWindow, Gram
    <2>3. \A i : Place(w, i)' = Place(w, i)
      BY <1>1, <2>2 DEF Place, Before, After
    <2>4. /\ \A i \in Of(w) : i \in Of(w)' /\ i \in Transfers
          /\ \A i \in Of(w)' : i \in Of(w) \/ i = n
      BY <1>2, <1>3, <1>5 DEF Of
    <2>5. StartSound(w) => StartSound(w)'
      <3> SUFFICES ASSUME StartSound(w)
                   PROVE  StartSound(w)'
        OBVIOUS
      <3>1. CASE Gram(w)
        <4>1. ASSUME worker[w].from # 0
              PROVE  \A i \in Of(w)' : i <= worker[w].from => i \in journal
          <5>1. worker[w].from < n
            BY <1>2, <1>5, <3>1, <4>1 DEF StartSound
          <5>2. ~ (n <= worker[w].from)
            BY <1>5, <2>1, <5>1
          <5> QED  BY <2>4, <3>1, <4>1, <5>2 DEF StartSound
        <4> QED  BY <1>1, <2>2, <2>4, <3>1, <4>1 DEF StartSound
      <3>2. CASE ~ Gram(w)
        <4>1. ~ (chain'[n].at + Overlap < worker[w].from)
          BY <1>2, <1>5, <2>1, <3>2 DEF StartSound
        <4>2. \A i \in Of(w)' : chain'[i].at + Overlap < worker[w].from => i \in journal
          BY <1>3, <2>4, <3>2, <4>1 DEF StartSound
        <4> QED  BY <1>1, <2>2, <3>2, <4>2 DEF StartSound
      <3> QED  BY <3>1, <3>2
    <2>6. worker[w].batch <= now /\ PagesSound(w) => PagesSound(w)'
      <3> SUFFICES ASSUME worker[w].batch <= now, PagesSound(w)
                   PROVE  PagesSound(w)'
        OBVIOUS
      <3>1. n \notin Claims(w)'
        <4>1. ~ (chain'[n].at + Lag < worker[w].batch)
          BY <1>2, <1>5, <2>1
        <4>2. worker[w].newest # 0 => worker[w].newest < n
          BY <1>2, <1>5 DEF PagesSound, Shown
        <4>3. ~ (worker[w].newest # 0 /\ n <= worker[w].newest)
          BY <1>5, <2>1, <4>2
        <4> QED  BY <1>1, <4>1, <4>3 DEF Claims
      <3>2. Claims(w)' \subseteq Claims(w)
        <4> SUFFICES ASSUME NEW i \in Claims(w)'
                     PROVE  i \in Claims(w)
          OBVIOUS
        <4>1. i \in Of(w) /\ i \in Transfers
          BY <2>4, <3>1 DEF Claims
        <4> QED  BY <1>1, <1>3, <4>1 DEF Claims
      <3>3. \A i \in Shown(w) : chain'[i] = chain[i]
        BY <1>2, <1>3 DEF Shown
      <3> QED  BY <1>1, <2>2, <2>3, <3>2, <3>3 DEF PagesSound
    <2>7. Scanning(w)' = Scanning(w) /\ PhaseSound(w)' = PhaseSound(w)
      BY <1>1 DEF Scanning, PhaseSound, Fresh, Gram
    <2> QED  BY <1>1, <2>1, <2>2, <2>5, <2>6, <2>7 DEF ScanSound, Fresh
  <1>9. Onward
    BY <1>1, <1>3 DEF Onward, Passed
  <1> QED  BY <1>4, <1>6, <1>7, <1>8, <1>9 DEF Sound

LEMMA IndexIsSound ==
  ASSUME Sound, NEW k \in Transfers, Index(k)
  PROVE  Sound' /\ Onward
  <1>1. /\ visible' = visible \cup {k}
        /\ UNCHANGED <<now, chain, cursor, scanPriorityAt, journal, settled, worker, faults>>
        /\ chain[k].stream = "GRAM" =>
             \A j \in Transfers : j < k /\ chain[j].stream = "GRAM" => j \in visible
    BY DEF Index
  <1>2. Transfers' = Transfers
    BY <1>1 DEF Transfers
  <1>3. TypeOK'
    BY <1>1, <1>2 DEF Sound, TypeOK
  <1>4. Provider'
    BY <1>1, <1>2 DEF Sound, Provider
  <1>5. ASSUME NEW t \in Streams
        PROVE  CursorSound(t)'
    BY <1>1, <1>2 DEF Sound, CursorSound, Behind, Passed
  <1>6. ASSUME NEW w \in Workers
        PROVE  ScanSound(w)'
    <2>1. ScanSound(w) /\ TypeOK
      BY DEF Sound
    <2>2. /\ Shown(w) \subseteq Shown(w)' /\ GramWindow(w) \subseteq GramWindow(w)'
          /\ UsdtWindow(w) \subseteq UsdtWindow(w)' /\ Gram(w)' = Gram(w)
          /\ Of(w)' = Of(w) /\ Claims(w)' = Claims(w)
      BY <1>1, <1>2 DEF Shown, GramWindow, UsdtWindow, Gram, Of, Claims
    <2>3. ASSUME NEW i
          PROVE  Place(w, i) <= Place(w, i)' /\ Place(w, i) \in Nat /\ Place(w, i)' \in Nat
      <3>1. IsFiniteSet(GramWindow(w)') /\ IsFiniteSet(UsdtWindow(w)')
        <4>1. IsFiniteSet(Transfers) /\ IsFiniteSet(Shown(w)) /\ visible' \subseteq Transfers
          BY <1>1, <2>1, Windows DEF TypeOK
        <4>2. GramWindow(w)' \subseteq Transfers /\ UsdtWindow(w)' \subseteq Transfers
          BY <1>1, <4>1 DEF GramWindow, UsdtWindow, Shown
        <4> QED  BY <4>1, <4>2, FS_Subset
      <3>2. Place(w, i)' = IF Gram(w) THEN After(GramWindow(w)', i) ELSE Before(UsdtWindow(w)', i)
        BY <2>2 DEF Place, Before, After
      <3> QED  BY <2>1, <2>2, <3>1, <3>2, PlaceGrows, PlaceType, Places DEF Place
    <2>4. StartSound(w) => StartSound(w)'
      BY <1>1, <2>2 DEF StartSound
    <2>5. PagesSound(w) => PagesSound(w)'
      <3>1. worker[w].page * PageSize \in Nat
        BY <2>1, Numbers
      <3>2. \A i : Place(w, i)' < worker[w].page * PageSize => Place(w, i) < worker[w].page * PageSize
        BY <2>3, <3>1
      <3> QED  BY <1>1, <2>2, <3>2 DEF PagesSound
    <2>6. Scanning(w)' = Scanning(w) /\ PhaseSound(w)' = PhaseSound(w)
      BY <1>1 DEF Scanning, PhaseSound, Fresh, Gram
    <2> QED  BY <1>1, <2>1, <2>2, <2>4, <2>5, <2>6 DEF ScanSound, Fresh
  <1>7. Onward
    BY <1>1 DEF Onward, Passed
  <1> QED  BY <1>3, <1>4, <1>5, <1>6, <1>7 DEF Sound

LEMMA SettleIsSound ==
  ASSUME Sound, NEW i \in Transfers, Settle(i)
  PROVE  Sound' /\ Onward
  <1>1. /\ i \in journal /\ settled' = settled \cup {i}
        /\ UNCHANGED <<now, chain, visible, cursor, scanPriorityAt, journal, worker, faults>>
    BY DEF Settle
  <1>2. TypeOK /\ TypeOK' /\ now <= now'
    <2>1. TypeOK /\ now \in Nat
      BY Numbers DEF Sound
    <2>2. TypeOK'
      BY <1>1, <2>1 DEF TypeOK, Transfers
    <2> QED  BY <1>1, <2>1, <2>2
  <1>3. Provider'
    BY <1>1 DEF Sound, Provider, Transfers
  <1>4. Onward
    BY <1>1 DEF Onward, Passed
  <1> QED  BY <1>1, <1>2, <1>3, <1>4, CursorStands, OthersStand DEF Sound

LEMMA TickIsSound ==
  ASSUME Sound, Tick
  PROVE  Sound' /\ Onward
  <1>1. /\ now' = now + 1 /\ \A i \in Transfers \ visible : now < chain[i].at + Lag
        /\ UNCHANGED <<chain, visible, cursor, scanPriorityAt, journal, settled, worker, faults>>
    BY DEF Tick
  <1>2. TypeOK /\ TypeOK' /\ now \in Nat /\ now <= now'
    <2>1. TypeOK /\ now \in Nat
      BY Numbers DEF Sound
    <2>2. now' \in Nat /\ now <= now'
      BY <1>1, <2>1
    <2>3. TypeOK'
      BY <1>1, <2>1, <2>2 DEF TypeOK, Transfers
    <2> QED  BY <2>1, <2>2, <2>3
  <1>3. Provider'
    <2>1. Transfers' = Transfers /\ \A i \in Transfers : chain[i].at \in Nat /\ chain[i].at <= now
      BY <1>1, <1>2, Numbers DEF Sound, Provider, Transfers
    <2>2. \A i \in Transfers : chain[i].at <= now'
      BY <1>1, <1>2, <2>1
    <2>3. \A i \in Transfers \ visible : now' <= chain[i].at + Lag
      BY <1>1, <1>2, <2>1, Constants
    <2> QED  BY <1>1, <2>1, <2>2, <2>3 DEF Sound, Provider
  <1>4. Onward
    BY <1>1 DEF Onward, Passed
  <1> QED  BY <1>1, <1>2, <1>3, <1>4, CursorStands, OthersStand DEF Sound
-----------------------------------------------------------------------------
(* A worker's steps.                                                        *)

LEMMA WorkerStep ==
  ASSUME TypeOK, NEW w \in Workers, NEW r \in WorkerStates, worker' = [worker EXCEPT ![w] = r]
  PROVE  /\ worker' \in [Workers -> WorkerStates] /\ worker'[w] = r
         /\ \A v \in Workers \ {w} : worker'[v] = worker[v]
  BY DEF TypeOK

LEMMA CursorStep ==
  ASSUME TypeOK, NEW s \in Streams, NEW row \in Cursors, cursor' = [cursor EXCEPT ![s] = row]
  PROVE  /\ cursor' \in [Streams -> Cursors] /\ cursor'[s] = row
         /\ \A t \in Streams \ {s} : cursor'[t] = cursor[t]
  BY DEF TypeOK

\* The lease of a cursor says nothing about what has been scanned.
LEMMA LeaseStep ==
  ASSUME TypeOK, NEW s \in Streams, NEW o \in Workers \cup {NoOwner, Gone}, NEW e \in Nat,
         cursor' = [cursor EXCEPT ![s] = [cursor[s] EXCEPT !.owner = o, !.expires = e]]
  PROVE  /\ cursor' \in [Streams -> Cursors]
         /\ \A t \in Streams : cursor'[t].through = cursor[t].through /\ cursor'[t].last = cursor[t].last
  <1> DEFINE row == [cursor[s] EXCEPT !.owner = o, !.expires = e]
  <1>1. cursor[s] \in Cursors
    BY DEF TypeOK
  <1>2. row \in Cursors /\ row.through = cursor[s].through /\ row.last = cursor[s].last
    BY <1>1 DEF Cursors
  <1> HIDE DEF row
  <1>3. /\ cursor' \in [Streams -> Cursors] /\ cursor'[s] = row
        /\ \A t \in Streams \ {s} : cursor'[t] = cursor[t]
    BY <1>2, CursorStep DEF row
  <1> QED  BY <1>2, <1>3

LEMMA StepStands ==
  ASSUME Sound, TypeOK', NEW w \in Workers, UNCHANGED <<now, chain, visible>>, journal \subseteq journal',
         \A v \in Workers \ {w} : worker'[v] = worker[v], ScanSound(w)',
         \A s \in Streams : cursor'[s].through = cursor[s].through /\ cursor'[s].last = cursor[s].last
  PROVE  Sound' /\ Onward
  <1>1. TypeOK /\ now <= now'
    BY Numbers DEF Sound
  <1>2. Provider'
    BY DEF Sound, Provider, Transfers
  <1>3. \A s \in Streams : CursorSound(s)'
    BY <1>1, CursorStands DEF Sound
  <1>4. \A v \in Workers \ {w} : ScanSound(v)'
    BY <1>1, OthersStand DEF Sound
  <1>5. Onward
    BY DEF Onward, Passed
  <1> QED  BY <1>2, <1>3, <1>4, <1>5 DEF Sound

LEMMA StartIsSound ==
  ASSUME Sound, NEW w \in Workers, Start(w)
  PROVE  Sound' /\ Onward
  <1> DEFINE r == [worker[w] EXCEPT !.phase = "CLAIM", !.batch = now,
                                    !.from = IF Gram(w) THEN 0 ELSE Row(w).through]
  <1>1. /\ worker[w].phase = "IDLE" /\ worker' = [worker EXCEPT ![w] = r]
        /\ UNCHANGED <<World, cursor, scanPriorityAt, journal, faults>>
    BY DEF Start
  <1>2. /\ TypeOK /\ ScanSound(w) /\ worker[w] \in WorkerStates /\ StreamOf[w] \in Streams
        /\ now \in Nat /\ Row(w).through \in Nat /\ CursorSound(StreamOf[w])
    BY Numbers, Constants DEF Sound, Row, TypeOK
  <1>3. r \in WorkerStates
    BY <1>2 DEF WorkerStates
  <1>4. /\ r.phase = "CLAIM" /\ r.batch = now /\ r.from = (IF Gram(w) THEN 0 ELSE Row(w).through)
        /\ r.page = worker[w].page /\ r.done = worker[w].done /\ r.newest = worker[w].newest
        /\ r.found = worker[w].found /\ r.todo = worker[w].todo
    BY <1>2 DEF WorkerStates
  <1> HIDE DEF r
  <1>5. /\ worker' \in [Workers -> WorkerStates] /\ worker'[w] = r
        /\ \A v \in Workers \ {w} : worker'[v] = worker[v]
    BY <1>1, <1>2, <1>3, WorkerStep
  <1>6. TypeOK'
    BY <1>1, <1>2, <1>4, <1>5 DEF TypeOK, Transfers, World
  <1>7. ScanSound(w)'
    <2>1. Fresh(w)'
      BY <1>1, <1>2, <1>4, <1>5 DEF ScanSound, Fresh
    <2>2. ~ Gram(w) => StartSound(w)'
      <3> SUFFICES ASSUME ~ Gram(w)
                   PROVE  StartSound(w)'
        OBVIOUS
      <3>1. worker'[w].from = Row(w).through /\ Row(w).through <= now
        BY <1>2, <1>4, <1>5 DEF CursorSound, Row
      <3>2. \A i \in Of(w) : chain[i].at + Overlap < Row(w).through => i \in journal
        BY <1>2 DEF CursorSound, Behind, Of, Row, Gram
      <3> QED  BY <1>1, <3>1, <3>2 DEF StartSound, Of, Transfers, World, Gram
    <2> QED  BY <1>1, <1>2, <1>4, <1>5, <2>1, <2>2 DEF ScanSound, PhaseSound, Gram, World
  <1> QED  BY <1>1, <1>5, <1>6, <1>7, StepStands DEF World

LEMMA ClaimIsSound ==
  ASSUME Sound, NEW w \in Workers, Claim(w)
  PROVE  Sound' /\ Onward
  <1> DEFINE from == IF Gram(w) THEN Row(w).last ELSE worker[w].from
             r == [worker[w] EXCEPT !.phase = "RENEW", !.from = from]
  <1>1. worker[w].phase = "CLAIM" /\ UNCHANGED <<World, scanPriorityAt, journal, faults>>
    BY DEF Claim
  <1>2. /\ TypeOK /\ ScanSound(w) /\ worker[w] \in WorkerStates /\ StreamOf[w] \in Streams
        /\ Row(w).last \in Nat /\ from \in Nat /\ CursorSound(StreamOf[w]) /\ Lease \in Nat
        /\ cursor \in [Streams -> Cursors] /\ now \in Nat
    BY Numbers, Constants DEF Sound, Row, TypeOK
  <1>3. CASE ~ Reclaimable(w)
    <2>1. worker' = [worker EXCEPT ![w] = Idle] /\ cursor' = cursor
      BY <1>3 DEF Claim
    <2>2. Idle \in WorkerStates
      BY DEF Idle, WorkerStates
    <2>3. /\ worker' \in [Workers -> WorkerStates] /\ worker'[w] = Idle
          /\ \A v \in Workers \ {w} : worker'[v] = worker[v]
      BY <1>2, <2>1, <2>2, WorkerStep
    <2>4. TypeOK'
      BY <1>1, <1>2, <2>1, <2>3 DEF TypeOK, Transfers, World, Idle
    <2>5. ScanSound(w)'
      BY <2>3 DEF ScanSound, Scanning, Fresh, Idle
    <2> QED  BY <1>1, <2>1, <2>3, <2>4, <2>5, StepStands DEF World
  <1>4. CASE Reclaimable(w)
    <2>1. /\ worker' = [worker EXCEPT ![w] = r]
          /\ cursor' = [cursor EXCEPT ![StreamOf[w]] =
                          [cursor[StreamOf[w]] EXCEPT !.owner = w, !.expires = now + Lease]]
      BY <1>4 DEF Claim, Leased, Row
    <2>2. r \in WorkerStates
      BY <1>2 DEF WorkerStates
    <2>3. /\ r.phase = "RENEW" /\ r.batch = worker[w].batch /\ r.from = from
          /\ r.page = worker[w].page /\ r.done = worker[w].done /\ r.newest = worker[w].newest
          /\ r.found = worker[w].found /\ r.todo = worker[w].todo
      BY <1>2 DEF WorkerStates
    <2> HIDE DEF r
    <2>4. /\ worker' \in [Workers -> WorkerStates] /\ worker'[w] = r
          /\ \A v \in Workers \ {w} : worker'[v] = worker[v]
      BY <1>2, <2>1, <2>2, WorkerStep
    <2>5. /\ cursor' \in [Streams -> Cursors]
          /\ \A s \in Streams : cursor'[s].through = cursor[s].through /\ cursor'[s].last = cursor[s].last
      <3>1. now + Lease \in Nat
        BY <1>2
      <3> QED  BY <1>2, <2>1, <3>1, LeaseStep
    <2>6. TypeOK'
      BY <1>1, <1>2, <2>3, <2>4, <2>5 DEF TypeOK, Transfers, World
    <2>7. Fresh(w) /\ Fresh(w)' /\ worker[w].batch <= now
      BY <1>1, <1>2, <2>3, <2>4 DEF ScanSound, PhaseSound, Scanning, Fresh
    <2>8. StartSound(w)'
      <3>1. CASE Gram(w)
        <4>1. StreamOf[w] = "GRAM" /\ worker'[w].from = Row(w).last
          BY <2>3, <2>4, <3>1 DEF Gram
        <4>2. ASSUME Row(w).last # 0
              PROVE  /\ Row(w).last \in visible \cap Of(w)
                     /\ \A i \in Of(w) : i <= Row(w).last => i \in journal
          BY <1>2, <4>1, <4>2 DEF CursorSound, Behind, Of, Row, TypeOK
        <4> QED  BY <1>1, <3>1, <4>1, <4>2 DEF StartSound, Of, Transfers, World, Gram
      <3>2. CASE ~ Gram(w)
        <4>1. worker'[w].from = worker[w].from /\ StartSound(w)
          BY <1>1, <1>2, <2>3, <2>4, <3>2 DEF ScanSound, Scanning
        <4> QED  BY <1>1, <3>2, <4>1 DEF StartSound, Of, Transfers, World, Gram
      <3> QED  BY <3>1, <3>2
    <2>9. PagesSound(w)'
      <3>1. worker'[w].page * PageSize = 0
        <4>1. worker'[w].page = 0 /\ PageSize \in Nat
          BY <2>7, Constants DEF Fresh
        <4> QED  BY <4>1
      <3>2. \A i : Place(w, i)' \in Nat
        <4>1. IsFiniteSet(GramWindow(w)') /\ IsFiniteSet(UsdtWindow(w)')
          <5>1. GramWindow(w)' \subseteq Transfers /\ UsdtWindow(w)' \subseteq Transfers
            BY <1>1, <1>2 DEF GramWindow, UsdtWindow, Shown, World, TypeOK
          <5> QED  BY <1>2, <5>1, Windows, FS_Subset
        <4>2. \A i : Place(w, i)' = IF Gram(w) THEN After(GramWindow(w)', i) ELSE Before(UsdtWindow(w)', i)
          BY DEF Place, After, Before, Gram
        <4> QED  BY <4>1, <4>2, PlaceType
      <3>3. \A i : ~ (Place(w, i)' < worker'[w].page * PageSize)
        BY <3>1, <3>2
      <3> QED  BY <2>7, <3>3 DEF PagesSound, Fresh
    <2> QED
      <3>1. ScanSound(w)'
        BY <1>1, <2>3, <2>4, <2>7, <2>8, <2>9 DEF ScanSound, Scanning, PhaseSound, Fresh, World
      <3> QED  BY <1>1, <2>4, <2>5, <2>6, <3>1, StepStands DEF World
  <1> QED  BY <1>3, <1>4

Phases == {"IDLE", "CLAIM", "RENEW", "FETCH", "RECORD", "COMPLETE", "FAILING"}

LEMMA PhaseStep ==
  ASSUME TypeOK, NEW w \in Workers, NEW phase \in Phases, Goes(w, phase)
  PROVE  /\ worker' \in [Workers -> WorkerStates] /\ worker'[w].phase = phase /\ SameScan(w)
         /\ \A v \in Workers \ {w} : worker'[v] = worker[v]
  <1> DEFINE r == [worker[w] EXCEPT !.phase = phase]
  <1>1. worker[w] \in WorkerStates
    BY DEF TypeOK
  <1>2. r \in WorkerStates /\ r.phase = phase
    BY <1>1 DEF WorkerStates, Phases
  <1>3. /\ r.batch = worker[w].batch /\ r.from = worker[w].from /\ r.page = worker[w].page
        /\ r.done = worker[w].done /\ r.found = worker[w].found /\ r.newest = worker[w].newest
        /\ r.todo = worker[w].todo
    BY <1>1 DEF WorkerStates
  <1>4. worker' = [worker EXCEPT ![w] = r]
    BY DEF Goes
  <1> HIDE DEF r
  <1> QED  BY <1>2, <1>3, <1>4, WorkerStep DEF SameScan

LEMMA RenewIsSound ==
  ASSUME Sound, NEW w \in Workers, RenewLease(w)
  PROVE  Sound' /\ Onward
  <1> DEFINE phase == IF worker[w].done THEN "RECORD" ELSE "FETCH"
  <1>1. /\ worker[w].phase = "RENEW" /\ Goes(w, phase) /\ phase \in Phases
        /\ UNCHANGED <<World, scanPriorityAt, journal, faults>>
        /\ cursor' = [cursor EXCEPT ![StreamOf[w]] =
                        [cursor[StreamOf[w]] EXCEPT !.owner = cursor[StreamOf[w]].owner,
                                                    !.expires = now + Lease]]
    <2>1. cursor' = [cursor EXCEPT ![StreamOf[w]] =
                       [cursor[StreamOf[w]] EXCEPT !.expires = now + Lease]]
      BY DEF RenewLease, Renewed, Row
    <2>2. cursor[StreamOf[w]] \in Cursors
      BY Constants DEF Sound, TypeOK
    <2>3. [cursor[StreamOf[w]] EXCEPT !.expires = now + Lease] =
            [cursor[StreamOf[w]] EXCEPT !.owner = cursor[StreamOf[w]].owner, !.expires = now + Lease]
      BY <2>2 DEF Cursors
    <2> QED  BY <2>1, <2>3 DEF RenewLease, Phases
  <1>2. /\ TypeOK /\ ScanSound(w) /\ StreamOf[w] \in Streams /\ now + Lease \in Nat
        /\ cursor[StreamOf[w]].owner \in Workers \cup {NoOwner, Gone}
        /\ worker[w].done \in BOOLEAN /\ now \in Nat
    <2>1. TypeOK /\ StreamOf[w] \in Streams /\ now \in Nat /\ Lease \in Nat
      BY Numbers, Constants DEF Sound
    <2>2. cursor[StreamOf[w]] \in Cursors /\ worker[w].done \in BOOLEAN /\ ScanSound(w)
      BY <2>1, Numbers DEF Sound, TypeOK
    <2>3. now + Lease \in Nat
      BY <2>1
    <2> QED  BY <2>1, <2>2, <2>3 DEF Cursors
  <1> HIDE DEF phase
  <1>3. /\ cursor' \in [Streams -> Cursors]
        /\ \A s \in Streams : cursor'[s].through = cursor[s].through /\ cursor'[s].last = cursor[s].last
    BY <1>1, <1>2, LeaseStep
  <1>4. /\ worker' \in [Workers -> WorkerStates] /\ worker'[w].phase = phase /\ SameScan(w)
        /\ \A v \in Workers \ {w} : worker'[v] = worker[v]
    BY <1>1, <1>2, PhaseStep
  <1>5. /\ PhaseSound(w) /\ StartSound(w) /\ PagesSound(w) /\ worker[w].batch <= now
        /\ (worker[w].done <=> worker[w].todo # {})
    BY <1>1, <1>2 DEF ScanSound, Scanning, PhaseSound
  <1>6. TypeOK'
    BY <1>1, <1>2, <1>3, <1>4, <1>5 DEF TypeOK, Transfers, World, SameScan, phase
  <1>7. PhaseSound(w)'
    BY <1>4, <1>5 DEF PhaseSound, SameScan, phase
  <1>8. StartSound(w)' /\ PagesSound(w)'
    BY <1>1, <1>2, <1>4, <1>5, <1>6, ScanStands DEF World
  <1>9. ScanSound(w)'
    BY <1>1, <1>4, <1>5, <1>7, <1>8 DEF ScanSound, SameScan, World, phase
  <1> QED  BY <1>1, <1>3, <1>4, <1>6, <1>9, StepStands DEF World

LEMMA RecordIsSound ==
  ASSUME Sound, NEW w \in Workers, Record(w)
  PROVE  Sound' /\ Onward
  <1> DEFINE row == worker[w]
             i == IF Gram(w) THEN Max(row.todo) ELSE Min(row.todo)
             phase == IF row.todo = {i} THEN IF row.done THEN "COMPLETE" ELSE "RENEW"
                      ELSE IF Gram(w) THEN "RENEW" ELSE "RECORD"
             r == [row EXCEPT !.todo = row.todo \ {i}, !.phase = phase]
  <1>1. /\ row.phase = "RECORD" /\ journal' = journal \cup {i} /\ worker' = [worker EXCEPT ![w] = r]
        /\ UNCHANGED <<World, cursor, scanPriorityAt, faults>>
    BY DEF Record
  <1>2. /\ TypeOK /\ ScanSound(w) /\ row \in WorkerStates /\ row.todo \in SUBSET Nat
        /\ row.done \in BOOLEAN /\ now \in Nat
    BY Numbers DEF Sound, TypeOK
  <1>3. /\ StartSound(w) /\ PagesSound(w) /\ row.batch <= now
        /\ row.todo # {} /\ (Gram(w) => row.done)
    BY <1>1, <1>2 DEF ScanSound, Scanning, PhaseSound
  <1>4. i \in row.todo
    <2>1. Len(chain) \in Nat /\ \A x \in row.todo : x <= Len(chain)
      <3>1. row.todo \subseteq Transfers /\ Transfers = 1 .. Len(chain)
        BY <1>2, <1>3, Windows DEF PagesSound
      <3>2. Len(chain) \in Nat
        BY <1>2, LenIsNat
      <3> QED  BY <3>1, <3>2
    <2> QED  BY <1>2, <1>3, <2>1, MaxIsGreatest, MinIsLeast
  <1> HIDE DEF i
  <1>5. /\ r \in WorkerStates /\ r.phase = phase /\ r.todo = row.todo \ {i}
        /\ r.batch = row.batch /\ r.from = row.from /\ r.page = row.page
        /\ r.done = row.done /\ r.found = row.found /\ r.newest = row.newest
    BY <1>2 DEF WorkerStates
  <1> HIDE DEF r
  <1>6. /\ worker' \in [Workers -> WorkerStates] /\ worker'[w] = r
        /\ \A v \in Workers \ {w} : worker'[v] = worker[v]
    BY <1>1, <1>2, <1>5, WorkerStep
  <1>7. i \in visible
    BY <1>3, <1>4 DEF PagesSound, Shown
  <1>8. TypeOK'
    <2>1. /\ now' \in Nat /\ faults' \in Nat /\ scanPriorityAt' \in Nat
          /\ chain' \in Seq([stream : Streams, at : Nat]) /\ visible' \subseteq Transfers'
          /\ cursor' \in [Streams -> Cursors]
      BY <1>1, <1>2 DEF TypeOK, Transfers, World
    <2>2. settled' \subseteq journal' /\ journal' \subseteq visible'
      BY <1>1, <1>2, <1>7 DEF TypeOK, World
    <2>3. r.phase = "RECORD" => r.todo # {}
      BY <1>1, <1>3, <1>4, <1>5
    <2>4. \A v \in Workers : worker'[v].phase = "RECORD" => worker'[v].todo # {}
      BY <1>2, <1>6, <2>3 DEF TypeOK
    <2> QED  BY <1>6, <2>1, <2>2, <2>4 DEF TypeOK
  <1>9. /\ Of(w)' = Of(w) /\ Shown(w)' = Shown(w) /\ Claims(w)' = Claims(w) /\ Gram(w)' = Gram(w)
        /\ GramWindow(w)' = GramWindow(w) /\ UsdtWindow(w)' = UsdtWindow(w)
    BY <1>1, <1>5, <1>6 DEF World, Of, Shown, Claims, Gram, GramWindow, UsdtWindow, Transfers
  <1>10. \A k : Place(w, k)' = Place(w, k)
    BY <1>9 DEF Place, Before, After
  <1>11. StartSound(w)'
    BY <1>1, <1>3, <1>5, <1>6, <1>9 DEF StartSound, World
  <1>12. PagesSound(w)'
    <2>1. worker'[w].todo \cup journal' = row.todo \cup journal
      BY <1>1, <1>4, <1>5, <1>6
    <2>2. worker'[w].found \cup worker'[w].todo \cup journal' = row.found \cup row.todo \cup journal
      BY <1>5, <1>6, <2>1
    <2> QED  BY <1>1, <1>3, <1>5, <1>6, <1>9, <1>10, <2>1, <2>2 DEF PagesSound, World
  <1>13. PhaseSound(w)'
    BY <1>2, <1>3, <1>4, <1>5, <1>6, <1>9 DEF PhaseSound
  <1>14. ScanSound(w)'
    BY <1>1, <1>3, <1>5, <1>6, <1>11, <1>12, <1>13 DEF ScanSound, World
  <1> QED  BY <1>1, <1>6, <1>8, <1>14, StepStands DEF World
-----------------------------------------------------------------------------
(* The steps that end a scan without a result, and the one that holds it up. *)

LEMMA FailingIsSound ==
  ASSUME Sound, NEW w \in Workers, Goes(w, "FAILING"), faults' \in Nat,
         UNCHANGED <<World, cursor, scanPriorityAt, journal>>
  PROVE  Sound' /\ Onward
  <1>1. TypeOK /\ "FAILING" \in Phases
    BY DEF Sound, Phases
  <1>2. /\ worker' \in [Workers -> WorkerStates] /\ worker'[w].phase = "FAILING"
        /\ \A v \in Workers \ {w} : worker'[v] = worker[v]
    BY <1>1, PhaseStep
  <1>3. TypeOK'
    BY <1>1, <1>2 DEF TypeOK, World, Transfers
  <1>4. ScanSound(w)'
    BY <1>2 DEF ScanSound, Scanning
  <1> QED  BY <1>2, <1>3, <1>4, StepStands DEF World

LEMMA BackToIdleIsSound ==
  ASSUME Sound, NEW w \in Workers, worker' = [worker EXCEPT ![w] = Idle],
         faults' \in Nat, scanPriorityAt' \in Nat, UNCHANGED <<World, journal>>,
         cursor' \in [Streams -> Cursors],
         \A s \in Streams : cursor'[s].through = cursor[s].through /\ cursor'[s].last = cursor[s].last
  PROVE  Sound' /\ Onward
  <1>1. TypeOK /\ Idle \in WorkerStates
    BY DEF Sound, Idle, WorkerStates
  <1>2. /\ worker' \in [Workers -> WorkerStates] /\ worker'[w] = Idle
        /\ \A v \in Workers \ {w} : worker'[v] = worker[v]
    BY <1>1, WorkerStep
  <1>3. TypeOK'
    BY <1>1, <1>2 DEF TypeOK, World, Transfers, Idle
  <1>4. ScanSound(w)'
    BY <1>2 DEF ScanSound, Scanning, Fresh, Idle
  <1> QED  BY <1>2, <1>3, <1>4, StepStands DEF World

\* What Released leaves of a cursor whose progress is that of row.
LEMMA ReleaseStep ==
  ASSUME TypeOK, NEW w \in Workers, NEW row \in Cursors, NEW delay \in Nat, Released(w, row, delay)
  PROVE  /\ cursor' \in [Streams -> Cursors] /\ scanPriorityAt' \in Nat
         /\ cursor'[StreamOf[w]].through = row.through /\ cursor'[StreamOf[w]].last = row.last
         /\ \A t \in Streams \ {StreamOf[w]} : cursor'[t] = cursor[t]
  <1> DEFINE dueAt == worker[w].batch + delay
             left == [row EXCEPT !.owner = NoOwner, !.expires = IF Gram(w) THEN 0 ELSE dueAt]
  <1>1. /\ worker[w].batch \in Nat /\ scanPriorityAt \in Nat /\ StreamOf[w] \in Streams /\ dueAt \in Nat
    <2>1. worker[w].batch \in Nat /\ scanPriorityAt \in Nat /\ StreamOf[w] \in Streams
      BY Numbers, Constants
    <2> QED  BY <2>1
  <1>2. cursor' = [cursor EXCEPT ![StreamOf[w]] = left]
    BY DEF Released, Release
  <1>3. scanPriorityAt' \in Nat
    BY <1>1 DEF Released
  <1>4. left \in Cursors /\ left.through = row.through /\ left.last = row.last
    BY <1>1 DEF Cursors
  <1> HIDE DEF left
  <1> QED  BY <1>1, <1>2, <1>3, <1>4, CursorStep

LEMMA FailScanIsSound ==
  ASSUME Sound, NEW w \in Workers, FailScan(w)
  PROVE  Sound' /\ Onward
  <1>1. TypeOK /\ Row(w) \in Cursors /\ Retry \in Nat /\ faults \in Nat /\ scanPriorityAt \in Nat
        /\ cursor \in [Streams -> Cursors]
    BY Numbers, Constants DEF Sound, TypeOK, Row
  <1>2. /\ worker' = [worker EXCEPT ![w] = Idle] /\ UNCHANGED <<World, journal, faults>>
        /\ IF Row(w).owner = w THEN Released(w, Row(w), Retry) ELSE UNCHANGED <<cursor, scanPriorityAt>>
    BY DEF FailScan
  <1>3. /\ cursor' \in [Streams -> Cursors] /\ scanPriorityAt' \in Nat
        /\ \A s \in Streams : cursor'[s].through = cursor[s].through /\ cursor'[s].last = cursor[s].last
    <2>1. CASE Row(w).owner = w
      BY <1>1, <1>2, <2>1, ReleaseStep DEF Row
    <2>2. CASE Row(w).owner # w
      BY <1>1, <1>2, <2>2
    <2> QED  BY <2>1, <2>2
  <1> QED  BY <1>1, <1>2, <1>3, BackToIdleIsSound

LEMMA CrashIsSound ==
  ASSUME Sound, NEW w \in Workers, Crash(w)
  PROVE  Sound' /\ Onward
  <1>1. /\ TypeOK /\ cursor[StreamOf[w]] \in Cursors /\ StreamOf[w] \in Streams
        /\ faults \in Nat /\ scanPriorityAt \in Nat /\ cursor \in [Streams -> Cursors]
    BY Numbers, Constants DEF Sound, TypeOK
  <1>2. /\ worker' = [worker EXCEPT ![w] = Idle] /\ UNCHANGED <<World, scanPriorityAt, journal>>
        /\ cursor' = IF Row(w).owner = w THEN [cursor EXCEPT ![StreamOf[w]].owner = Gone] ELSE cursor
        /\ faults' \in Nat
    BY <1>1 DEF Crash, Fault
  <1>3. /\ cursor' \in [Streams -> Cursors]
        /\ \A s \in Streams : cursor'[s].through = cursor[s].through /\ cursor'[s].last = cursor[s].last
    <2>1. CASE Row(w).owner = w
      <3> DEFINE row == cursor[StreamOf[w]]
      <3>1. [row EXCEPT !.owner = Gone] = [row EXCEPT !.owner = Gone, !.expires = row.expires]
            /\ row.expires \in Nat
        BY <1>1 DEF Cursors
      <3>2. cursor' = [cursor EXCEPT ![StreamOf[w]] = [row EXCEPT !.owner = Gone, !.expires = row.expires]]
        BY <1>2, <2>1, <3>1
      <3> QED  BY <1>1, <3>1, <3>2, LeaseStep
    <2>2. CASE Row(w).owner # w
      BY <1>1, <1>2, <2>2
    <2> QED  BY <2>1, <2>2
  <1> QED  BY <1>1, <1>2, <1>3, BackToIdleIsSound

LEMMA StallIsSound ==
  ASSUME Sound, NEW w \in Workers, Stall(w)
  PROVE  Sound' /\ Onward
  <1> DEFINE r == [worker[w] EXCEPT !.late = TRUE]
  <1>1. /\ TypeOK /\ ScanSound(w) /\ worker[w] \in WorkerStates /\ faults \in Nat /\ now \in Nat
    BY Numbers DEF Sound, TypeOK
  <1>2. /\ worker' = [worker EXCEPT ![w] = r] /\ faults' \in Nat
        /\ UNCHANGED <<World, cursor, scanPriorityAt, journal>>
    BY <1>1 DEF Stall, Fault
  <1>3. /\ r \in WorkerStates /\ r.phase = worker[w].phase /\ r.todo = worker[w].todo
        /\ r.batch = worker[w].batch /\ r.from = worker[w].from /\ r.page = worker[w].page
        /\ r.done = worker[w].done /\ r.found = worker[w].found /\ r.newest = worker[w].newest
    BY <1>1 DEF WorkerStates
  <1> HIDE DEF r
  <1>4. /\ worker' \in [Workers -> WorkerStates] /\ worker'[w] = r
        /\ \A v \in Workers \ {w} : worker'[v] = worker[v]
    BY <1>1, <1>2, <1>3, WorkerStep
  <1>5. TypeOK'
    BY <1>1, <1>2, <1>3, <1>4 DEF TypeOK, World, Transfers
  <1>6. SameScan(w) /\ PhaseSound(w)' = PhaseSound(w) /\ Scanning(w)' = Scanning(w) /\ Fresh(w)' = Fresh(w)
    BY <1>3, <1>4 DEF SameScan, PhaseSound, Scanning, Fresh, Gram
  <1>7. ScanSound(w)'
    <2>1. (StartSound(w) => StartSound(w)') /\ (PagesSound(w) => PagesSound(w)')
      BY <1>1, <1>2, <1>5, <1>6, ScanStands DEF World
    <2> QED  BY <1>1, <1>2, <1>3, <1>4, <1>6, <2>1 DEF ScanSound, Gram, World
  <1> QED  BY <1>2, <1>4, <1>5, <1>7, StepStands DEF World
-----------------------------------------------------------------------------
(* Reading a page.                                                          *)

\* What a scan will claim to have read is in the window it reads, or before
\* the window and journaled.
LEMMA ClaimsAreInWindow ==
  ASSUME Sound, NEW w \in Workers, worker[w].batch <= now, StartSound(w), NEW i \in Of(w),
         NEW newest \in Nat,
         newest # 0 => Gram(w) /\ newest \in Shown(w) /\ chain[newest].at <= worker[w].batch,
         chain[i].at + Lag < worker[w].batch \/ (newest # 0 /\ i <= newest)
  PROVE  /\ Gram(w) => i \in GramWindow(w)
         /\ ~ Gram(w) => i \in UsdtWindow(w) \/ i \in journal
  <1>1. /\ now \in Nat /\ worker[w].batch \in Nat /\ worker[w].from \in Nat
        /\ Lag \in Nat /\ Ahead \in Nat /\ Overlap \in Nat
        /\ i \in Transfers /\ chain[i].at \in Nat /\ i \in Nat /\ chain[i].stream = StreamOf[w]
    BY Numbers, Constants DEF Sound, Of
  <1>2. i \in visible /\ chain[i].at <= worker[w].batch
    <2>1. CASE chain[i].at + Lag < worker[w].batch
      <3>1. ~ (now <= chain[i].at + Lag) /\ chain[i].at <= worker[w].batch
        BY <1>1, <2>1
      <3> QED  BY <1>1, <3>1 DEF Sound, Provider
    <2>2. CASE newest # 0 /\ i <= newest
      <3>1. /\ newest \in visible /\ newest \in Transfers /\ chain[newest].stream = "GRAM"
            /\ chain[i].stream = "GRAM" /\ chain[newest].at <= worker[w].batch
            /\ chain[newest].at \in Nat
        BY <1>1, <2>2, Numbers DEF Shown, Gram, Sound, TypeOK
      <3>2. chain[i].at <= chain[newest].at
        BY <1>1, <2>2, <3>1 DEF Sound, Provider
      <3>3. i = newest \/ i < newest
        BY <1>1, <2>2
      <3>4. i \in visible
        BY <1>1, <3>1, <3>3 DEF Sound, Provider
      <3> QED  BY <1>1, <3>1, <3>2, <3>4
    <2> QED  BY <2>1, <2>2
  <1>3. i \in Shown(w)
    BY <1>1, <1>2 DEF Shown
  <1>4. Gram(w) => i \in GramWindow(w)
    <2>1. chain[i].at <= worker[w].batch + Ahead
      BY <1>1, <1>2
    <2> QED  BY <1>3, <2>1 DEF GramWindow
  <1>5. ~ Gram(w) => i \in UsdtWindow(w) \/ i \in journal
    <2>1. worker[w].from <= chain[i].at + Overlap \/ chain[i].at + Overlap < worker[w].from
      BY <1>1
    <2> QED  BY <1>2, <1>3, <2>1 DEF UsdtWindow, StartSound
  <1> QED  BY <1>4, <1>5

\* Where a place is, seen from a page.
LEMMA PageCases ==
  ASSUME TypeOK, NEW w \in Workers, NEW p \in Nat
  PROVE  /\ worker[w].page * PageSize \in Nat /\ (worker[w].page + 1) * PageSize \in Nat
         /\ \/ p < worker[w].page * PageSize
            \/ OnPage(w, p)
            \/ (worker[w].page + 1) * PageSize <= p
  <1>1. worker[w].page * PageSize \in Nat
    BY Numbers
  <1>2. (worker[w].page + 1) * PageSize \in Nat
    <2>1. worker[w].page + 1 \in Nat /\ PageSize \in Nat
      <3>1. worker[w].page \in Nat /\ PageSize \in Nat
        BY Numbers, Constants
      <3> QED  BY <3>1
    <2> QED  BY <2>1
  <1> DEFINE a == worker[w].page * PageSize
             b == (worker[w].page + 1) * PageSize
  <1>3. OnPage(w, p) <=> a <= p /\ p < b
    BY DEF OnPage
  <1>4. a \in Nat /\ b \in Nat
    BY <1>1, <1>2
  <1> HIDE DEF a, b
  <1>5. p < a \/ OnPage(w, p) \/ b <= p
    BY <1>3, <1>4
  <1> QED  BY <1>4, <1>5 DEF a, b

LEMMA FetchUsdtIsSound ==
  ASSUME Sound, NEW w \in Workers, FetchUsdt(w)
  PROVE  Sound' /\ Onward
  <1> DEFINE row == worker[w]
             W == UsdtWindow(w)
             page == UsdtPage(w)
             done == IsShort(w, W)
             phase == AfterFetch(w, done, page)
             r == [row EXCEPT !.page = row.page + 1, !.done = done, !.todo = page,
                              !.phase = phase]
  <1>1. /\ row.phase = "FETCH" /\ ~ Gram(w) /\ worker' = [worker EXCEPT ![w] = r]
        /\ UNCHANGED <<World, cursor, scanPriorityAt, journal, faults>>
    BY DEF FetchUsdt
  <1>2. /\ TypeOK /\ ScanSound(w) /\ row \in WorkerStates /\ row.page \in Nat /\ now \in Nat
        /\ row.newest \in Nat
    BY Numbers DEF Sound, TypeOK
  <1>3. /\ StartSound(w) /\ PagesSound(w) /\ row.batch <= now /\ ~ row.done /\ row.todo = {}
    BY <1>1, <1>2 DEF ScanSound, Scanning, PhaseSound
  <1>4. /\ page \subseteq W /\ page \subseteq Shown(w) /\ W \subseteq Nat /\ IsFiniteSet(W) /\ page \subseteq Nat
    BY <1>2, Windows DEF UsdtPage
  <1>5. done \in BOOLEAN /\ phase \in Phases /\ row.page + 1 \in Nat
    BY <1>2 DEF IsShort, AfterFetch, Phases
  <1> HIDE DEF done, page, W, phase
  <1>6. /\ r \in WorkerStates /\ r.page = row.page + 1 /\ r.done = done /\ r.todo = page
        /\ r.phase = phase /\ r.batch = row.batch /\ r.from = row.from
        /\ r.found = row.found /\ r.newest = row.newest
    BY <1>2, <1>4, <1>5 DEF WorkerStates, Phases
  <1> HIDE DEF r
  <1>7. /\ worker' \in [Workers -> WorkerStates] /\ worker'[w] = r
        /\ \A v \in Workers \ {w} : worker'[v] = worker[v]
    BY <1>1, <1>2, <1>6, WorkerStep
  <1>8. TypeOK'
    BY <1>1, <1>2, <1>6, <1>7 DEF TypeOK, Transfers, World, AfterFetch, phase
  <1>9. /\ Of(w)' = Of(w) /\ Shown(w)' = Shown(w) /\ Claims(w)' = Claims(w) /\ Gram(w)' = Gram(w)
        /\ UsdtWindow(w)' = W
    BY <1>1, <1>6, <1>7 DEF World, Of, Shown, Claims, Gram, UsdtWindow, Transfers, W
  <1>10. \A i : Place(w, i)' = Before(W, i) /\ Place(w, i) = Before(W, i) /\ Before(W, i) \in Nat
    BY <1>1, <1>4, <1>9, PlaceType DEF Place, Before, W
  <1>11. StartSound(w)'
    BY <1>1, <1>3, <1>6, <1>7, <1>9 DEF StartSound, World
  <1>12. ASSUME NEW i \in Claims(w)
         PROVE  \/ i \in page \cup journal
                \/ i \in W /\ (row.page + 1) * PageSize <= Before(W, i)
    <2>1. i \in W \/ i \in journal
      <3>1. /\ i \in Of(w)
            /\ chain[i].at + Lag < row.batch \/ (row.newest # 0 /\ i <= row.newest)
            /\ row.newest # 0 => Gram(w) /\ row.newest \in Shown(w) /\ chain[row.newest].at <= row.batch
        BY <1>3, <1>12 DEF Claims, PagesSound
      <3> HIDE DEF W
      <3> QED  BY <1>1, <1>2, <1>3, <3>1, ClaimsAreInWindow DEF W
    <2>2. Before(W, i) < row.page * PageSize => i \in journal
      BY <1>1, <1>3, <1>10, <1>12 DEF PagesSound
    <2>3. i \in W /\ OnPage(w, Before(W, i)) => i \in page
      BY DEF UsdtPage, W, page
    <2> QED  BY <1>2, <1>10, <2>1, <2>2, <2>3, PageCases
  <1>13. PagesSound(w)'
    <2>1. CASE done
      <3>1. Cardinality(W) < (row.page + 1) * PageSize
        BY <2>1 DEF done, IsShort
      <3>2. ASSUME NEW i \in W
            PROVE  ~ ((row.page + 1) * PageSize <= Before(W, i))
        <4>1. Before(W, i) < Cardinality(W) /\ Cardinality(W) \in Nat /\ Before(W, i) \in Nat
          BY <1>4, <1>10, PlaceInSize, FS_CardinalityType
        <4>2. (row.page + 1) * PageSize \in Nat
          BY <1>2, <4>1, PageCases
        <4> QED  BY <3>1, <4>1, <4>2
      <3>3. Claims(w) \subseteq page \cup journal
        BY <1>12, <3>2
      <3> QED  BY <1>1, <1>3, <1>4, <1>6, <1>7, <1>9, <2>1, <3>3 DEF PagesSound, World
    <2>2. CASE ~ done
      <3>1. ASSUME NEW i \in Claims(w), Place(w, i)' < worker'[w].page * PageSize
            PROVE  i \in page \cup journal
        <4>1. Before(W, i) < (row.page + 1) * PageSize
          BY <1>6, <1>7, <1>10, <3>1
        <4>2. Before(W, i) \in Nat /\ (row.page + 1) * PageSize \in Nat
          BY <1>2, <1>10, PageCases
        <4>3. ~ ((row.page + 1) * PageSize <= Before(W, i))
          BY <4>1, <4>2
        <4> QED  BY <1>12, <4>3
      <3> QED  BY <1>1, <1>3, <1>4, <1>6, <1>7, <1>9, <2>2, <3>1 DEF PagesSound, World
    <2> QED  BY <1>5, <2>1, <2>2
  <1>14. ScanSound(w)'
    <2>1. PhaseSound(w)'
      BY <1>1, <1>5, <1>6, <1>7, <1>9 DEF PhaseSound, AfterFetch, phase
    <2> QED  BY <1>1, <1>3, <1>6, <1>7, <1>11, <1>13, <2>1 DEF ScanSound, AfterFetch, World, phase
  <1> QED  BY <1>1, <1>7, <1>8, <1>14, StepStands DEF World

\* A page that is not read to its end reaches back to the scan's starting point.
LEMMA UnselectedIsScanned ==
  ASSUME Sound, NEW w \in Workers, Gram(w), StartSound(w), NEW i \in Of(w), NEW k \in GramPage(w),
         k \notin Selected(w, GramPage(w)), i <= k
  PROVE  i \in journal
  <1>1. PICK j \in GramPage(w) : j >= k /\ BeyondCursor(w, j)
    BY DEF Selected
  <1>2. /\ j \in Transfers /\ chain[j].at \in Nat /\ j \in Nat /\ k \in Nat /\ i \in Nat
    BY Windows, Numbers DEF GramPage, Sound
  <1>3. /\ worker[w].from # 0 /\ worker[w].from \in Transfers /\ worker[w].from \in Nat
        /\ chain[worker[w].from].at \in Nat
    BY <1>1, Numbers DEF BeyondCursor, StartSound, Sound, TypeOK
  <1>4. j <= worker[w].from
    <2>1. CASE j = worker[w].from
      BY <1>2, <2>1
    <2>2. CASE chain[j].at < chain[worker[w].from].at
      <3>1. ~ (chain[worker[w].from].at <= chain[j].at)
        BY <1>2, <1>3, <2>2
      <3>2. ~ (worker[w].from <= j)
        BY <1>2, <1>3, <3>1 DEF Sound, Provider
      <3> QED  BY <1>2, <1>3, <3>2
    <2> QED  BY <1>1, <2>1, <2>2 DEF BeyondCursor
  <1>5. i <= worker[w].from
    BY <1>1, <1>2, <1>3, <1>4
  <1> QED  BY <1>3, <1>5 DEF StartSound

LEMMA FetchGramIsSound ==
  ASSUME Sound, NEW w \in Workers, FetchGram(w)
  PROVE  Sound' /\ Onward
  <1> DEFINE row == worker[w]
             W == GramWindow(w)
             page == GramPage(w)
             selected == Selected(w, page)
             found == row.found \cup selected
             done == selected # page \/ IsShort(w, W)
             todo == {i \in found : done /\ chain[i].at <= row.batch}
             newest == IF row.newest # 0 THEN row.newest ELSE NewestIn(w, page)
             left == IF done THEN {} ELSE found
             phase == AfterFetch(w, done, todo)
             r == [row EXCEPT !.page = row.page + 1, !.newest = newest, !.found = left,
                              !.done = done, !.todo = todo, !.phase = phase]
  <1>1. /\ row.phase = "FETCH" /\ Gram(w) /\ worker' = [worker EXCEPT ![w] = r]
        /\ UNCHANGED <<World, cursor, scanPriorityAt, journal, faults>>
    BY DEF FetchGram
  <1>2. /\ TypeOK /\ ScanSound(w) /\ row \in WorkerStates /\ row.page \in Nat /\ now \in Nat
        /\ row.newest \in Nat /\ row.batch \in Nat
    BY Numbers DEF Sound, TypeOK
  <1>3. /\ StartSound(w) /\ PagesSound(w) /\ row.batch <= now /\ ~ row.done /\ row.todo = {}
        /\ row.found \subseteq Shown(w)
    BY <1>1, <1>2 DEF ScanSound, Scanning, PhaseSound, PagesSound
  <1>4. /\ page \subseteq W /\ page \subseteq Shown(w) /\ W \subseteq Nat /\ IsFiniteSet(W)
        /\ Shown(w) \subseteq Nat /\ selected \subseteq page
    BY <1>2, Windows DEF GramPage, Selected
  <1>5. /\ newest \in Nat
        /\ newest # 0 => newest \in Shown(w) /\ chain[newest].at <= row.batch
        /\ newest # row.newest => newest \in page
    <2>1. CASE row.newest # 0
      BY <1>2, <1>3, <2>1 DEF PagesSound
    <2>2. CASE row.newest = 0
      <3> DEFINE inWindow == {i \in page : chain[i].at <= row.batch}
      <3>1. inWindow # {} => Max(inWindow) \in inWindow
        <4>1. inWindow \in SUBSET Nat /\ Len(chain) \in Nat /\ \A x \in inWindow : x <= Len(chain)
          <5>1. inWindow \subseteq Transfers /\ Transfers = 1 .. Len(chain)
            BY <1>2, <1>4, Windows
          <5>2. Len(chain) \in Nat
            BY <1>2, LenIsNat
          <5> QED  BY <1>4, <5>1, <5>2
        <4> HIDE DEF inWindow
        <4> QED  BY <4>1, MaxIsGreatest
      <3>2. newest = IF inWindow = {} THEN 0 ELSE Max(inWindow)
        BY <2>2 DEF NewestIn
      <3>3. inWindow # {} => newest \in page /\ chain[newest].at <= row.batch
        BY <3>1, <3>2
      <3> HIDE DEF inWindow, newest, page
      <3> QED  BY <1>4, <2>2, <3>2, <3>3
    <2> QED  BY <2>1, <2>2
  <1>6. /\ done \in BOOLEAN /\ phase \in Phases /\ row.page + 1 \in Nat
        /\ left \subseteq Shown(w) /\ todo \subseteq Shown(w) /\ (todo # {} => done)
    BY <1>2, <1>3, <1>4 DEF IsShort, AfterFetch, Phases
  <1>7. ASSUME NEW i \in Of(w), chain[i].at + Lag < row.batch \/ (newest # 0 /\ i <= newest)
        PROVE  /\ i \in W /\ i \in Nat
               /\ chain[i].at <= row.batch \/ i \in journal
               /\ \/ i \in found \cup journal
                  \/ (row.page + 1) * PageSize <= After(W, i) /\ ~ done
    <2>1. i \in W /\ i \in Nat /\ After(W, i) \in Nat
      <3> HIDE DEF newest, W
      <3>1. i \in W
        BY <1>1, <1>3, <1>5, <1>7, ClaimsAreInWindow DEF W
      <3> QED  BY <1>4, <3>1, PlaceType
    <2>2. chain[i].at <= row.batch
      <3>1. i \in Transfers /\ chain[i].at \in Nat /\ Lag \in Nat
        BY <1>2, Windows, Numbers, Constants
      <3>2. CASE chain[i].at + Lag < row.batch
        BY <1>2, <3>1, <3>2
      <3>3. CASE newest # 0 /\ i <= newest
        <4>1. newest \in Transfers /\ chain[newest].at \in Nat /\ chain[newest].at <= row.batch
          <5> HIDE DEF newest
          <5> QED  BY <1>2, <1>5, <3>3, Windows, Numbers
        <4> HIDE DEF newest
        <4>2. chain[i].at <= chain[newest].at
          BY <3>1, <3>3, <4>1 DEF Sound, Provider
        <4> QED  BY <1>2, <3>1, <4>1, <4>2
      <3> QED  BY <1>7, <3>2, <3>3
    <2>3. CASE After(W, i) < row.page * PageSize
      <3>1. i \in Claims(w)
        <4>1. CASE newest = row.newest
          BY <1>7, <4>1 DEF Claims
        <4>2. CASE newest # row.newest
          <5>1. newest \in page /\ newest \in Nat
            BY <1>5, <4>2
          <5> HIDE DEF newest
          <5>2. newest \in W /\ row.page * PageSize <= After(W, newest)
            BY <5>1 DEF GramPage, OnPage
          <5>3. row.page * PageSize \in Nat /\ After(W, newest) \in Nat
            BY <1>2, <1>4, Numbers, PlaceType
          <5>4. ~ (After(W, newest) <= After(W, i))
            BY <2>1, <2>3, <5>2, <5>3
          <5>5. ~ (i <= newest)
            <6> HIDE DEF W
            <6> QED  BY <1>4, <2>1, <5>1, <5>4, AfterFollowsOrder
          <5> QED  BY <1>7, <5>5 DEF Claims
        <4> QED  BY <4>1, <4>2
      <3>2. Place(w, i) = After(W, i)
        BY <1>1 DEF Place
      <3>3. i \in row.found \cup journal
        BY <1>3, <2>3, <3>1, <3>2 DEF PagesSound
      <3> QED  BY <2>1, <2>2, <3>3
    <2>4. CASE OnPage(w, After(W, i))
      <3>1. i \in page
        BY <2>1, <2>4 DEF GramPage
      <3>2. i \notin selected => i \in journal
        <4>1. i <= i
          BY <2>1
        <4> QED  BY <1>1, <1>3, <3>1, <4>1, UnselectedIsScanned
      <3> QED  BY <2>1, <2>2, <3>2
    <2>5. CASE (row.page + 1) * PageSize <= After(W, i)
      <3>1. (row.page + 1) * PageSize \in Nat
        BY <1>2, <2>1, PageCases
      <3>2. ~ IsShort(w, W)
        <4>1. After(W, i) < Cardinality(W) /\ Cardinality(W) \in Nat
          <5> HIDE DEF W
          <5> QED  BY <1>4, <2>1, PlaceInSize, FS_CardinalityType
        <4> QED  BY <2>1, <2>5, <3>1, <4>1 DEF IsShort
      <3>3. ASSUME selected # page
            PROVE  i \in journal
        <4>1. PICK k \in page : k \notin selected
          BY <1>4, <3>3
        <4>2. k \in W /\ k \in Nat /\ After(W, k) \in Nat /\ After(W, k) < (row.page + 1) * PageSize
          BY <1>4, <4>1, PlaceType DEF GramPage, OnPage
        <4>3. ~ (After(W, i) <= After(W, k))
          BY <2>1, <2>5, <3>1, <4>2
        <4>4. ~ (k <= i)
          <5> HIDE DEF W
          <5> QED  BY <1>4, <2>1, <4>2, <4>3, AfterFollowsOrder
        <4>5. i <= k
          BY <2>1, <4>2, <4>4
        <4> QED  BY <1>1, <1>3, <4>1, <4>5, UnselectedIsScanned
      <3> QED  BY <2>1, <2>2, <2>5, <3>2, <3>3
    <2> QED  BY <1>2, <2>1, <2>3, <2>4, <2>5, PageCases
  <1> HIDE DEF done, page, W, phase, todo, left, newest, found, selected
  <1>8. /\ r \in WorkerStates /\ r.page = row.page + 1 /\ r.done = done /\ r.todo = todo
        /\ r.phase = phase /\ r.batch = row.batch /\ r.from = row.from
        /\ r.found = left /\ r.newest = newest
    BY <1>2, <1>4, <1>5, <1>6 DEF WorkerStates, Phases
  <1> HIDE DEF r
  <1>9. /\ worker' \in [Workers -> WorkerStates] /\ worker'[w] = r
        /\ \A v \in Workers \ {w} : worker'[v] = worker[v]
    BY <1>1, <1>2, <1>8, WorkerStep
  <1>10. /\ (phase = "RECORD" => todo # {})
         /\ (phase = "RENEW" => (done <=> todo # {})) /\ (phase = "COMPLETE" => done /\ todo = {})
         /\ phase \in {"RENEW", "COMPLETE"}
    BY <1>1, <1>6 DEF phase, AfterFetch
  <1>11. TypeOK'
    BY <1>1, <1>2, <1>8, <1>9, <1>10 DEF TypeOK, Transfers, World
  <1>12. /\ Of(w)' = Of(w) /\ Shown(w)' = Shown(w) /\ Gram(w)' = Gram(w)
         /\ GramWindow(w)' = W
         /\ Claims(w)' = {i \in Of(w) : chain[i].at + Lag < row.batch \/ (newest # 0 /\ i <= newest)}
    BY <1>1, <1>8, <1>9 DEF World, Of, Shown, Claims, Gram, GramWindow, Transfers, W
  <1>13. \A i : Place(w, i)' = After(W, i) /\ After(W, i) \in Nat
    BY <1>1, <1>4, <1>12, PlaceType DEF Place, After
  <1>14. StartSound(w)'
    BY <1>1, <1>3, <1>8, <1>9, <1>12 DEF StartSound, World
  <1>15. PagesSound(w)'
    <2>1. CASE done
      <3>1. Claims(w)' \subseteq todo \cup journal
        <4> SUFFICES ASSUME NEW i \in Claims(w)'
                     PROVE  i \in todo \cup journal
          OBVIOUS
        <4>1. /\ chain[i].at <= row.batch \/ i \in journal
              /\ i \in found \cup journal
          BY <1>7, <1>12, <2>1
        <4> QED  BY <2>1, <4>1 DEF todo
      <3> QED  BY <1>1, <1>5, <1>6, <1>8, <1>9, <1>12, <2>1, <3>1 DEF PagesSound, World
    <2>2. CASE ~ done
      <3>1. ASSUME NEW i \in Claims(w)', Place(w, i)' < worker'[w].page * PageSize
            PROVE  i \in left \cup todo \cup journal
        <4>1. After(W, i) < (row.page + 1) * PageSize
          BY <1>8, <1>9, <1>13, <3>1
        <4>2. After(W, i) \in Nat /\ (row.page + 1) * PageSize \in Nat
          BY <1>2, <1>13, PageCases
        <4>3. ~ ((row.page + 1) * PageSize <= After(W, i))
          BY <4>1, <4>2
        <4>4. i \in found \cup journal
          BY <1>7, <1>12, <4>3
        <4> QED  BY <2>2, <4>4 DEF left
      <3> QED  BY <1>1, <1>5, <1>6, <1>8, <1>9, <1>12, <2>2, <3>1 DEF PagesSound, World
    <2> QED  BY <1>6, <2>1, <2>2
  <1>16. ScanSound(w)'
    <2>1. PhaseSound(w)'
      BY <1>1, <1>6, <1>8, <1>9, <1>10, <1>12 DEF PhaseSound
    <2> QED  BY <1>1, <1>3, <1>8, <1>9, <1>10, <1>14, <1>15, <2>1 DEF ScanSound, World
  <1> QED  BY <1>1, <1>9, <1>11, <1>16, StepStands DEF World
-----------------------------------------------------------------------------
(* Moving the cursor.                                                       *)

LEMMA CompleteMovesCursor ==
  ASSUME Sound, NEW w \in Workers, Complete(w)
  PROVE  /\ cursor' \in [Streams -> Cursors] /\ scanPriorityAt' \in Nat
         /\ cursor'[StreamOf[w]].through = worker[w].batch
         /\ cursor'[StreamOf[w]].last =
              IF worker[w].newest # 0 THEN worker[w].newest ELSE cursor[StreamOf[w]].last
         /\ \A t \in Streams \ {StreamOf[w]} : cursor'[t] = cursor[t]
         /\ cursor[StreamOf[w]].through <= cursor'[StreamOf[w]].through
  <1> DEFINE last == IF worker[w].newest # 0 THEN worker[w].newest ELSE Row(w).last
             row == [Row(w) EXCEPT !.through = worker[w].batch, !.last = last]
  <1>1. /\ TypeOK /\ Row(w) \in Cursors /\ worker[w].batch \in Nat /\ last \in Nat /\ Interval \in Nat
        /\ Row(w).through \in Nat
    BY Numbers, Constants DEF Sound, TypeOK, Row
  <1>2. row \in Cursors /\ row.through = worker[w].batch /\ row.last = last
    BY <1>1 DEF Cursors
  <1>3. Released(w, row, Interval) /\ ~ (worker[w].batch < Row(w).through)
    BY DEF Complete, Regresses, Scanned
  <1> HIDE DEF row
  <1>4. /\ cursor' \in [Streams -> Cursors] /\ scanPriorityAt' \in Nat
        /\ cursor'[StreamOf[w]].through = row.through /\ cursor'[StreamOf[w]].last = row.last
        /\ \A t \in Streams \ {StreamOf[w]} : cursor'[t] = cursor[t]
    BY <1>1, <1>2, <1>3, ReleaseStep
  <1> QED  BY <1>1, <1>2, <1>3, <1>4 DEF Row

LEMMA CompleteIsSound ==
  ASSUME Sound, NEW w \in Workers, Complete(w)
  PROVE  Sound' /\ Onward
  <1> DEFINE s == StreamOf[w]
             row == worker[w]
  <1>1. /\ row.phase = "COMPLETE" /\ worker' = [worker EXCEPT ![w] = Idle]
        /\ UNCHANGED <<World, journal, faults>>
    BY DEF Complete
  <1>2. /\ cursor' \in [Streams -> Cursors] /\ scanPriorityAt' \in Nat
        /\ cursor'[s].through = row.batch
        /\ cursor'[s].last = IF row.newest # 0 THEN row.newest ELSE cursor[s].last
        /\ \A t \in Streams \ {s} : cursor'[t] = cursor[t]
    BY CompleteMovesCursor
  <1>3. /\ TypeOK /\ s \in Streams /\ row.batch \in Nat /\ row.newest \in Nat /\ now \in Nat
        /\ Idle \in WorkerStates /\ CursorSound(s) /\ ScanSound(w)
    BY Numbers, Constants DEF Sound, Idle, WorkerStates
  <1>4. /\ PagesSound(w) /\ row.batch <= now /\ Claims(w) \subseteq journal
    BY <1>1, <1>3 DEF ScanSound, Scanning, PhaseSound, PagesSound
  <1>5. /\ worker' \in [Workers -> WorkerStates] /\ worker'[w] = Idle
        /\ \A v \in Workers \ {w} : worker'[v] = worker[v]
    BY <1>1, <1>3, WorkerStep
  <1>6. TypeOK'
    BY <1>1, <1>2, <1>3, <1>5 DEF TypeOK, Transfers, World, Idle
  <1>7. Provider'
    BY <1>1 DEF Sound, Provider, Transfers, World
  <1>8. CursorSound(s)'
    <2>1. cursor'[s].through <= now'
      BY <1>1, <1>2, <1>4 DEF World
    <2>2. \A i \in Transfers : chain[i].at \in Nat /\ i \in Nat
      BY <1>3, Numbers
    <2>3. Lag \in Nat /\ Overlap \in Nat /\ Horizon \in Nat /\ Lag < Horizon /\ Lag <= Overlap
      BY Constants
    <2>4. Behind(s)' \subseteq journal
      <3> SUFFICES ASSUME NEW i \in Behind(s)'
                   PROVE  i \in journal
        OBVIOUS
      <3>1. i \in Transfers /\ chain[i].stream = s /\ i \in Of(w)
        BY <1>1 DEF Behind, Transfers, World, Of
      <3>2. CASE s = "GRAM"
        <4>1. cursor'[s].last # 0 /\ i <= cursor'[s].last
          BY <3>2 DEF Behind
        <4>2. CASE row.newest # 0
          BY <1>2, <1>4, <3>1, <4>1, <4>2 DEF Claims
        <4>3. CASE row.newest = 0
          <5>1. i \in Behind(s)
            BY <1>2, <3>1, <3>2, <4>1, <4>3 DEF Behind
          <5> QED  BY <1>3, <5>1 DEF CursorSound
        <4> QED  BY <4>2, <4>3
      <3>3. CASE s # "GRAM"
        <4>1. chain[i].at + Overlap < row.batch
          BY <1>1, <1>2, <3>3 DEF Behind, World
        <4>2. chain[i].at + Lag < row.batch
          BY <1>3, <2>2, <2>3, <3>1, <4>1
        <4> QED  BY <1>4, <3>1, <4>2 DEF Claims
      <3> QED  BY <3>2, <3>3
    <2>5. ASSUME NEW i \in Transfers, chain[i].stream = s, Passed(s, i)'
          PROVE  i \in journal
      <3>1. row.batch >= chain[i].at + Horizon
        BY <1>1, <1>2, <2>5 DEF Passed, World
      <3>2. chain[i].at + Lag < row.batch
        BY <1>3, <2>2, <2>3, <3>1
      <3> QED  BY <1>4, <2>5, <3>2 DEF Claims, Of
    <2>6. cursor'[s].last # 0 =>
            s = "GRAM" /\ cursor'[s].last \in visible /\ chain[cursor'[s].last].stream = "GRAM"
      BY <1>2, <1>3, <1>4 DEF PagesSound, CursorSound, Shown, Gram
    <2> QED  BY <1>1, <2>1, <2>4, <2>5, <2>6 DEF CursorSound, Transfers, World
  <1>9. ASSUME NEW t \in Streams \ {s}
        PROVE  CursorSound(t)'
    <2>1. CursorSound(t) /\ now <= now'
      BY <1>1, <1>3 DEF Sound, World
    <2> QED  BY <1>1, <1>2, <1>3, <1>6, <2>1, CursorStands DEF World
  <1>10. ScanSound(w)'
    BY <1>5 DEF ScanSound, Scanning, Fresh, Idle
  <1>11. ASSUME NEW v \in Workers \ {w}
         PROVE  ScanSound(v)'
    <2>1. ScanSound(v) /\ now <= now'
      BY <1>1, <1>3 DEF Sound, World
    <2> QED  BY <1>1, <1>3, <1>5, <1>6, <2>1, OthersStand DEF World
  <1>12. Onward
    <2> SUFFICES ASSUME NEW t \in Streams, NEW i \in Transfers, Passed(t, i)
                 PROVE  Passed(t, i)'
      BY DEF Onward
    <2>1. /\ cursor[t].through \in Nat /\ cursor'[t].through \in Nat /\ chain[i].at + Horizon \in Nat
          /\ cursor[t].through <= cursor'[t].through
      <3>1. chain[i].at \in Nat /\ Horizon \in Nat /\ cursor[t].through \in Nat
        BY <1>3, Numbers, Constants
      <3>2. cursor'[t].through \in Nat /\ cursor[t].through <= cursor'[t].through
        <4>1. cursor'[s].through \in Nat /\ cursor[s].through <= cursor'[s].through
          BY <1>2, <1>3, CompleteMovesCursor
        <4>2. CASE t # s
          BY <1>2, <3>1, <4>2
        <4> QED  BY <4>1, <4>2
      <3> QED  BY <3>1, <3>2
    <2> QED  BY <1>1, <2>1 DEF Passed, World
  <1> QED  BY <1>6, <1>7, <1>8, <1>9, <1>10, <1>11, <1>12 DEF Sound
-----------------------------------------------------------------------------
(* The theorems.                                                            *)

LEMMA SoundIsInductive ==
  ASSUME Sound, [Next]_vars
  PROVE  Sound' /\ Onward
  <1>1. ASSUME NEW s \in Streams, Arrive(s)
        PROVE  Sound' /\ Onward
    BY <1>1, ArriveIsSound
  <1>2. ASSUME NEW i \in Transfers, Index(i) \/ Settle(i)
        PROVE  Sound' /\ Onward
    BY <1>2, IndexIsSound, SettleIsSound
  <1>3. ASSUME NEW w \in Workers, Scan(w)
        PROVE  Sound' /\ Onward
    <2>1. CASE Start(w) \/ Claim(w) \/ RenewLease(w)
      BY <2>1, StartIsSound, ClaimIsSound, RenewIsSound
    <2>2. CASE FetchGram(w) \/ FetchUsdt(w) \/ Record(w)
      BY <2>2, FetchGramIsSound, FetchUsdtIsSound, RecordIsSound
    <2>3. CASE Complete(w) \/ FailScan(w)
      BY <2>3, CompleteIsSound, FailScanIsSound
    <2>4. CASE Refused(w)
      <3>1. Goes(w, "FAILING") /\ faults' \in Nat /\ UNCHANGED <<World, cursor, scanPriorityAt, journal>>
        BY <2>4, Numbers DEF Refused, Sound
      <3> QED  BY <3>1, FailingIsSound
    <2> QED  BY <1>3, <2>1, <2>2, <2>3, <2>4 DEF Scan
  <1>4. ASSUME NEW w \in Workers, Disturb(w)
        PROVE  Sound' /\ Onward
    <2>1. CASE Crash(w) \/ Stall(w)
      BY <2>1, CrashIsSound, StallIsSound
    <2>2. CASE Throws(w)
      <3>1. faults \in Nat
        BY Numbers DEF Sound
      <3>2. Goes(w, "FAILING") /\ faults' \in Nat /\ UNCHANGED <<World, cursor, scanPriorityAt, journal>>
        BY <2>2, <3>1 DEF Throws, Fault
      <3> QED  BY <3>2, FailingIsSound
    <2> QED  BY <1>4, <2>1, <2>2 DEF Disturb
  <1>5. CASE UNCHANGED vars
    <2>1. TypeOK /\ now <= now'
      BY <1>5, Numbers DEF Sound, vars
    <2>2. TypeOK' /\ Provider'
      BY <1>5, <2>1 DEF Sound, TypeOK, Provider, Transfers, vars
    <2>3. Onward
      BY <1>5 DEF Onward, Passed, vars
    <2> QED  BY <1>5, <2>1, <2>2, <2>3, CursorStands, OthersStand DEF Sound, vars
  <1> QED  BY <1>1, <1>2, <1>3, <1>4, <1>5, TickIsSound DEF Next

LEMMA InitIsSound ==
  ASSUME Init
  PROVE  Sound
  <1>1. Transfers = {} /\ chain \in Seq([stream : Streams, at : Nat])
    BY DEF Init, Transfers
  <1>2. TypeOK
    <2>1. Idle \in WorkerStates /\ Idle.phase = "IDLE"
      BY DEF Idle, WorkerStates
    <2>2. [owner |-> NoOwner, expires |-> 0, through |-> 0, last |-> 0] \in Cursors
      BY DEF Cursors
    <2> QED  BY <1>1, <2>1, <2>2 DEF Init, TypeOK
  <1>3. Provider
    BY <1>1 DEF Init, Provider
  <1>4. ASSUME NEW s \in Streams
        PROVE  CursorSound(s)
    BY <1>1 DEF Init, CursorSound, Behind
  <1>5. ASSUME NEW w \in Workers
        PROVE  ScanSound(w)
    BY DEF Init, ScanSound, Scanning, Fresh, Idle
  <1> QED  BY <1>2, <1>3, <1>4, <1>5 DEF Sound

\* What every scan and every cursor says it has read is found, to be journaled
\* or journaled, in every reachable state.
THEOREM SoundHolds == Spec => []Sound
  <1> QED  BY InitIsSound, SoundIsInductive, PTL DEF Spec

\* The cursor rows, the journal and the workers' local state have their types,
\* and no worker journals an empty page.
THEOREM ScannersTypeOK == Spec => []TypeOK
  <1>1. Sound => TypeOK
    BY DEF Sound
  <1> QED  BY <1>1, SoundHolds, PTL

\* No transfer is left behind a cursor unjournaled, for any number of scanners of
\* either asset, whatever pages, faults and overtaken leases.
THEOREM NothingSkippedHolds == Spec => []NothingSkipped
  <1>1. Sound => NothingSkipped
    BY DEF Sound, CursorSound, NothingSkipped
  <1> QED  BY <1>1, SoundHolds, PTL

\* The settlement horizon is sound: when it lets a transfer settle, every
\* transfer that happened no later is journaled, in either asset.
THEOREM HorizonSoundHolds == Spec => []HorizonSound
  <1>1. ASSUME Sound
        PROVE  HorizonSound
    <2> SUFFICES ASSUME NEW i \in journal, HorizonReady(i), NEW j \in Transfers, chain[j].at <= chain[i].at
                 PROVE  j \in journal
      BY DEF HorizonSound
    <2>1. /\ i \in Transfers /\ chain[i].at \in Nat /\ chain[j].at \in Nat /\ chain[j].stream \in Streams
          /\ cursor[chain[j].stream].through \in Nat /\ Horizon \in Nat
      BY <1>1, Numbers, Constants DEF Sound, TypeOK
    <2>2. Passed(chain[j].stream, i)
      BY <2>1 DEF HorizonReady
    <2>3. Passed(chain[j].stream, j)
      BY <2>1, <2>2 DEF Passed
    <2> QED  BY <1>1, <2>1, <2>3 DEF Sound, CursorSound
  <1> QED  BY <1>1, SoundHolds, PTL

\* Settlement follows the order of the blockchain: with the order of creditMovement
\* among the journaled movements, the horizon rules out that a transfer is
\* discovered before one that has been settled.
THEOREM SettledInOrderHolds == Spec => []SettledInOrder
  <1>1. Init => SettledInOrder
    BY DEF Init, SettledInOrder
  <1>2. ASSUME Sound, SettledInOrder, [Next]_vars, HorizonSound
        PROVE  SettledInOrder'
    <2>1. ASSUME NEW i \in Transfers, Settle(i)
          PROVE  SettledInOrder'
      <3>1. /\ i \in journal /\ HorizonReady(i) /\ settled' = settled \cup {i} /\ Transfers' = Transfers
            /\ \A j \in journal \ settled : j >= i
        BY <2>1 DEF Settle, Transfers
      <3>2. ASSUME NEW j \in Transfers, j < i
            PROVE  j \in settled
        <4>1. j \in Nat /\ i \in Nat /\ j <= i /\ ~ (j >= i)
          BY <1>2, <3>2, Numbers DEF Sound
        <4>2. chain[j].at <= chain[i].at
          BY <1>2, <2>1, <4>1 DEF Sound, Provider
        <4>3. j \in journal
          BY <1>2, <3>1, <4>2 DEF HorizonSound
        <4> QED  BY <3>1, <4>1, <4>3
      <3> QED  BY <1>2, <3>1, <3>2 DEF SettledInOrder
    <2>2. ASSUME NEW s \in Streams, Arrive(s)
          PROVE  SettledInOrder'
      <3>1. settled' = settled /\ chain' = Append(chain, [stream |-> s, at |-> now])
        BY <2>2 DEF Arrive
      <3>2. /\ Transfers = 1 .. Len(chain) /\ Len(chain) \in Nat /\ settled \subseteq Transfers
            /\ Transfers' = 1 .. Len(chain) + 1
        <4> DEFINE Rows == [stream : Streams, at : Nat]
                   row == [stream |-> s, at |-> now]
        <4>1. chain \in Seq(Rows) /\ row \in Rows /\ chain' = Append(chain, row)
          BY <1>2, <3>1, Numbers DEF Sound, TypeOK
        <4>2. settled \subseteq Transfers
          BY <1>2 DEF Sound, TypeOK
        <4> HIDE DEF Rows, row
        <4> QED  BY <4>1, <4>2 DEF Transfers
      <3>3. \A i \in settled : \A j \in Transfers' : j < i => j \in Transfers
        BY <3>2
      <3> QED  BY <1>2, <3>1, <3>3 DEF SettledInOrder
    <2>3. CASE UNCHANGED <<chain, settled>>
      BY <1>2, <2>3 DEF SettledInOrder, Transfers
    <2> QED
      <3>1. \A i \in Transfers : Index(i) => UNCHANGED <<chain, settled>>
        BY DEF Index
      <3>2. \A w \in Workers : Scan(w) \/ Disturb(w) => UNCHANGED <<chain, settled>>
        BY DEF Scan, Disturb, Start, Claim, RenewLease, FetchGram, FetchUsdt, Record, Complete,
               Refused, FailScan, Throws, Crash, Stall, World
      <3>3. Tick \/ UNCHANGED vars => UNCHANGED <<chain, settled>>
        BY DEF Tick, vars
      <3> QED  BY <1>2, <2>1, <2>2, <2>3, <3>1, <3>2, <3>3 DEF Next
  <1> QED  BY <1>1, <1>2, SoundHolds, HorizonSoundHolds, PTL DEF Spec

\* A cursor never withdraws what settlement relies on: scannedThroughAt does not
\* go back, and what has happened keeps its time.
THEOREM PassedIsForGoodHolds == Spec => PassedIsForGood
  <1>1. Sound /\ [Next]_vars => [Onward]_vars
    BY SoundIsInductive
  <1>2. [Onward]_vars => [\A s \in Streams : \A i \in Transfers : Passed(s, i) => Passed(s, i)']_vars
    BY DEF Onward
  <1> QED  BY <1>1, <1>2, SoundHolds, PTL DEF Spec, PassedIsForGood
=============================================================================
