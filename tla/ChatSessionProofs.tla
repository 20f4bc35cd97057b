------------------------- MODULE ChatSessionProofs -------------------------
(***************************************************************************)
(* Theorems of ChatSession for every set of turns and sessions and every   *)
(* bound on the model calls of a turn.                                     *)
(***************************************************************************)
EXTENDS ChatSession, SequenceTheorems, TLAPS

HeapType(heap) ==
  DOMAIN heap \subseteq Messages /\ heap \in [DOMAIN heap -> Seq(Messages \cup {None})]

\* Every message in an array was said in the session the array was made in, and
\* the system prompts are the first messages.
HeapApart(heap, owner) ==
  \A k \in DOMAIN heap : \A i \in 1..Len(heap[k]) :
    heap[k][i] # None =>
      owner[heap[k][i][1]] = owner[k[1]] /\ (heap[k][i][2] = 0 <=> i = 1)

\* A slice of session s holds messages only, in an array made in s.
SliceOf(heap, owner, sl, s) ==
  IF sl.array = None THEN sl.len = 0
  ELSE /\ sl.array \in DOMAIN heap /\ owner[sl.array[1]] = s
       /\ sl.len \in 1..Len(heap[sl.array])
       /\ \A i \in 1..sl.len : heap[sl.array][i] # None

Owner == [t \in Turns |-> turn[t].session]

\* The turn has said something.
Begun(t) == turn[t].at \notin {"idle", "ask"}

\* How many messages and model calls a turn at each place is from.
CountInv ==
  \A t \in Turns :
    /\ turn[t].at \in {"idle", "ask"} => turn[t].said = 0 /\ turn[t].asked = 0
    /\ turn[t].at = "model" => turn[t].said <= 2 * turn[t].asked + 1
    /\ turn[t].at = "tool" => turn[t].asked < MaxIter /\ turn[t].said <= 2 * turn[t].asked + 2
    /\ turn[t].at = "file" => turn[t].said <= 2 * turn[t].asked

\* An array is named for a message that was said, and so are its messages: nothing
\* in the arrays is of a turn to come.
NamesInv ==
  \A k \in DOMAIN arrays :
    /\ Begun(k[1]) /\ k[2] <= turn[k[1]].said
    /\ \A i \in 1..Len(arrays[k]) : arrays[k][i] # None => Begun(arrays[k][i][1])

\* Stored histories and those of running turns are slices of their session.
SlicesInv ==
  /\ \A s \in Sessions : SliceOf(arrays, Owner, sessions[s], s)
  /\ \A t \in Turns : Live(t) =>
       /\ turn[t].session \in Sessions
       /\ SliceOf(arrays, Owner, turn[t].slice, turn[t].session)
       /\ turn[t].at # "ask" => turn[t].slice.len >= 1

HistoryInv == NamesInv /\ HeapApart(arrays, Owner) /\ SlicesInv

\* The desktop and the backend of a turn are about the same request, or the
\* backend has gone on and knows of no answer.
BridgeInv ==
  /\ \A r \in pending : turn[r[1]].at = "file" /\ turn[r[1]].asked = r[2]
  /\ \A t \in Turns :
       /\ desk[t].at = "idle" <=> turn[t].at = "idle"
       /\ answer[t] # None => turn[t].at = "file" /\ answer[t] = <<t, turn[t].asked>>
       /\ desk[t].at \in {"dialog", "post"} => desk[t].req \in Requests /\ desk[t].req[1] = t
       /\ turn[t].result # None => turn[t].result = <<t, turn[t].asked>>

IInv == TypeOK /\ CountInv /\ HistoryInv /\ BridgeInv

-----------------------------------------------------------------------------
\* What append does to the arrays: the slice grows by a message of its session,
\* every other slice keeps its place, and the sessions stay apart.
LEMMA AppendKeeps ==
  ASSUME NEW heap, HeapType(heap), NEW owner, HeapApart(heap, owner),
         NEW sl \in Slices, NEW s, SliceOf(heap, owner, sl, s),
         NEW m \in Messages, m \notin DOMAIN heap, owner[m[1]] = s, m[2] = 0 <=> sl.len = 0
  PROVE  LET a == AppendTo(heap, sl, m) IN
         /\ HeapType(a.heap) /\ HeapApart(a.heap, owner)
         /\ a.slice \in Slices /\ a.slice.len = sl.len + 1
         /\ SliceOf(a.heap, owner, a.slice, s)
         /\ DOMAIN a.heap \subseteq DOMAIN heap \cup {m}
         /\ \A x \in Slices : \A u : SliceOf(heap, owner, x, u) => SliceOf(a.heap, owner, x, u)
         /\ \A k \in DOMAIN a.heap : \A i \in 1..Len(a.heap[k]) :
              a.heap[k][i] \in {m, None} \/ \E j \in DOMAIN heap : \E n \in 1..Len(heap[j]) : a.heap[k][i] = heap[j][n]
<1> DEFINE a == AppendTo(heap, sl, m)
<1> USE ChatAssumption
<1>0. m # None /\ sl.len \in Nat /\ sl.array \in Messages \cup {None}
  BY DEF Slices
<1>1. CASE sl.array # None /\ sl.len < Len(heap[sl.array])
  <2>1. a = [heap |-> [heap EXCEPT ![sl.array][sl.len + 1] = m], slice |-> [sl EXCEPT !.len = @ + 1]]
    BY <1>1 DEF AppendTo
  <2> DEFINE r == sl.array
  <2>2. r \in DOMAIN heap /\ heap[r] \in Seq(Messages \cup {None}) /\ sl.len + 1 \in 1..Len(heap[r]) /\ owner[r[1]] = s
    BY <1>0, <1>1 DEF SliceOf, HeapType
  <2> DEFINE row == [heap[r] EXCEPT ![sl.len + 1] = m]
  <2>3. row \in Seq(Messages \cup {None}) /\ Len(row) = Len(heap[r])
        /\ row[sl.len + 1] = m
        /\ \A i \in 1..Len(heap[r]) : i # sl.len + 1 => row[i] = heap[r][i]
    BY <2>2, ExceptSeq
  <2>4. /\ DOMAIN a.heap = DOMAIN heap
        /\ a.heap[r] = row
        /\ \A k \in DOMAIN heap : k # r => a.heap[k] = heap[k]
        /\ a.heap = [heap EXCEPT ![r] = row]
    BY <2>1, <2>2 DEF HeapType
  <2> HIDE DEF row
  <2>5. HeapType(a.heap)
    BY <2>3, <2>4 DEF HeapType
  <2>6. HeapApart(a.heap, owner)
    BY <1>0, <2>2, <2>3, <2>4 DEF HeapApart
  <2>7. a.slice \in Slices /\ a.slice.len = sl.len + 1 /\ a.slice.array = r
    BY <2>1 DEF Slices
  <2>8. SliceOf(a.heap, owner, a.slice, s)
    BY <1>0, <1>1, <2>2, <2>3, <2>4, <2>7 DEF SliceOf
  <2>9. \A x \in Slices : \A u : SliceOf(heap, owner, x, u) => SliceOf(a.heap, owner, x, u)
    BY <1>0, <2>2, <2>3, <2>4 DEF SliceOf
  <2>10. \A k \in DOMAIN a.heap : \A i \in 1..Len(a.heap[k]) :
           a.heap[k][i] \in {m, None} \/ \E j \in DOMAIN heap : \E n \in 1..Len(heap[j]) : a.heap[k][i] = heap[j][n]
    BY <2>2, <2>3, <2>4
  <2>11. QED
    BY <2>4, <2>5, <2>6, <2>7, <2>8, <2>9, <2>10
<1>2. CASE ~(sl.array # None /\ sl.len < Len(heap[sl.array]))
  <2> DEFINE row == Grown(heap, sl, m)
  <2> DEFINE size == IF sl.len = 0 THEN 1 ELSE 2 * sl.len
  <2>1. a = [heap |-> [k \in DOMAIN heap \cup {m} |-> IF k = m THEN row ELSE heap[k]],
             slice |-> [array |-> m, len |-> sl.len + 1]]
    BY <1>2 DEF AppendTo
  <2>2. size \in Nat /\ size >= sl.len + 1
    BY <1>0
  <2>3. \A i \in 1..sl.len : sl.array \in DOMAIN heap /\ i \in 1..Len(heap[sl.array]) /\ heap[sl.array][i] # None
    BY <1>0 DEF SliceOf, HeapType
  <2>4. \A i \in 1..sl.len : heap[sl.array][i] \in Messages
    BY <2>3 DEF HeapType
  <2>5. /\ row \in Seq(Messages \cup {None}) /\ Len(row) = size
        /\ row[sl.len + 1] = m
        /\ \A i \in 1..sl.len : row[i] = heap[sl.array][i]
        /\ \A i \in 1..size : i > sl.len + 1 => row[i] = None
    <3>1. row = [i \in 1..size |-> IF i <= sl.len THEN heap[sl.array][i] ELSE IF i = sl.len + 1 THEN m ELSE None]
      BY DEF Grown
    <3>2. row \in [1..size -> Messages \cup {None}]
      BY <1>0, <2>4, <3>1
    <3>3. row \in Seq(Messages \cup {None}) /\ Len(row) = size
      BY <2>2, <3>2
    <3>4. \A i \in 1..size :
            row[i] = IF i <= sl.len THEN heap[sl.array][i] ELSE IF i = sl.len + 1 THEN m ELSE None
      BY <3>1
    <3> HIDE DEF row, size
    <3>5. QED
      BY <1>0, <2>2, <3>3, <3>4
  <2>6. /\ DOMAIN a.heap = DOMAIN heap \cup {m}
        /\ a.heap[m] = row
        /\ \A k \in DOMAIN heap : k # m /\ a.heap[k] = heap[k]
        /\ a.heap = [k \in DOMAIN heap \cup {m} |-> IF k = m THEN row ELSE heap[k]]
    BY <2>1
  <2> HIDE DEF row, size
  <2>7. HeapType(a.heap)
    BY <2>5, <2>6 DEF HeapType
  <2>8. HeapApart(a.heap, owner)
    <3> SUFFICES ASSUME NEW k \in DOMAIN a.heap, NEW i \in 1..Len(a.heap[k]), a.heap[k][i] # None
                 PROVE  owner[a.heap[k][i][1]] = owner[k[1]] /\ (a.heap[k][i][2] = 0 <=> i = 1)
      BY DEF HeapApart
    <3>1. CASE k # m
      BY <2>6, <3>1 DEF HeapApart
    <3>2. CASE k = m /\ i > sl.len
      BY <1>0, <2>2, <2>5, <2>6, <3>2
    <3>3. CASE k = m /\ i <= sl.len
      <4>1. i \in 1..sl.len /\ a.heap[k][i] = heap[sl.array][i]
        BY <1>0, <2>2, <2>5, <2>6, <3>3
      <4>2. owner[sl.array[1]] = s
        BY <2>3, <4>1, <1>0 DEF SliceOf
      <4>3. QED
        BY <2>3, <4>1, <4>2, <3>3 DEF HeapApart
    <3>4. QED
      BY <1>0, <2>2, <2>5, <2>6, <3>1, <3>2, <3>3
  <2>9. a.slice \in Slices /\ a.slice.len = sl.len + 1 /\ a.slice.array = m
    BY <1>0, <2>1 DEF Slices
  <2>10. SliceOf(a.heap, owner, a.slice, s)
    <3>1. a.slice.len \in 1..Len(a.heap[m])
      BY <1>0, <2>2, <2>5, <2>6, <2>9
    <3>2. \A i \in 1..a.slice.len : a.heap[m][i] # None
      <4> SUFFICES ASSUME NEW i \in 1..(sl.len + 1) PROVE row[i] # None
        BY <2>6, <2>9
      <4>1. i = sl.len + 1 \/ i \in 1..sl.len
        BY <1>0
      <4>2. QED
        BY <1>0, <2>3, <2>5, <4>1
    <3>3. QED
      BY <1>0, <2>6, <2>9, <3>1, <3>2 DEF SliceOf
  <2>11. \A x \in Slices : \A u : SliceOf(heap, owner, x, u) => SliceOf(a.heap, owner, x, u)
    BY <2>6 DEF SliceOf
  <2>12. \A k \in DOMAIN a.heap : \A i \in 1..Len(a.heap[k]) :
           a.heap[k][i] \in {m, None} \/ \E j \in DOMAIN heap : \E n \in 1..Len(heap[j]) : a.heap[k][i] = heap[j][n]
    BY <1>0, <2>2, <2>3, <2>5, <2>6
  <2>13. QED
    BY <2>6, <2>7, <2>8, <2>9, <2>10, <2>11, <2>12
<1>3. QED
  BY <1>1, <1>2

-----------------------------------------------------------------------------
\* A step of a running turn that leaves the arrays apart and the slices in place
\* keeps the histories: the messages that are new are the turn's.
LEMMA TurnKeepsHistory ==
  ASSUME IInv, turn' \in [Turns -> TurnRows], NEW t \in Turns, Live(t), Begun(t)',
         turn'[t].session = turn[t].session, turn[t].said <= turn'[t].said,
         \A u \in Turns : u # t => turn'[u] = turn[u],
         sessions' = sessions, HeapType(arrays'), HeapApart(arrays', Owner),
         \A x \in Slices : \A u : SliceOf(arrays, Owner, x, u) => SliceOf(arrays', Owner, x, u),
         Live(t)' => SliceOf(arrays', Owner, turn'[t].slice, turn[t].session) /\ turn'[t].slice.len >= 1,
         \A k \in DOMAIN arrays' : k \in DOMAIN arrays \/ (k[1] = t /\ k[2] <= turn'[t].said),
         \A k \in DOMAIN arrays' : \A i \in 1..Len(arrays'[k]) :
           \/ arrays'[k][i] = None \/ arrays'[k][i][1] = t
           \/ \E j \in DOMAIN arrays : \E n \in 1..Len(arrays[j]) : arrays'[k][i] = arrays[j][n]
  PROVE  HistoryInv'
<1>1. Owner' = Owner
  BY DEF Owner
<1>2. turn \in [Turns -> TurnRows] /\ arrays \in [DOMAIN arrays -> Seq(Messages \cup {None})]
      /\ DOMAIN arrays \subseteq Messages /\ sessions \in [Sessions -> Slices]
  BY DEF IInv, TypeOK
<1>3. \A u \in Turns : Begun(u) => Begun(u)' /\ turn[u].said <= turn'[u].said
  <2>1. \A u \in Turns : turn[u].said \in Int
    BY <1>2 DEF TurnRows
  <2>2. QED
    BY <2>1 DEF Begun
<1>4. \A k \in DOMAIN arrays : k[1] \in Turns /\ k[2] \in Int
      /\ \A i \in 1..Len(arrays[k]) : arrays[k][i] # None => arrays[k][i][1] \in Turns
  BY <1>2 DEF Messages
<1>5. NamesInv'
  <2>1. ASSUME NEW k \in DOMAIN arrays' PROVE (Begun(k[1]) /\ k[2] <= turn[k[1]].said)'
    <3>1. CASE k[1] = t /\ k[2] <= turn'[t].said
      BY <3>1 DEF Begun
    <3>2. CASE k \in DOMAIN arrays
      <4>1. Begun(k[1]) /\ k[2] <= turn[k[1]].said
        BY <3>2 DEF IInv, HistoryInv, NamesInv
      <4>2. turn[k[1]].said \in Int /\ turn'[k[1]].said \in Int
        BY <1>2, <1>4, <3>2 DEF TurnRows
      <4>3. QED
        BY <1>3, <1>4, <3>2, <4>1, <4>2
    <3>3. QED
      BY <3>1, <3>2
  <2>2. ASSUME NEW k \in DOMAIN arrays', NEW i \in 1..Len(arrays'[k]), arrays'[k][i] # None
        PROVE  turn'[arrays'[k][i][1]].at \notin {"idle", "ask"}
    <3>1. CASE arrays'[k][i][1] = t
      BY <3>1 DEF Begun
    <3>2. CASE \E j \in DOMAIN arrays : \E n \in 1..Len(arrays[j]) : arrays'[k][i] = arrays[j][n]
      BY <1>3, <1>4, <2>2, <3>2 DEF IInv, HistoryInv, NamesInv, Begun
    <3>3. QED
      BY <2>2, <3>1, <3>2
  <2>3. QED
    BY <2>1, <2>2 DEF NamesInv, Begun
<1>6. SlicesInv'
  <2>1. ASSUME NEW s \in Sessions PROVE SliceOf(arrays', Owner, sessions[s], s)
    <3>1. sessions[s] \in Slices /\ SliceOf(arrays, Owner, sessions[s], s)
      BY <1>2 DEF IInv, HistoryInv, SlicesInv
    <3>2. QED
      BY <3>1
  <2>2. ASSUME NEW u \in Turns, u # t, Live(u)'
        PROVE  /\ turn'[u].session \in Sessions
               /\ SliceOf(arrays', Owner, turn'[u].slice, turn'[u].session)
               /\ turn'[u].at # "ask" => turn'[u].slice.len >= 1
    <3>1. turn'[u] = turn[u] /\ Live(u) /\ turn[u].slice \in Slices
      BY <1>2, <2>2 DEF Live, TurnRows
    <3>2. QED
      BY <3>1 DEF IInv, HistoryInv, SlicesInv
  <2>3. turn[t].session \in Sessions
    BY DEF IInv, HistoryInv, SlicesInv
  <2>4. QED
    BY <1>1, <2>1, <2>2, <2>3 DEF SlicesInv
<1>7. QED
  BY <1>1, <1>5, <1>6 DEF HistoryInv

\* A message a running turn says, and what it adds to its row.
LEMMA MessageSaid ==
  ASSUME IInv, NEW t \in Turns, turn[t].at \in {"model", "tool", "file"},
         turn[t].said + 1 <= 2 * MaxIter + 2,
         NEW a, a = AppendTo(arrays, turn[t].slice, <<t, turn[t].said + 1>>), arrays' = a.heap,
         turn' \in [Turns -> TurnRows], turn'[t].at \in {"model", "tool", "save"},
         turn'[t].session = turn[t].session, turn'[t].said = turn[t].said + 1, turn'[t].slice = a.slice,
         \A u \in Turns : u # t => turn'[u] = turn[u], sessions' = sessions
  PROVE  HistoryInv'
<1> DEFINE m == <<t, turn[t].said + 1>>
<1>1. turn[t] \in TurnRows /\ turn[t].said \in Nat /\ turn[t].slice \in Slices
  BY DEF IInv, TypeOK, TurnRows
<1>2. m \in Messages /\ m[1] = t /\ m[2] = turn[t].said + 1
  BY <1>1, ChatAssumption DEF Messages
<1>3. m \notin DOMAIN arrays
  BY <1>1, <1>2 DEF IInv, HistoryInv, NamesInv
<1>4. Live(t) /\ SliceOf(arrays, Owner, turn[t].slice, turn[t].session) /\ turn[t].slice.len >= 1
  BY DEF Live, IInv, HistoryInv, SlicesInv
<1>5. HeapType(arrays) /\ HeapApart(arrays, Owner) /\ Owner[m[1]] = turn[t].session
  BY <1>2 DEF IInv, TypeOK, HistoryInv, HeapType, Owner
<1>6. m[2] = 0 <=> turn[t].slice.len = 0
  BY <1>1, <1>2, <1>4 DEF Slices
<1> HIDE DEF m
<1>7. /\ HeapType(arrays') /\ HeapApart(arrays', Owner)
      /\ a.slice.len = turn[t].slice.len + 1
      /\ SliceOf(arrays', Owner, a.slice, turn[t].session)
      /\ DOMAIN arrays' \subseteq DOMAIN arrays \cup {m}
      /\ \A x \in Slices : \A u : SliceOf(arrays, Owner, x, u) => SliceOf(arrays', Owner, x, u)
      /\ \A k \in DOMAIN arrays' : \A i \in 1..Len(arrays'[k]) :
           arrays'[k][i] \in {m, None} \/ \E j \in DOMAIN arrays : \E n \in 1..Len(arrays[j]) : arrays'[k][i] = arrays[j][n]
  <2>1. a = AppendTo(arrays, turn[t].slice, m)
    BY DEF m
  <2> DEFINE y == turn[t].slice
  <2> DEFINE s == turn[t].session
  <2>2. y \in Slices /\ SliceOf(arrays, Owner, y, s) /\ (m[2] = 0 <=> y.len = 0) /\ Owner[m[1]] = s
        /\ a = AppendTo(arrays, y, m)
    BY <1>1, <1>4, <1>5, <1>6, <2>1
  <2> HIDE DEF y, s
  <2>3. /\ HeapType(a.heap) /\ HeapApart(a.heap, Owner)
        /\ a.slice \in Slices /\ a.slice.len = y.len + 1
        /\ SliceOf(a.heap, Owner, a.slice, s)
        /\ DOMAIN a.heap \subseteq DOMAIN arrays \cup {m}
        /\ \A x \in Slices : \A u : SliceOf(arrays, Owner, x, u) => SliceOf(a.heap, Owner, x, u)
        /\ \A k \in DOMAIN a.heap : \A i \in 1..Len(a.heap[k]) :
             a.heap[k][i] \in {m, None} \/ \E j \in DOMAIN arrays : \E n \in 1..Len(arrays[j]) : a.heap[k][i] = arrays[j][n]
    BY <1>2, <1>3, <1>5, <2>2, AppendKeeps
  <2>4. HeapType(arrays') /\ HeapApart(arrays', Owner) /\ DOMAIN arrays' \subseteq DOMAIN arrays \cup {m}
    BY <2>3
  <2>5. a.slice.len = turn[t].slice.len + 1 /\ SliceOf(arrays', Owner, a.slice, turn[t].session)
    BY <2>3 DEF y, s
  <2>6. \A x \in Slices : \A u : SliceOf(arrays, Owner, x, u) => SliceOf(arrays', Owner, x, u)
    BY <2>3
  <2>7. \A k \in DOMAIN arrays' : \A i \in 1..Len(arrays'[k]) :
          arrays'[k][i] \in {m, None} \/ \E j \in DOMAIN arrays : \E n \in 1..Len(arrays[j]) : arrays'[k][i] = arrays[j][n]
    BY <2>3
  <2>8. QED
    BY <2>4, <2>5, <2>6, <2>7
<1>8. Begun(t)' /\ turn'[t].slice.len >= 1 /\ turn[t].said <= turn'[t].said
  BY <1>1, <1>4, <1>7 DEF Begun, Slices
<1>9. \A k \in DOMAIN arrays' : k \in DOMAIN arrays \/ (k[1] = t /\ k[2] <= turn'[t].said)
  BY <1>1, <1>2, <1>7
<1>10. \A k \in DOMAIN arrays' : \A i \in 1..Len(arrays'[k]) :
           \/ arrays'[k][i] = None \/ arrays'[k][i][1] = t
           \/ \E j \in DOMAIN arrays : \E n \in 1..Len(arrays[j]) : arrays'[k][i] = arrays[j][n]
  <2> SUFFICES ASSUME NEW k \in DOMAIN arrays', NEW i \in 1..Len(arrays'[k])
               PROVE  \/ arrays'[k][i] = None \/ arrays'[k][i][1] = t
                      \/ \E j \in DOMAIN arrays : \E n \in 1..Len(arrays[j]) : arrays'[k][i] = arrays[j][n]
    OBVIOUS
  <2>1. CASE arrays'[k][i] \in {m, None}
    BY <1>2, <2>1
  <2>2. CASE arrays'[k][i] \notin {m, None}
    BY <1>7, <2>2
  <2>3. QED
    BY <2>1, <2>2
<1>11. QED
  BY <1>4, <1>7, <1>8, <1>9, <1>10, TurnKeepsHistory

\* A step of a running turn that says nothing.
LEMMA NothingSaid ==
  ASSUME IInv, NEW t \in Turns, Live(t), Begun(t)', turn' \in [Turns -> TurnRows],
         turn'[t].session = turn[t].session, turn'[t].said = turn[t].said,
         Live(t)' => Begun(t) /\ turn'[t].slice = turn[t].slice,
         \A u \in Turns : u # t => turn'[u] = turn[u], sessions' = sessions, arrays' = arrays
  PROVE  HistoryInv'
<1>1. HeapType(arrays) /\ HeapApart(arrays, Owner)
  BY DEF IInv, TypeOK, HistoryInv, HeapType
<1>2. turn[t].said \in Int
  BY DEF IInv, TypeOK, TurnRows
<1>3. SliceOf(arrays, Owner, turn[t].slice, turn[t].session) /\ (Begun(t) => turn[t].slice.len >= 1)
  BY DEF IInv, HistoryInv, SlicesInv, Begun
<1>4. QED
  BY <1>1, <1>2, <1>3, TurnKeepsHistory

LEMMA HistoryFrame ==
  ASSUME HistoryInv, UNCHANGED <<arrays, sessions, turn>>
  PROVE  HistoryInv'
  BY DEF HistoryInv, NamesInv, SlicesInv, Owner, Live, Begun

LEMMA StreamType ==
  ASSUME TypeOK, NEW t \in Turns, NEW kind, NEW n, <<kind, n>> \in StreamEvents, Send(t, kind, n)
  PROVE  stream' \in [Turns -> Seq(StreamEvents)]
  BY DEF TypeOK, Send

\* What a turn has said is a sequence of messages.
LEMMA SpokenType ==
  ASSUME TypeOK, NEW t \in Turns
  PROVE  /\ Spoken(t) \in Seq(Messages)
         /\ [n \in 1..turn[t].said |-> <<t, n>>] \in Seq(Messages)
         /\ <<<<t, 0>>>> \in Seq(Messages)
<1>1. turn[t].said \in 0..(2 * MaxIter + 2) /\ MaxIter \in Nat
  BY ChatAssumption DEF TypeOK, TurnRows
<1>2. \A n \in 0..turn[t].said : <<t, n>> \in Messages
  BY <1>1 DEF Messages
<1>3. [n \in 1..turn[t].said |-> <<t, n>>] \in Seq(Messages) /\ <<<<t, 0>>>> \in Seq(Messages)
  BY <1>1, <1>2
<1>4. QED
  BY <1>3 DEF Spoken

-----------------------------------------------------------------------------
\* Each action keeps the invariant.
LEMMA InitIInv == Init => IInv
<1> SUFFICES ASSUME Init PROVE IInv
  OBVIOUS
<1> USE ChatAssumption
<1> DEFINE p == <<Past, 2>>
<1> DEFINE row == <<<<Past, 0>>, <<Past, 1>>, <<Past, 2>>, None>>
<1>1. PICK first \in {None, CHOOSE s \in Sessions : TRUE} :
        /\ sessions = [s \in Sessions |-> IF s = first THEN Remembered ELSE NoSlice]
        /\ told = [s \in Sessions |-> IF s = first THEN <<<<Past, 0>>, <<Past, 1>>, <<Past, 2>>>> ELSE <<>>]
        /\ opens = IF first = None THEN {} ELSE {Past}
        /\ turn = [t \in Turns |->
             [at |-> IF t = Past THEN "done" ELSE "idle", session |-> IF t = Past THEN first ELSE None,
              slice |-> NoSlice, said |-> IF t = Past THEN 2 ELSE 0, asked |-> 0, result |-> None]]
  BY DEF Init
<1>2. first \in Sessions \cup {None}
  OBVIOUS
<1>3. arrays = [m \in {p} |-> row]
  BY DEF Init
<1>4. /\ desk = [t \in Turns |-> [at |-> IF t = Past THEN "answered" ELSE "idle", req |-> None]]
      /\ stream = [t \in Turns |-> <<>>]
      /\ pending = {} /\ answer = [t \in Turns |-> None]
      /\ exists = FALSE /\ busy = FALSE /\ mixed = {}
  BY DEF Init
<1>5. p \in Messages /\ <<Past, 0>> \in Messages /\ <<Past, 1>> \in Messages
  BY DEF Messages
<1>6. DOMAIN arrays = {p} /\ arrays[p] = row /\ row \in Seq(Messages \cup {None}) /\ Len(row) = 4
  BY <1>3, <1>5
<1>7. \A t \in Turns :
        /\ turn[t].at = IF t = Past THEN "done" ELSE "idle"
        /\ turn[t].session = IF t = Past THEN first ELSE None
        /\ turn[t].said = IF t = Past THEN 2 ELSE 0
        /\ turn[t].asked = 0 /\ turn[t].result = None
  BY <1>1
<1>8. TypeOK
  <2>1. DOMAIN arrays \subseteq Messages /\ arrays \in [DOMAIN arrays -> Seq(Messages \cup {None})]
    BY <1>3, <1>5, <1>6
  <2>2. sessions \in [Sessions -> Slices]
    BY <1>1, <1>5 DEF Remembered, NoSlice, Slices
  <2>3. turn \in [Turns -> TurnRows]
    <3>1. NoSlice \in Slices
      BY DEF NoSlice, Slices
    <3>2. QED
      BY <1>1, <1>2, <3>1 DEF TurnRows
  <2>7. stream \in [Turns -> Seq(StreamEvents)]
    BY <1>4
  <2>4. desk \in [Turns -> DeskRows]
        /\ answer \in [Turns -> Requests \cup {None}] /\ pending \subseteq Requests
        /\ busy \in BOOLEAN /\ exists \in BOOLEAN /\ mixed \subseteq Sessions
    BY <1>4 DEF DeskRows
  <2>5. opens \subseteq Turns /\ told \in [Sessions -> Seq(Messages)]
    <3>1. <<<<Past, 0>>, <<Past, 1>>, <<Past, 2>>>> \in Seq(Messages)
      BY <1>5
    <3>2. QED
      BY <1>1, <3>1
  <2>6. QED
    BY <2>1, <2>2, <2>3, <2>7, <2>4, <2>5 DEF TypeOK
<1>9. CountInv /\ BridgeInv
  BY <1>4, <1>7 DEF CountInv, BridgeInv
<1>10. \A i \in 1..4 : row[i] # None => row[i][1] = Past /\ (row[i][2] = 0 <=> i = 1)
  OBVIOUS
<1>11. Owner[Past] = first /\ turn[Past].at = "done" /\ turn[Past].said = 2
  BY <1>7 DEF Owner
<1>12. NamesInv /\ HeapApart(arrays, Owner)
  <2>1. p[1] = Past /\ p[2] = 2
    OBVIOUS
  <2> HIDE DEF p, row
  <2>2. NamesInv
    <3>1. Begun(Past)
      BY <1>11 DEF Begun
    <3>2. \A i \in 1..Len(row) : row[i] # None => Begun(row[i][1])
      BY <1>6, <1>10, <3>1
    <3>3. Begun(p[1]) /\ p[2] <= turn[p[1]].said
      BY <1>11, <2>1, <3>1
    <3>4. DOMAIN arrays = {p} /\ arrays[p] = row
      BY <1>6
    <3>5. QED
      BY <3>2, <3>3, <3>4, Zenon DEF NamesInv
  <2>3. HeapApart(arrays, Owner)
    BY <1>6, <1>10, <1>11, <2>1 DEF HeapApart
  <2>4. QED
    BY <2>2, <2>3
<1>13. SlicesInv
  <2>1. \A t \in Turns : ~Live(t)
    BY <1>7 DEF Live
  <2>2. p # None /\ \A i \in 1..3 : row[i] # None
    BY <1>5
  <2>3. \A s \in Sessions : SliceOf(arrays, Owner, sessions[s], s)
    <3>1. ASSUME NEW s \in Sessions, s = first PROVE SliceOf(arrays, Owner, sessions[s], s)
      <4>1. sessions[s].array = p /\ sessions[s].len = 3 /\ p[1] = Past
        BY <1>1, <3>1 DEF Remembered
      <4>2. arrays[p] = row /\ Len(arrays[p]) = 4 /\ p \in DOMAIN arrays
        BY <1>6
      <4> HIDE DEF p, row
      <4>3. Owner[p[1]] = s
        BY <1>11, <3>1, <4>1
      <4>4. \A i \in 1..3 : arrays[p][i] # None
        BY <2>2, <4>2
      <4>5. 3 \in 1..Len(arrays[p])
        BY <4>2
      <4>6. QED
        BY <2>2, <4>1, <4>2, <4>3, <4>4, <4>5, Zenon DEF SliceOf
    <3>2. ASSUME NEW s \in Sessions, s # first PROVE SliceOf(arrays, Owner, sessions[s], s)
      BY <1>1, <3>2 DEF SliceOf, NoSlice
    <3>3. QED
      BY <3>1, <3>2
  <2>4. QED
    BY <2>1, <2>3 DEF SlicesInv
<1>14. QED
  BY <1>8, <1>9, <1>12, <1>13 DEF IInv, HistoryInv

LEMMA AskKeeps == ASSUME IInv, NEW t \in Turns, Ask(t) PROVE IInv'
<1>1. PICK s \in Sessions :
        /\ turn' = [turn EXCEPT ![t].at = "ask", ![t].session = s, ![t].slice = HistoryOf(s)]
        /\ opens' = IF HistoryOf(s).len = 0 THEN opens \cup {t} ELSE opens
        /\ mixed' = mixed \cup {x \in {s} : \E u \in Turns : Live(u) /\ turn[u].session = x}
  BY DEF Ask
<1>2. /\ turn[t].at = "idle" /\ turn[t].said = 0 /\ turn[t].asked = 0 /\ turn[t] \in TurnRows
      /\ desk[t].at = "idle" /\ desk[t] \in DeskRows
      /\ desk' = [desk EXCEPT ![t].at = "reading"] /\ busy' = TRUE
      /\ UNCHANGED <<arrays, sessions, told, pending, answer, stream, exists>>
  BY DEF IInv, BridgeInv, CountInv, Ask, TypeOK, bridge
<1>3. turn' \in [Turns -> TurnRows] /\ desk' \in [Turns -> DeskRows]
  <2>1. HistoryOf(s) \in Slices
    BY DEF IInv, TypeOK, HistoryOf
  <2>2. QED
    BY <1>1, <1>2, <2>1 DEF IInv, TypeOK, TurnRows, DeskRows
<1>4. /\ turn'[t].at = "ask" /\ turn'[t].session = s /\ turn'[t].slice = sessions[s]
      /\ turn'[t].said = 0 /\ turn'[t].asked = 0 /\ turn'[t].result = turn[t].result
      /\ \A u \in Turns : u # t => turn'[u] = turn[u]
  BY <1>1, <1>2 DEF IInv, TypeOK, TurnRows, HistoryOf
<1>5. TypeOK'
  BY <1>1, <1>2, <1>3 DEF IInv, TypeOK
<1>6. CountInv'
  BY <1>4 DEF IInv, CountInv
<1>7. BridgeInv'
  <2>1. \A r \in pending : r[1] \in Turns /\ r[1] # t
    BY <1>2 DEF IInv, TypeOK, BridgeInv, Requests
  <2>2. desk'[t].at = "reading" /\ \A u \in Turns : u # t => desk'[u] = desk[u]
    BY <1>2 DEF IInv, TypeOK, DeskRows
  <2>3. QED
    BY <1>2, <1>4, <2>1, <2>2 DEF IInv, BridgeInv
<1>8. \A k \in DOMAIN arrays : k[1] \in Turns /\ k[1] # t
      /\ \A i \in 1..Len(arrays[k]) : arrays[k][i] # None => arrays[k][i][1] \in Turns /\ arrays[k][i][1] # t
  <2>1. \A k \in DOMAIN arrays : k[1] \in Turns
        /\ \A i \in 1..Len(arrays[k]) : arrays[k][i] # None => arrays[k][i][1] \in Turns
    BY DEF IInv, TypeOK, Messages
  <2>2. QED
    BY <1>2, <2>1 DEF IInv, HistoryInv, NamesInv, Begun
<1>9. \A u \in Turns : u # t => Owner'[u] = Owner[u]
  BY <1>4 DEF Owner
<1>10. NamesInv' /\ HeapApart(arrays', Owner')
  <2>1. NamesInv'
    BY <1>2, <1>4, <1>8 DEF IInv, HistoryInv, NamesInv, Begun
  <2>2. HeapApart(arrays', Owner')
    BY <1>2, <1>8, <1>9 DEF IInv, HistoryInv, HeapApart
  <2>3. QED
    BY <2>1, <2>2
<1>11. \A x, u : SliceOf(arrays, Owner, x, u) => SliceOf(arrays', Owner', x, u)
  BY <1>2, <1>8, <1>9 DEF SliceOf
<1>12. SlicesInv'
  BY <1>2, <1>4, <1>11 DEF IInv, HistoryInv, SlicesInv, Live
<1>13. QED
  BY <1>5, <1>6, <1>7, <1>10, <1>12 DEF IInv, HistoryInv

\* What a turn that waits for no file does keeps the bridge.
LEMMA BridgeKeeps ==
  ASSUME IInv, NEW t \in Turns, turn[t].at \notin {"idle", "file"}, turn'[t].at # "idle",
         turn'[t].result = None \/ (turn'[t].result = turn[t].result /\ turn'[t].asked = turn[t].asked),
         \A u \in Turns : u # t => turn'[u] = turn[u], UNCHANGED <<pending, answer, desk>>
  PROVE  BridgeInv'
<1>1. \A r \in pending : r[1] \in Turns /\ r[1] # t
  BY DEF IInv, TypeOK, BridgeInv, Requests
<1>2. answer[t] = None
  BY DEF IInv, BridgeInv
<1>3. QED
  BY <1>1, <1>2 DEF IInv, BridgeInv

\* A turn that ends with an error leaves its messages where they are.
LEMMA FailedKeeps ==
  ASSUME IInv, NEW t \in Turns, turn[t].at \in {"ask", "model", "tool"},
         End(t, "failed"), Send(t, "error", 0),
         UNCHANGED <<arrays, sessions, opens, told, mixed, bridge, desk, busy, exists>>
  PROVE  IInv'
<1>1. turn[t] \in TurnRows
  BY DEF IInv, TypeOK
<1>2. /\ turn'[t].at = "failed" /\ turn'[t].session = turn[t].session /\ turn'[t].said = turn[t].said
      /\ turn'[t].asked = turn[t].asked /\ turn'[t].slice = NoSlice /\ turn'[t].result = None
      /\ \A u \in Turns : u # t => turn'[u] = turn[u]
  BY <1>1 DEF End, IInv, TypeOK, TurnRows
<1>3. NoSlice \in Slices
  BY DEF NoSlice, Slices
<1>4. turn' \in [Turns -> TurnRows]
  BY <1>1, <1>3 DEF End, IInv, TypeOK, TurnRows
<1>5. stream' \in [Turns -> Seq(StreamEvents)]
  <2>1. <<"error", 0>> \in StreamEvents
    BY DEF StreamEvents
  <2>2. QED
    BY <2>1, StreamType DEF IInv
<1>6. TypeOK'
  BY <1>4, <1>5 DEF IInv, TypeOK, bridge
<1>7. CountInv'
  BY <1>2 DEF IInv, CountInv
<1>8. BridgeInv'
  BY <1>2, BridgeKeeps DEF bridge
<1>9. HistoryInv'
  <2>1. Live(t) /\ Begun(t)' /\ ~Live(t)'
    BY <1>2 DEF Live, Begun
  <2>2. QED
    BY <1>2, <1>4, <2>1, NothingSaid
<1>10. QED
  BY <1>6, <1>7, <1>8, <1>9 DEF IInv

LEMMA AskFailsKeeps == ASSUME IInv, NEW t \in Turns, AskFails(t) PROVE IInv'
  BY FailedKeeps DEF AskFails

LEMMA FailKeeps == ASSUME IInv, NEW t \in Turns, Fail(t) PROVE IInv'
  BY FailedKeeps DEF Fail

LEMMA UnavailableKeeps == ASSUME IInv, NEW t \in Turns, Unavailable(t) PROVE IInv'
  BY FailedKeeps DEF Unavailable

LEMMA BeginKeeps == ASSUME IInv, NEW t \in Turns, Begin(t) PROVE IInv'
<1> DEFINE sl == turn[t].slice
<1> DEFINE p == <<t, 0>>
<1> DEFINE q == <<t, 1>>
<1> DEFINE a == IF sl.len = 0 THEN AppendTo(arrays, sl, p) ELSE [heap |-> arrays, slice |-> sl]
<1> DEFINE b == AppendTo(a.heap, a.slice, q)
<1>1. /\ turn[t].at = "ask" /\ arrays' = b.heap
      /\ turn' = [turn EXCEPT ![t].slice = b.slice, ![t].said = 1, ![t].at = "model"]
      /\ UNCHANGED <<sessions, opens, told, mixed, pending, answer, stream, desk, busy, exists>>
  BY DEF Begin, bridge, desktop
<1>2. /\ turn[t] \in TurnRows /\ turn[t].said = 0 /\ turn[t].asked = 0 /\ sl \in Slices
      /\ Live(t) /\ SliceOf(arrays, Owner, sl, turn[t].session)
      /\ HeapType(arrays) /\ HeapApart(arrays, Owner)
  BY <1>1 DEF IInv, TypeOK, CountInv, HistoryInv, SlicesInv, TurnRows, HeapType, Live
<1>3. p \in Messages /\ q \in Messages /\ p[1] = t /\ p[2] = 0 /\ q[1] = t /\ q[2] = 1
      /\ p # None /\ q # None /\ p # q
  BY ChatAssumption DEF Messages
<1>4. \A k \in DOMAIN arrays : k[1] # t
  BY <1>1 DEF IInv, HistoryInv, NamesInv, Begun
<1>5. Owner[t] = turn[t].session
  BY DEF Owner
<1> DEFINE New(k) == k[1] = t /\ k[2] <= 1
<1> DEFINE Said(x) == x = None \/ x[1] = t \/ \E j \in DOMAIN arrays : \E n \in 1..Len(arrays[j]) : x = arrays[j][n]
<1> HIDE DEF p, q, sl, a
<1>6. /\ HeapType(a.heap) /\ HeapApart(a.heap, Owner) /\ a.slice \in Slices /\ a.slice.len >= 1
      /\ SliceOf(a.heap, Owner, a.slice, turn[t].session)
      /\ DOMAIN a.heap \subseteq DOMAIN arrays \cup {p}
      /\ \A x \in Slices : \A u : SliceOf(arrays, Owner, x, u) => SliceOf(a.heap, Owner, x, u)
      /\ \A k \in DOMAIN a.heap : \A i \in 1..Len(a.heap[k]) : Said(a.heap[k][i])
  <2>1. CASE sl.len = 0
    <3>1. a = AppendTo(arrays, sl, p)
      BY <2>1 DEF a
    <3>2. p \notin DOMAIN arrays /\ Owner[p[1]] = turn[t].session /\ (p[2] = 0 <=> sl.len = 0)
      BY <1>3, <1>4, <1>5, <2>1
    <3>3. /\ HeapType(a.heap) /\ HeapApart(a.heap, Owner)
          /\ a.slice \in Slices /\ a.slice.len = sl.len + 1
          /\ SliceOf(a.heap, Owner, a.slice, turn[t].session)
          /\ DOMAIN a.heap \subseteq DOMAIN arrays \cup {p}
          /\ \A x \in Slices : \A u : SliceOf(arrays, Owner, x, u) => SliceOf(a.heap, Owner, x, u)
          /\ \A k \in DOMAIN a.heap : \A i \in 1..Len(a.heap[k]) :
               a.heap[k][i] \in {p, None} \/ \E j \in DOMAIN arrays : \E n \in 1..Len(arrays[j]) : a.heap[k][i] = arrays[j][n]
      BY <1>2, <1>3, <3>1, <3>2, AppendKeeps
    <3>4. QED
      BY <1>3, <2>1, <3>3
  <2>2. CASE sl.len # 0
    <3>1. a.heap = arrays /\ a.slice = sl
      BY <2>2 DEF a
    <3>2. sl.len >= 1
      BY <1>2, <2>2 DEF Slices
    <3>3. QED
      BY <1>2, <3>1, <3>2
  <2>3. QED
    BY <2>1, <2>2
<1>7. /\ HeapType(b.heap) /\ HeapApart(b.heap, Owner) /\ b.slice \in Slices /\ b.slice.len >= 1
      /\ SliceOf(b.heap, Owner, b.slice, turn[t].session)
      /\ DOMAIN b.heap \subseteq DOMAIN a.heap \cup {q}
      /\ \A x \in Slices : \A u : SliceOf(a.heap, Owner, x, u) => SliceOf(b.heap, Owner, x, u)
      /\ \A k \in DOMAIN b.heap : \A i \in 1..Len(b.heap[k]) :
           b.heap[k][i] \in {q, None} \/ \E j \in DOMAIN a.heap : \E n \in 1..Len(a.heap[j]) : b.heap[k][i] = a.heap[j][n]
  <2>1. q \notin DOMAIN a.heap /\ Owner[q[1]] = turn[t].session /\ (q[2] = 0 <=> a.slice.len = 0)
    BY <1>3, <1>4, <1>5, <1>6
  <2>2. a.slice.len \in Nat
    BY <1>6 DEF Slices
  <2> DEFINE h == a.heap
  <2> DEFINE y == a.slice
  <2>3. HeapType(h) /\ HeapApart(h, Owner) /\ y \in Slices /\ SliceOf(h, Owner, y, turn[t].session)
        /\ q \notin DOMAIN h /\ (q[2] = 0 <=> y.len = 0)
    BY <1>6, <2>1
  <2> DEFINE c == AppendTo(h, y, q)
  <2> HIDE DEF h, y
  <2>4. /\ HeapType(c.heap) /\ HeapApart(c.heap, Owner) /\ c.slice \in Slices /\ c.slice.len = y.len + 1
        /\ SliceOf(c.heap, Owner, c.slice, turn[t].session)
        /\ DOMAIN c.heap \subseteq DOMAIN h \cup {q}
        /\ \A x \in Slices : \A u : SliceOf(h, Owner, x, u) => SliceOf(c.heap, Owner, x, u)
        /\ \A k \in DOMAIN c.heap : \A i \in 1..Len(c.heap[k]) :
             c.heap[k][i] \in {q, None} \/ \E j \in DOMAIN h : \E n \in 1..Len(h[j]) : c.heap[k][i] = h[j][n]
    BY <1>3, <2>1, <2>3, AppendKeeps
  <2>5. c = b /\ y.len \in Nat
    BY <2>2 DEF h, y
  <2>6. c.slice.len >= 1
    BY <2>4, <2>5
  <2>7. QED
    BY <2>4, <2>5, <2>6 DEF h
<1> HIDE DEF b
<1>8. /\ turn'[t].at = "model" /\ turn'[t].session = turn[t].session /\ turn'[t].said = 1
      /\ turn'[t].asked = 0 /\ turn'[t].slice = b.slice /\ turn'[t].result = turn[t].result
      /\ \A u \in Turns : u # t => turn'[u] = turn[u]
  BY <1>1, <1>2 DEF IInv, TypeOK, TurnRows
<1>9. turn' \in [Turns -> TurnRows]
  <2>1. 1 \in 0..(2 * MaxIter + 2)
    BY ChatAssumption
  <2>2. [turn[t] EXCEPT !.slice = b.slice, !.said = 1, !.at = "model"] \in TurnRows
    BY <1>2, <1>7, <2>1 DEF TurnRows
  <2>3. turn' = [turn EXCEPT ![t] = [turn[t] EXCEPT !.slice = b.slice, !.said = 1, !.at = "model"]]
    BY <1>1 DEF IInv, TypeOK
  <2>4. QED
    BY <2>2, <2>3 DEF IInv, TypeOK
<1>10. TypeOK'
  BY <1>1, <1>7, <1>9 DEF IInv, TypeOK, HeapType
<1>11. CountInv'
  BY <1>8 DEF IInv, CountInv
<1>12. BridgeInv'
  BY <1>1, <1>2, <1>8, BridgeKeeps
<1>13. HistoryInv'
  <2>1. Begun(t)' /\ Live(t)' /\ turn[t].said <= turn'[t].said
    BY <1>2, <1>8 DEF Begun, Live
  <2>2. \A x \in Slices : \A u : SliceOf(arrays, Owner, x, u) => SliceOf(b.heap, Owner, x, u)
    BY <1>6, <1>7
  <2>3. \A k \in DOMAIN b.heap : k \in DOMAIN arrays \/ (k[1] = t /\ k[2] <= turn'[t].said)
    BY <1>3, <1>6, <1>7, <1>8
  <2>4. \A k \in DOMAIN b.heap : \A i \in 1..Len(b.heap[k]) : Said(b.heap[k][i])
    BY <1>3, <1>6, <1>7
  <2>5. QED
    BY <1>1, <1>2, <1>7, <1>8, <1>9, <2>1, <2>2, <2>3, <2>4, TurnKeepsHistory
<1>14. QED
  BY <1>10, <1>11, <1>12, <1>13 DEF IInv

\* The row of a running turn that says a message and goes on.
LEMMA SaidType ==
  ASSUME IInv, NEW t \in Turns, turn[t].at \in {"model", "tool", "file"},
         turn[t].said + 1 <= 2 * MaxIter + 2,
         NEW a, a = AppendTo(arrays, turn[t].slice, <<t, turn[t].said + 1>>)
  PROVE  a.slice \in Slices /\ HeapType(a.heap) /\ turn[t].said + 1 \in 0..(2 * MaxIter + 2)
<1> DEFINE m == <<t, turn[t].said + 1>>
<1>1. turn[t].said \in Nat /\ turn[t].slice \in Slices
  BY DEF IInv, TypeOK, TurnRows
<1>2. m \in Messages /\ m[1] = t /\ m[2] = turn[t].said + 1
  BY <1>1, ChatAssumption DEF Messages
<1>3. m \notin DOMAIN arrays
  BY <1>1, <1>2 DEF IInv, HistoryInv, NamesInv
<1>4. SliceOf(arrays, Owner, turn[t].slice, turn[t].session) /\ turn[t].slice.len >= 1
  BY DEF Live, IInv, HistoryInv, SlicesInv
<1>5. HeapType(arrays) /\ HeapApart(arrays, Owner) /\ Owner[m[1]] = turn[t].session
  BY <1>2 DEF IInv, TypeOK, HistoryInv, HeapType, Owner
<1>6. m[2] = 0 <=> turn[t].slice.len = 0
  BY <1>1, <1>2, <1>4 DEF Slices
<1>7. a = AppendTo(arrays, turn[t].slice, m)
  OBVIOUS
<1> HIDE DEF m
<1>8. QED
  BY <1>1, <1>2, <1>3, <1>4, <1>5, <1>6, <1>7, ChatAssumption, AppendKeeps

LEMMA CompleteKeeps == ASSUME IInv, NEW t \in Turns, Complete(t) PROVE IInv'
<1>1. PICK where \in {"save", "tool"} : Say(t, where)
  BY DEF Complete
<1> DEFINE a == AppendTo(arrays, turn[t].slice, <<t, turn[t].said + 1>>)
<1>2. /\ turn[t].at = "model" /\ turn[t].asked < MaxIter /\ arrays' = a.heap
      /\ turn' = [turn EXCEPT ![t].slice = a.slice, ![t].said = @ + 1, ![t].at = where]
      /\ UNCHANGED <<sessions, opens, told, mixed, pending, answer, stream, desk, busy, exists>>
  BY <1>1 DEF Complete, Say, bridge, desktop
<1> HIDE DEF a
<1>3. turn[t] \in TurnRows /\ turn[t].said \in Nat /\ turn[t].asked \in Nat /\ MaxIter \in Nat
      /\ turn[t].said <= 2 * turn[t].asked + 1
  BY <1>2, ChatAssumption DEF IInv, TypeOK, CountInv, TurnRows
<1>4. turn[t].said + 1 <= 2 * MaxIter + 2
  BY <1>2, <1>3
<1>5. a.slice \in Slices /\ HeapType(a.heap) /\ turn[t].said + 1 \in 0..(2 * MaxIter + 2)
  BY <1>2, <1>4, SaidType DEF a
<1>6. /\ turn'[t].at = where /\ turn'[t].session = turn[t].session /\ turn'[t].said = turn[t].said + 1
      /\ turn'[t].asked = turn[t].asked /\ turn'[t].slice = a.slice /\ turn'[t].result = turn[t].result
      /\ \A u \in Turns : u # t => turn'[u] = turn[u]
  BY <1>2, <1>3 DEF IInv, TypeOK, TurnRows
<1>7. turn' \in [Turns -> TurnRows]
  <2>1. [turn[t] EXCEPT !.slice = a.slice, !.said = turn[t].said + 1, !.at = where] \in TurnRows
    BY <1>3, <1>5 DEF TurnRows
  <2>2. turn' = [turn EXCEPT ![t] = [turn[t] EXCEPT !.slice = a.slice, !.said = turn[t].said + 1, !.at = where]]
    BY <1>2 DEF IInv, TypeOK
  <2>3. QED
    BY <2>1, <2>2 DEF IInv, TypeOK
<1>8. TypeOK'
  BY <1>2, <1>5, <1>7 DEF IInv, TypeOK, HeapType
<1>9. CountInv'
  <2>1. turn'[t].at = "tool" => turn'[t].asked < MaxIter /\ turn'[t].said <= 2 * turn'[t].asked + 2
    BY <1>2, <1>3, <1>6
  <2>2. turn'[t].at \in {"tool", "save"}
    BY <1>6
  <2>3. QED
    BY <1>6, <2>1, <2>2 DEF IInv, CountInv
<1>10. BridgeInv'
  BY <1>2, <1>6, BridgeKeeps
<1>11. HistoryInv'
  <2>1. a = AppendTo(arrays, turn[t].slice, <<t, turn[t].said + 1>>)
    BY DEF a
  <2>2. /\ turn[t].at \in {"model", "tool", "file"} /\ arrays' = a.heap /\ sessions' = sessions
        /\ turn'[t].at \in {"model", "tool", "save"} /\ turn'[t].session = turn[t].session
        /\ turn'[t].said = turn[t].said + 1 /\ turn'[t].slice = a.slice
        /\ turn[t].said + 1 <= 2 * MaxIter + 2
    BY <1>2, <1>4, <1>6
  <2>3. QED
    BY <1>6, <1>7, <2>1, <2>2, MessageSaid
<1>12. QED
  BY <1>8, <1>9, <1>10, <1>11 DEF IInv

LEMMA RunToolKeeps == ASSUME IInv, NEW t \in Turns, RunTool(t) PROVE IInv'
<1> DEFINE a == AppendTo(arrays, turn[t].slice, <<t, turn[t].said + 1>>)
<1>2. /\ turn[t].at = "tool" /\ arrays' = a.heap
      /\ turn' = [turn EXCEPT ![t].slice = a.slice, ![t].said = @ + 1, ![t].asked = @ + 1,
                              ![t].at = "model", ![t].result = None]
      /\ UNCHANGED <<sessions, opens, told, mixed, pending, answer, stream, desk, busy, exists>>
  BY DEF RunTool, bridge, desktop
<1> HIDE DEF a
<1>3. turn[t] \in TurnRows /\ turn[t].said \in Nat /\ turn[t].asked \in Nat /\ MaxIter \in Nat
      /\ turn[t].said <= 2 * turn[t].asked + 2 /\ turn[t].asked < MaxIter
  BY <1>2, ChatAssumption DEF IInv, TypeOK, CountInv, TurnRows
<1>4. turn[t].said + 1 <= 2 * MaxIter + 2 /\ turn[t].asked + 1 \in 0..MaxIter
  BY <1>3
<1>5. a.slice \in Slices /\ HeapType(a.heap) /\ turn[t].said + 1 \in 0..(2 * MaxIter + 2)
  BY <1>2, <1>4, SaidType DEF a
<1> DEFINE row == [turn[t] EXCEPT !.slice = a.slice, !.said = turn[t].said + 1, !.asked = turn[t].asked + 1,
                                  !.at = "model", !.result = None]
<1>6. turn' = [turn EXCEPT ![t] = row]
  BY <1>2 DEF IInv, TypeOK
<1>7. /\ row.at = "model" /\ row.session = turn[t].session /\ row.said = turn[t].said + 1
      /\ row.asked = turn[t].asked + 1 /\ row.slice = a.slice /\ row.result = None
      /\ row \in TurnRows
  BY <1>3, <1>4, <1>5 DEF TurnRows
<1> HIDE DEF row
<1>8. turn'[t] = row /\ (\A u \in Turns : u # t => turn'[u] = turn[u]) /\ turn' \in [Turns -> TurnRows]
  BY <1>6, <1>7 DEF IInv, TypeOK
<1>9. TypeOK'
  BY <1>2, <1>5, <1>8 DEF IInv, TypeOK, HeapType
<1>10. CountInv'
  <2>1. turn'[t].at = "model" /\ turn'[t].said <= 2 * turn'[t].asked + 1
    BY <1>3, <1>7, <1>8
  <2>2. QED
    BY <1>8, <2>1 DEF IInv, CountInv
<1>11. BridgeInv'
  BY <1>2, <1>7, <1>8, BridgeKeeps
<1>12. HistoryInv'
  <2>1. a = AppendTo(arrays, turn[t].slice, <<t, turn[t].said + 1>>)
    BY DEF a
  <2>2. /\ turn[t].at \in {"model", "tool", "file"} /\ arrays' = a.heap /\ sessions' = sessions
        /\ turn'[t].at \in {"model", "tool", "save"} /\ turn'[t].session = turn[t].session
        /\ turn'[t].said = turn[t].said + 1 /\ turn'[t].slice = a.slice
        /\ turn[t].said + 1 <= 2 * MaxIter + 2
    BY <1>2, <1>4, <1>7, <1>8
  <2>3. QED
    BY <1>8, <2>1, <2>2, MessageSaid
<1>13. QED
  BY <1>9, <1>10, <1>11, <1>12 DEF IInv

LEMMA ResumeKeeps == ASSUME IInv, NEW t \in Turns, NEW v \in {None, answer[t]}, Resume(t, v) PROVE IInv'
<1> DEFINE a == AppendTo(arrays, turn[t].slice, <<t, turn[t].said + 1>>)
<1>2. /\ turn[t].at = "file" /\ arrays' = a.heap
      /\ turn' = [turn EXCEPT ![t].slice = a.slice, ![t].said = @ + 1,
                              ![t].at = "model", ![t].result = v]
      /\ pending' = pending \ {<<t, turn[t].asked>>} /\ answer' = [answer EXCEPT ![t] = None]
      /\ UNCHANGED <<sessions, opens, told, mixed, stream, desk, busy, exists>>
  BY DEF Resume, desktop
<1> HIDE DEF a
<1>3. turn[t] \in TurnRows /\ turn[t].said \in Nat /\ turn[t].asked \in 0..MaxIter /\ MaxIter \in Nat
      /\ turn[t].said <= 2 * turn[t].asked /\ v \in Requests \cup {None}
      /\ (v # None => v = <<t, turn[t].asked>>)
  BY <1>2, ChatAssumption DEF IInv, TypeOK, CountInv, BridgeInv, TurnRows
<1>4. turn[t].said + 1 <= 2 * MaxIter + 2 /\ turn[t].said + 1 <= 2 * turn[t].asked + 1
  BY <1>3
<1>5. a.slice \in Slices /\ HeapType(a.heap) /\ turn[t].said + 1 \in 0..(2 * MaxIter + 2)
  BY <1>2, <1>4, SaidType DEF a
<1> DEFINE row == [turn[t] EXCEPT !.slice = a.slice, !.said = turn[t].said + 1,
                                  !.at = "model", !.result = v]
<1>6. turn' = [turn EXCEPT ![t] = row]
  BY <1>2 DEF IInv, TypeOK
<1>7. /\ row.at = "model" /\ row.session = turn[t].session /\ row.said = turn[t].said + 1
      /\ row.asked = turn[t].asked /\ row.slice = a.slice /\ row.result = v
      /\ row \in TurnRows
  BY <1>3, <1>5 DEF TurnRows
<1> HIDE DEF row
<1>8. turn'[t] = row /\ (\A u \in Turns : u # t => turn'[u] = turn[u]) /\ turn' \in [Turns -> TurnRows]
  BY <1>6, <1>7 DEF IInv, TypeOK
<1>9. TypeOK'
  BY <1>2, <1>5, <1>8 DEF IInv, TypeOK, HeapType
<1>10. CountInv'
  BY <1>4, <1>7, <1>8 DEF IInv, CountInv
<1>11. BridgeInv'
  <2>1. \A r \in pending' : r[1] \in Turns \ {t} /\ r \in pending
    <3>1. \A r \in pending : r[1] \in Turns /\ r = <<r[1], r[2]>>
      BY DEF IInv, TypeOK, Requests
    <3>2. \A r \in pending : r[1] = t => r[2] = turn[t].asked
      BY DEF IInv, BridgeInv
    <3>3. QED
      BY <1>2, <3>1, <3>2
  <2>2. answer'[t] = None /\ \A u \in Turns : u # t => answer'[u] = answer[u]
    BY <1>2 DEF IInv, TypeOK
  <2>3. QED
    BY <1>2, <1>3, <1>7, <1>8, <2>1, <2>2 DEF IInv, BridgeInv
<1>12. HistoryInv'
  <2>1. a = AppendTo(arrays, turn[t].slice, <<t, turn[t].said + 1>>)
    BY DEF a
  <2>2. /\ turn[t].at \in {"model", "tool", "file"} /\ arrays' = a.heap /\ sessions' = sessions
        /\ turn'[t].at \in {"model", "tool", "save"} /\ turn'[t].session = turn[t].session
        /\ turn'[t].said = turn[t].said + 1 /\ turn'[t].slice = a.slice
        /\ turn[t].said + 1 <= 2 * MaxIter + 2
    BY <1>2, <1>4, <1>7, <1>8
  <2>3. QED
    BY <1>8, <2>1, <2>2, MessageSaid
<1>13. QED
  BY <1>9, <1>10, <1>11, <1>12 DEF IInv

LEMMA FileAnsweredKeeps == ASSUME IInv, NEW t \in Turns, FileAnswered(t) PROVE IInv'
  BY ResumeKeeps DEF FileAnswered

LEMMA FileTimeoutKeeps == ASSUME IInv, NEW t \in Turns, FileTimeout(t) PROVE IInv'
  BY ResumeKeeps DEF FileTimeout

LEMMA RequestFileKeeps == ASSUME IInv, NEW t \in Turns, RequestFile(t) PROVE IInv'
<1> DEFINE r == <<t, turn[t].asked + 1>>
<1>2. /\ turn[t].at = "tool"
      /\ turn' = [turn EXCEPT ![t].at = "file", ![t].asked = @ + 1, ![t].result = None]
      /\ pending' = pending \cup {r} /\ Send(t, "file", r[2])
      /\ UNCHANGED <<arrays, sessions, opens, told, mixed, answer, desk, busy, exists>>
  BY DEF RequestFile
<1>3. turn[t] \in TurnRows /\ turn[t].said \in Nat /\ turn[t].asked \in Nat /\ MaxIter \in Nat
      /\ turn[t].said <= 2 * turn[t].asked + 2 /\ turn[t].asked < MaxIter
  BY <1>2, ChatAssumption DEF IInv, TypeOK, CountInv, TurnRows
<1>4. turn[t].asked + 1 \in 1..MaxIter /\ r \in Requests /\ r[1] = t /\ r[2] = turn[t].asked + 1
      /\ turn[t].said <= 2 * (turn[t].asked + 1)
  BY <1>3 DEF Requests
<1> HIDE DEF r
<1> DEFINE row == [turn[t] EXCEPT !.at = "file", !.asked = turn[t].asked + 1, !.result = None]
<1>6. turn' = [turn EXCEPT ![t] = row]
  BY <1>2 DEF IInv, TypeOK
<1>7. /\ row.at = "file" /\ row.session = turn[t].session /\ row.said = turn[t].said
      /\ row.asked = turn[t].asked + 1 /\ row.slice = turn[t].slice /\ row.result = None
      /\ row \in TurnRows
  <2>1. turn[t].asked + 1 \in 0..MaxIter
    BY <1>3
  <2>2. QED
    BY <1>3, <2>1 DEF TurnRows
<1> HIDE DEF row
<1>8. turn'[t] = row /\ (\A u \in Turns : u # t => turn'[u] = turn[u]) /\ turn' \in [Turns -> TurnRows]
  BY <1>6, <1>7 DEF IInv, TypeOK
<1>9. TypeOK'
  <2>1. <<"file", r[2]>> \in StreamEvents
    BY <1>4 DEF StreamEvents
  <2>2. stream' \in [Turns -> Seq(StreamEvents)]
    BY <1>2, <2>1, StreamType DEF IInv
  <2>3. QED
    BY <1>2, <1>4, <1>8, <2>2 DEF IInv, TypeOK
<1>10. CountInv'
  BY <1>4, <1>7, <1>8 DEF IInv, CountInv
<1>11. BridgeInv'
  <2>1. \A x \in pending : x[1] \in Turns /\ x[1] # t
    BY <1>2 DEF IInv, TypeOK, BridgeInv, Requests
  <2>2. answer[t] = None
    BY <1>2 DEF IInv, BridgeInv
  <2>3. QED
    BY <1>2, <1>4, <1>7, <1>8, <2>1, <2>2 DEF IInv, BridgeInv
<1>12. HistoryInv'
  <2>1. Live(t) /\ Begun(t) /\ Begun(t)'
    BY <1>2, <1>7, <1>8 DEF Live, Begun
  <2>2. QED
    BY <1>2, <1>7, <1>8, <2>1, NothingSaid
<1>13. QED
  BY <1>9, <1>10, <1>11, <1>12 DEF IInv

LEMMA SaveKeeps == ASSUME IInv, NEW t \in Turns, Save(t) PROVE IInv'
<1> DEFINE s == turn[t].session
<1>1. /\ turn[t].at = "save" /\ turn[t] \in TurnRows /\ Live(t) /\ Begun(t) /\ s \in Sessions
      /\ sessions' = [sessions EXCEPT ![s] = turn[t].slice] /\ told' = [told EXCEPT ![s] = @ \o Spoken(t)]
      /\ End(t, "done") /\ Send(t, "done", 0)
      /\ UNCHANGED <<arrays, opens, mixed, pending, answer, desk, busy, exists>>
  BY DEF Save, IInv, TypeOK, HistoryInv, SlicesInv, Live, Begun, bridge
<1>2. /\ turn'[t].at = "done" /\ turn'[t].session = turn[t].session /\ turn'[t].said = turn[t].said
      /\ turn'[t].asked = turn[t].asked /\ turn'[t].result = None
      /\ \A u \in Turns : u # t => turn'[u] = turn[u]
  BY <1>1 DEF End, IInv, TypeOK, TurnRows
<1>3. turn' \in [Turns -> TurnRows]
  <2>1. NoSlice \in Slices
    BY DEF NoSlice, Slices
  <2>2. QED
    BY <1>1, <2>1 DEF End, IInv, TypeOK, TurnRows
<1>4. TypeOK'
  <2>1. <<"done", 0>> \in StreamEvents
    BY DEF StreamEvents
  <2>2. stream' \in [Turns -> Seq(StreamEvents)]
    BY <1>1, <2>1, StreamType DEF IInv
  <2>3. sessions' \in [Sessions -> Slices] /\ told' \in [Sessions -> Seq(Messages)]
    <3>1. told[s] \o Spoken(t) \in Seq(Messages)
      BY <1>1, SpokenType, ConcatProperties DEF IInv, TypeOK
    <3>2. sessions' \in [Sessions -> Slices]
      BY <1>1 DEF IInv, TypeOK, TurnRows
    <3>3. QED
      BY <1>1, <3>1, <3>2 DEF IInv, TypeOK
  <2>4. QED
    BY <1>1, <1>3, <2>2, <2>3 DEF IInv, TypeOK
<1>5. CountInv'
  BY <1>2 DEF IInv, CountInv
<1>6. BridgeInv'
  BY <1>1, <1>2, BridgeKeeps
<1>7. HistoryInv'
  <2>1. Owner' = Owner /\ ~Live(t)' /\ Begun(t)'
    BY <1>2 DEF Owner, Live, Begun
  <2>2. \A k \in DOMAIN arrays : k[1] \in Turns
        /\ \A i \in 1..Len(arrays[k]) : arrays[k][i] # None => arrays[k][i][1] \in Turns
    BY DEF IInv, TypeOK, Messages
  <2>3. \A u \in Turns : turn'[u].said = turn[u].said /\ (Begun(u) => Begun(u)')
    BY <1>2, <2>1 DEF Begun
  <2>4. NamesInv'
    BY <1>1, <2>2, <2>3 DEF IInv, HistoryInv, NamesInv
  <2>5. \A x \in Sessions : SliceOf(arrays, Owner, sessions'[x], x)
    BY <1>1 DEF IInv, TypeOK, HistoryInv, SlicesInv
  <2>6. SlicesInv'
    BY <1>1, <1>2, <2>1, <2>5 DEF IInv, HistoryInv, SlicesInv, Live
  <2>7. QED
    BY <1>1, <2>1, <2>4, <2>6 DEF IInv, HistoryInv
<1>8. QED
  BY <1>4, <1>5, <1>6, <1>7 DEF IInv

-----------------------------------------------------------------------------
\* The desktop's actions leave the backend alone.
LEMMA DesktopKeeps ==
  ASSUME IInv, NEW t \in Turns, UNCHANGED backend,
         desk[t].at # "idle", NEW row \in DeskRows, row.at # "idle", desk' = [desk EXCEPT ![t] = row],
         row.at \in {"dialog", "post"} => row.req \in Requests /\ row.req[1] = t,
         stream' \in [Turns -> Seq(StreamEvents)], busy' \in BOOLEAN, exists' \in BOOLEAN,
         UNCHANGED <<pending, answer>>
  PROVE  IInv'
<1>1. desk'[t] = row /\ (\A u \in Turns : u # t => desk'[u] = desk[u]) /\ desk' \in [Turns -> DeskRows]
  BY DEF IInv, TypeOK
<1>2. TypeOK' /\ CountInv'
  BY <1>1 DEF IInv, TypeOK, CountInv, backend
<1>3. HistoryInv'
  BY HistoryFrame DEF IInv, backend
<1>4. BridgeInv'
  BY <1>1 DEF IInv, BridgeInv, backend
<1>5. QED
  BY <1>2, <1>3, <1>4 DEF IInv

LEMMA ReadFacts ==
  ASSUME IInv, NEW t \in Turns, NEW kinds, Reads(t, kinds)
  PROVE  /\ desk[t].at # "idle" /\ (Take(t) => stream' \in [Turns -> Seq(StreamEvents)])
         /\ kinds = {"file"} => Requested(t) \in Requests /\ Requested(t)[1] = t
<1>1. desk[t].at # "idle" /\ stream[t] \in Seq(StreamEvents) /\ stream[t] # <<>>
  BY DEF Reads, IInv, TypeOK
<1>2. Tail(stream[t]) \in Seq(StreamEvents) /\ Head(stream[t]) \in StreamEvents
  BY <1>1
<1>3. Take(t) => stream' \in [Turns -> Seq(StreamEvents)]
  BY <1>2 DEF Take, IInv, TypeOK
<1>4. ASSUME kinds = {"file"} PROVE Requested(t) \in Requests /\ Requested(t)[1] = t
  <2>1. Head(stream[t])[1] = "file"
    BY <1>4 DEF Reads
  <2>2. Head(stream[t])[2] \in 1..MaxIter
    <3>1. PICK e \in StreamEvents : e = Head(stream[t])
      BY <1>2
    <3>2. e[1] = "file"
      BY <2>1, <3>1
    <3>3. e # <<"done", 0>> /\ e # <<"error", 0>>
      BY <3>2
    <3>4. e \in {"file"} \X (1..MaxIter)
      BY <3>3 DEF StreamEvents
    <3>5. QED
      BY <3>1, <3>4
  <2>3. QED
    BY <2>2 DEF Requested, Requests
<1>5. QED
  BY <1>1, <1>3, <1>4

LEMMA HandleFileKeeps == ASSUME IInv, NEW t \in Turns, HandleFile(t) PROVE IInv'
<1>1. Reads(t, {"file"}) /\ Take(t)
  BY DEF HandleFile
<1>2. Requested(t) \in Requests /\ Requested(t)[1] = t /\ desk[t].at # "idle"
      /\ stream' \in [Turns -> Seq(StreamEvents)]
  BY <1>1, ReadFacts
<1> DEFINE row == [at |-> "post", req |-> Requested(t)]
<1>3. row \in DeskRows /\ row.at = "post" /\ row.req = Requested(t)
  BY <1>2 DEF DeskRows
<1>4. /\ UNCHANGED backend /\ desk' = [desk EXCEPT ![t] = row] /\ UNCHANGED <<pending, answer>>
      /\ busy' \in BOOLEAN /\ exists' \in BOOLEAN
  BY DEF HandleFile, bridge, IInv, TypeOK
<1> HIDE DEF row
<1>5. QED
  BY <1>2, <1>3, <1>4, DesktopKeeps

LEMMA AskOverwriteKeeps == ASSUME IInv, NEW t \in Turns, AskOverwrite(t) PROVE IInv'
<1>1. Reads(t, {"file"}) /\ Take(t)
  BY DEF AskOverwrite
<1>2. Requested(t) \in Requests /\ Requested(t)[1] = t /\ desk[t].at # "idle"
      /\ stream' \in [Turns -> Seq(StreamEvents)]
  BY <1>1, ReadFacts
<1> DEFINE row == [at |-> "dialog", req |-> Requested(t)]
<1>3. row \in DeskRows /\ row.at = "dialog" /\ row.req = Requested(t)
  BY <1>2 DEF DeskRows
<1>4. /\ UNCHANGED backend /\ desk' = [desk EXCEPT ![t] = row] /\ UNCHANGED <<pending, answer>>
      /\ busy' \in BOOLEAN /\ exists' \in BOOLEAN
  BY DEF AskOverwrite, bridge, IInv, TypeOK
<1> HIDE DEF row
<1>5. QED
  BY <1>2, <1>3, <1>4, DesktopKeeps

LEMMA AnswerOverwriteKeeps == ASSUME IInv, NEW t \in Turns, AnswerOverwrite(t) PROVE IInv'
<1>1. desk[t].at = "dialog" /\ desk[t] \in DeskRows /\ desk[t].req \in Requests /\ desk[t].req[1] = t
  BY DEF AnswerOverwrite, IInv, TypeOK, BridgeInv
<1> DEFINE row == [desk[t] EXCEPT !.at = "post"]
<1>2. row \in DeskRows /\ row.at = "post" /\ row.req = desk[t].req
  BY <1>1 DEF DeskRows
<1>3. /\ UNCHANGED backend /\ desk' = [desk EXCEPT ![t] = row] /\ UNCHANGED <<pending, answer>>
      /\ busy' \in BOOLEAN /\ exists' \in BOOLEAN /\ stream' \in [Turns -> Seq(StreamEvents)]
  BY DEF AnswerOverwrite, bridge, IInv, TypeOK
<1> HIDE DEF row
<1>4. QED
  BY <1>1, <1>2, <1>3, DesktopKeeps

LEMMA ThrowType ==
  ASSUME TypeOK, NEW t \in Turns, Throw(t) PROVE stream' \in [Turns -> Seq(StreamEvents)]
  BY DEF Throw, TypeOK

\* chat() throws.
LEMMA ThrowKeeps ==
  ASSUME IInv, NEW t \in Turns, desk[t].at # "idle", Throw(t), UNCHANGED <<backend, bridge, exists>>
  PROVE  IInv'
<1> DEFINE row == [at |-> "threw", req |-> None]
<1>1. row \in DeskRows /\ row.at = "threw"
  BY DEF DeskRows
<1>2. /\ desk' = [desk EXCEPT ![t] = row] /\ UNCHANGED <<pending, answer>>
      /\ busy' \in BOOLEAN /\ exists' \in BOOLEAN
  BY DEF Throw, bridge, IInv, TypeOK
<1>3. stream' \in [Turns -> Seq(StreamEvents)]
  BY ThrowType DEF IInv
<1> HIDE DEF row
<1>4. QED
  BY <1>1, <1>2, <1>3, DesktopKeeps

\* The answer of a request that is registered fits what the turn waits for.
LEMMA PostFileKeeps == ASSUME IInv, NEW t \in Turns, PostFile(t) PROVE IInv'
<1>1. /\ desk[t].at = "post" /\ desk[t] \in DeskRows /\ desk[t].req \in Requests /\ desk[t].req[1] = t
      /\ UNCHANGED <<backend, pending, exists>>
  BY DEF PostFile, IInv, TypeOK, BridgeInv
<1>2. CASE Throw(t) /\ UNCHANGED answer
  BY <1>1, <1>2, ThrowKeeps DEF bridge
<1>3. CASE Registered(desk[t].req) /\ answer' = [answer EXCEPT ![t] = desk[t].req]
           /\ ((desk' = [desk EXCEPT ![t] = [at |-> "reading", req |-> None]] /\ UNCHANGED <<stream, busy>>) \/ Throw(t))
  <2>1. PICK row \in DeskRows : row.at \in {"reading", "threw"} /\ desk' = [desk EXCEPT ![t] = row]
    <3>1. \A w \in {"reading", "threw"} : [at |-> w, req |-> None] \in DeskRows
      BY DEF DeskRows
    <3>2. QED
      BY <1>3, <3>1 DEF Throw
  <2>2. stream' \in [Turns -> Seq(StreamEvents)] /\ busy' \in BOOLEAN
    <3>1. CASE Throw(t)
      <4>1. stream' \in [Turns -> Seq(StreamEvents)]
        BY <3>1, ThrowType DEF IInv
      <4>2. busy' \in BOOLEAN
        BY <3>1 DEF Throw
      <4>3. QED
        BY <4>1, <4>2
    <3>2. CASE UNCHANGED <<stream, busy>>
      BY <3>2 DEF IInv, TypeOK
    <3>3. QED
      BY <1>3, <3>1, <3>2
  <2>3. desk'[t] = row /\ (\A u \in Turns : u # t => desk'[u] = desk[u]) /\ desk' \in [Turns -> DeskRows]
    BY <2>1 DEF IInv, TypeOK
  <2>4. answer'[t] = desk[t].req /\ (\A u \in Turns : u # t => answer'[u] = answer[u])
        /\ answer' \in [Turns -> Requests \cup {None}]
    BY <1>1, <1>3 DEF IInv, TypeOK
  <2>5. TypeOK' /\ CountInv'
    BY <1>1, <2>2, <2>3, <2>4 DEF IInv, TypeOK, CountInv, backend
  <2>6. HistoryInv'
    BY <1>1, HistoryFrame DEF IInv, backend
  <2>7. turn[t].at = "file" /\ desk[t].req = <<t, turn[t].asked>>
    <3>1. desk[t].req = <<desk[t].req[1], desk[t].req[2]>>
      BY <1>1 DEF Requests
    <3>2. QED
      BY <1>1, <1>3, <3>1 DEF Registered, IInv, BridgeInv
  <2>8. BridgeInv'
    BY <1>1, <2>1, <2>3, <2>4, <2>7 DEF IInv, BridgeInv, backend
  <2>9. QED
    BY <2>5, <2>6, <2>8 DEF IInv
<1>4. QED
  BY <1>2, <1>3 DEF PostFile

LEMMA EndStreamKeeps == ASSUME IInv, NEW t \in Turns, EndStream(t) PROVE IInv'
<1>1. UNCHANGED <<backend, bridge, exists>>
  BY DEF EndStream
<1>2. CASE Throw(t) /\ (Reads(t, {"error"}) \/ desk[t].at = "reading")
  BY <1>1, <1>2, ThrowKeeps DEF Reads
<1>3. CASE Reads(t, {"done"}) /\ Take(t) /\ desk' = [desk EXCEPT ![t].at = "answered"] /\ busy' = FALSE
  <2> DEFINE row == [desk[t] EXCEPT !.at = "answered"]
  <2>1. desk[t] \in DeskRows
    BY DEF IInv, TypeOK
  <2>2. row \in DeskRows /\ row.at = "answered"
    BY <2>1 DEF DeskRows
  <2>3. desk[t].at # "idle" /\ stream' \in [Turns -> Seq(StreamEvents)]
    BY <1>3, ReadFacts
  <2>4. desk' = [desk EXCEPT ![t] = row] /\ UNCHANGED <<pending, answer>> /\ exists' \in BOOLEAN /\ busy' \in BOOLEAN
    BY <1>1, <1>3 DEF bridge, IInv, TypeOK
  <2> HIDE DEF row
  <2>5. QED
    BY <1>1, <2>2, <2>3, <2>4, DesktopKeeps
<1>4. QED
  BY <1>2, <1>3 DEF EndStream

LEMMA NextKeeps == ASSUME IInv, [Next]_vars PROVE IInv'
<1>1. CASE UNCHANGED vars
  BY <1>1, HistoryFrame DEF vars, backend, bridge, desktop, IInv, TypeOK, CountInv, BridgeInv
<1>2. ASSUME NEW t \in Turns, BackendStep(t) PROVE IInv'
  BY <1>2, AskFailsKeeps, BeginKeeps, FailKeeps, CompleteKeeps, UnavailableKeeps, RunToolKeeps,
     RequestFileKeeps, FileAnsweredKeeps, FileTimeoutKeeps, SaveKeeps DEF BackendStep
<1>3. ASSUME NEW t \in Turns, HandleFile(t) \/ AskOverwrite(t) \/ AnswerOverwrite(t) \/ PostFile(t) \/ EndStream(t)
      PROVE IInv'
  BY <1>3, HandleFileKeeps, AskOverwriteKeeps, AnswerOverwriteKeeps, PostFileKeeps, EndStreamKeeps
<1>4. QED
  BY <1>1, <1>2, <1>3, AskKeeps DEF Next

LEMMA Invariance == Spec => []IInv
<1>1. IInv /\ [Next]_vars => IInv'
  BY NextKeeps
<1>2. QED
  BY <1>1, InitIInv, PTL DEF Spec

-----------------------------------------------------------------------------
\* What a slice of a session shows.
LEMMA ContentOf ==
  ASSUME TypeOK, HeapApart(arrays, Owner), NEW sl \in Slices, NEW s, SliceOf(arrays, Owner, sl, s)
  PROVE  \A i \in DOMAIN Content(sl) :
           LET m == Content(sl)[i] IN turn[m[1]].session = s /\ (m[2] = 0 <=> i = 1)
<1>1. CASE sl.array = None
  <2>1. Content(sl) = <<>>
    BY <1>1 DEF Content
  <2>2. QED
    BY <2>1
<1>2. CASE sl.array # None
  <2> DEFINE r == arrays[sl.array]
  <2>1. /\ sl.array \in DOMAIN arrays /\ sl.len \in 1..Len(r) /\ Owner[sl.array[1]] = s
        /\ r \in Seq(Messages \cup {None}) /\ \A i \in 1..sl.len : r[i] # None
    BY <1>2 DEF SliceOf, TypeOK
  <2>2. Content(sl) = SubSeq(r, 1, sl.len)
    BY <1>2 DEF Content
  <2>3. \A i \in 1..Len(r) : r[i] # None => Owner[r[i][1]] = Owner[sl.array[1]] /\ (r[i][2] = 0 <=> i = 1)
    BY <2>1 DEF HeapApart
  <2> HIDE DEF r
  <2>4. DOMAIN Content(sl) = 1..sl.len /\ \A i \in 1..sl.len : Content(sl)[i] = r[i]
    BY <2>1, <2>2
  <2>5. \A i \in 1..sl.len : r[i] \in Messages /\ i \in 1..Len(r)
    BY <2>1
  <2>6. \A i \in 1..sl.len : Owner[r[i][1]] = turn[r[i][1]].session
    BY <2>5 DEF Owner, Messages
  <2>7. QED
    BY <2>1, <2>3, <2>4, <2>5, <2>6
<1>3. QED
  BY <1>1, <1>2

LEMMA FileAnswer == IInv => FileAnswerFits
  BY DEF IInv, BridgeInv, FileAnswerFits

LEMMA Apart == IInv => SessionsApart
<1> SUFFICES ASSUME IInv PROVE SessionsApart
  OBVIOUS
<1>1. TypeOK /\ HeapApart(arrays, Owner) /\ SlicesInv
  BY DEF IInv, HistoryInv
<1>2. ASSUME NEW s \in Sessions, NEW i \in DOMAIN Content(sessions[s])
      PROVE  LET m == Content(sessions[s])[i] IN turn[m[1]].session = s /\ (m[2] = 0 <=> i = 1)
  <2>1. sessions[s] \in Slices /\ SliceOf(arrays, Owner, sessions[s], s)
    BY <1>1 DEF TypeOK, SlicesInv
  <2>2. QED
    BY <1>1, <2>1, ContentOf
<1>3. ASSUME NEW t \in Turns, Live(t), NEW m \in Range(Content(turn[t].slice))
      PROVE  turn[m[1]].session = turn[t].session
  <2>1. turn[t].slice \in Slices /\ SliceOf(arrays, Owner, turn[t].slice, turn[t].session)
    BY <1>1, <1>3 DEF TypeOK, TurnRows, SlicesInv
  <2>2. PICK i \in DOMAIN Content(turn[t].slice) : m = Content(turn[t].slice)[i]
    BY DEF Range
  <2>3. QED
    BY <1>1, <2>1, <2>2, ContentOf
<1>4. QED
  BY <1>2, <1>3 DEF SessionsApart

-----------------------------------------------------------------------------
\* The invariant of the sessions whose turns came one after the other.

\* Two running turns of a session make it mixed.
OneTurnInv ==
  \A t, u \in Turns :
    Live(t) /\ Live(u) /\ turn[t].session = turn[u].session /\ turn[t].session \notin mixed => t = u

\* The turns that open a session are those that found no history.
OpensInv ==
  \A t \in Turns :
    /\ turn[t].at = "idle" => t \notin opens
    /\ turn[t].at = "ask" => (t \in opens <=> turn[t].slice.len = 0)

\* A running turn has what its session remembers and, once it has begun, what it
\* said itself.
Expected(t) ==
  IF turn[t].at = "ask" THEN told[turn[t].session] ELSE told[turn[t].session] \o Spoken(t)

RunningInv ==
  \A t \in Turns :
    Live(t) /\ turn[t].session \notin mixed => Content(turn[t].slice) = Expected(t)

SequentialInv == OneTurnInv /\ OpensInv /\ RunningInv /\ SequentialHistory

\* The messages a slice shows in given arrays.
Body(heap, sl) == IF sl.array = None THEN <<>> ELSE SubSeq(heap[sl.array], 1, sl.len)

LEMMA BodyOf ==
  ASSUME NEW heap, HeapType(heap), NEW owner, NEW sl \in Slices, NEW s, SliceOf(heap, owner, sl, s)
  PROVE  /\ Body(heap, sl) \in Seq(Messages) /\ Len(Body(heap, sl)) = sl.len
         /\ \A i \in 1..sl.len : Body(heap, sl)[i] = heap[sl.array][i]
<1>1. CASE sl.array = None
  BY <1>1 DEF Body, SliceOf
<1>2. CASE sl.array # None
  <2> DEFINE r == heap[sl.array]
  <2>1. /\ r \in Seq(Messages \cup {None}) /\ sl.len \in 1..Len(r) /\ \A i \in 1..sl.len : r[i] # None
    BY <1>2 DEF SliceOf, HeapType
  <2>2. Body(heap, sl) = SubSeq(r, 1, sl.len)
    BY <1>2 DEF Body
  <2> HIDE DEF r
  <2>3. \A i \in 1..sl.len : r[i] \in Messages
    BY <2>1
  <2>4. /\ Body(heap, sl) \in Seq(Messages) /\ Len(Body(heap, sl)) = sl.len
        /\ \A i \in 1..sl.len : Body(heap, sl)[i] = r[i]
    BY <2>1, <2>2, <2>3, SubSeqProperties
  <2>5. QED
    BY <2>4 DEF r
<1>3. QED
  BY <1>1, <1>2

\* Slices that show the same messages show the same body.
LEMMA SameBody ==
  ASSUME NEW heap, HeapType(heap), NEW next, HeapType(next), NEW owner,
         NEW x \in Slices, NEW u, SliceOf(heap, owner, x, u), SliceOf(next, owner, x, u),
         \A i \in 1..x.len : next[x.array][i] = heap[x.array][i]
  PROVE  Body(next, x) = Body(heap, x)
<1> DEFINE p == Body(heap, x)
<1> DEFINE q == Body(next, x)
<1>1. p \in Seq(Messages) /\ Len(p) = x.len /\ \A i \in 1..x.len : p[i] = heap[x.array][i]
  BY BodyOf
<1>2. q \in Seq(Messages) /\ Len(q) = x.len /\ \A i \in 1..x.len : q[i] = next[x.array][i]
  BY BodyOf
<1> HIDE DEF p, q
<1>3. p = q
  BY <1>1, <1>2, SeqEqual
<1>4. QED
  BY <1>3 DEF p, q

\* append: the slice shows one message more, and a slice that is not longer, or is
\* of another session, shows what it showed.
LEMMA AppendSays ==
  ASSUME NEW heap, HeapType(heap), NEW owner, HeapApart(heap, owner),
         NEW sl \in Slices, NEW s, SliceOf(heap, owner, sl, s),
         NEW m \in Messages, m \notin DOMAIN heap, owner[m[1]] = s, m[2] = 0 <=> sl.len = 0
  PROVE  LET a == AppendTo(heap, sl, m) IN
         /\ Body(a.heap, a.slice) = Append(Body(heap, sl), m)
         /\ \A x \in Slices : \A u :
              SliceOf(heap, owner, x, u) /\ (u # s \/ x.len <= sl.len) => Body(a.heap, x) = Body(heap, x)
<1> DEFINE a == AppendTo(heap, sl, m)
<1> USE ChatAssumption
<1>0. m # None /\ sl.len \in Nat /\ sl.array \in Messages \cup {None}
  BY DEF Slices
<1>1. /\ HeapType(a.heap) /\ a.slice \in Slices /\ a.slice.len = sl.len + 1
      /\ SliceOf(a.heap, owner, a.slice, s)
      /\ \A x \in Slices : \A u : SliceOf(heap, owner, x, u) => SliceOf(a.heap, owner, x, u)
  BY AppendKeeps
<1>2. /\ \A i \in 1..sl.len : a.heap[a.slice.array][i] = heap[sl.array][i]
      /\ a.heap[a.slice.array][sl.len + 1] = m
      /\ \A x \in Slices : \A u :
           SliceOf(heap, owner, x, u) /\ (u # s \/ x.len <= sl.len) =>
             \A i \in 1..x.len : a.heap[x.array][i] = heap[x.array][i]
  <2>1. CASE sl.array # None /\ sl.len < Len(heap[sl.array])
    <3> DEFINE r == sl.array
    <3>1. a = [heap |-> [heap EXCEPT ![r][sl.len + 1] = m], slice |-> [sl EXCEPT !.len = @ + 1]]
      BY <2>1 DEF AppendTo
    <3>2. r \in DOMAIN heap /\ heap[r] \in Seq(Messages \cup {None}) /\ sl.len + 1 \in 1..Len(heap[r]) /\ owner[r[1]] = s
      BY <1>0, <2>1 DEF SliceOf, HeapType
    <3>3. a.slice.array = r
      BY <3>1 DEF Slices
    <3>4. /\ a.heap[r][sl.len + 1] = m
          /\ \A i \in 1..Len(heap[r]) : i # sl.len + 1 => a.heap[r][i] = heap[r][i]
          /\ \A k \in DOMAIN heap : k # r => a.heap[k] = heap[k]
      BY <3>1, <3>2, ExceptSeq DEF HeapType
    <3>5. ASSUME NEW x \in Slices, NEW u, SliceOf(heap, owner, x, u), u # s \/ x.len <= sl.len, NEW i \in 1..x.len
          PROVE  a.heap[x.array][i] = heap[x.array][i]
      <4>1. /\ x.len \in Nat /\ x.array # None /\ x.array \in DOMAIN heap /\ owner[x.array[1]] = u
            /\ x.len \in 1..Len(heap[x.array])
        BY <3>5 DEF SliceOf, Slices
      <4>2. CASE x.array = r
        BY <1>0, <3>2, <3>4, <3>5, <4>1, <4>2
      <4>3. CASE x.array # r
        BY <3>4, <4>1, <4>3
      <4>4. QED
        BY <4>2, <4>3
    <3>6. \A i \in 1..sl.len : a.heap[r][i] = heap[r][i]
      BY <1>0, <3>2, <3>4
    <3> HIDE DEF a
    <3>7. QED
      BY <3>3, <3>4, <3>5, <3>6
  <2>2. CASE ~(sl.array # None /\ sl.len < Len(heap[sl.array]))
    <3> DEFINE row == Grown(heap, sl, m)
    <3> DEFINE size == IF sl.len = 0 THEN 1 ELSE 2 * sl.len
    <3>1. a = [heap |-> [k \in DOMAIN heap \cup {m} |-> IF k = m THEN row ELSE heap[k]],
               slice |-> [array |-> m, len |-> sl.len + 1]]
      BY <2>2 DEF AppendTo
    <3>2. a.slice.array = m /\ a.heap[m] = row /\ \A k \in DOMAIN heap : a.heap[k] = heap[k]
      BY <3>1
    <3>3. \A i \in 1..size :
            row[i] = IF i <= sl.len THEN heap[sl.array][i] ELSE IF i = sl.len + 1 THEN m ELSE None
      BY DEF Grown
    <3>4. size \in Nat /\ size >= sl.len + 1
      BY <1>0
    <3> HIDE DEF row, size
    <3>5. row[sl.len + 1] = m /\ \A i \in 1..sl.len : row[i] = heap[sl.array][i]
      BY <1>0, <3>3, <3>4
    <3>6. ASSUME NEW x \in Slices, NEW u, SliceOf(heap, owner, x, u), NEW i \in 1..x.len
          PROVE  a.heap[x.array][i] = heap[x.array][i]
      <4>1. x.array \in DOMAIN heap
        BY <3>6 DEF SliceOf, Slices
      <4>2. QED
        BY <3>2, <4>1
    <3> HIDE DEF a
    <3>7. QED
      BY <3>2, <3>5, <3>6
  <2>3. QED
    BY <2>1, <2>2
<1> HIDE DEF a
<1>3. Body(a.heap, a.slice) = Append(Body(heap, sl), m)
  <2> DEFINE p == Body(heap, sl)
  <2> DEFINE q == Body(a.heap, a.slice)
  <2>1. p \in Seq(Messages) /\ Len(p) = sl.len /\ \A i \in 1..sl.len : p[i] = heap[sl.array][i]
    BY BodyOf
  <2>2. q \in Seq(Messages) /\ Len(q) = sl.len + 1 /\ \A i \in 1..(sl.len + 1) : q[i] = a.heap[a.slice.array][i]
    <3> DEFINE h == a.heap
    <3> DEFINE y == a.slice
    <3>1. HeapType(h) /\ y \in Slices /\ SliceOf(h, owner, y, s) /\ y.len = sl.len + 1
      BY <1>1
    <3> HIDE DEF h, y
    <3>2. Body(h, y) \in Seq(Messages) /\ Len(Body(h, y)) = y.len
          /\ \A i \in 1..y.len : Body(h, y)[i] = h[y.array][i]
      BY <3>1, BodyOf
    <3>3. QED
      BY <3>1, <3>2 DEF h, y
  <2> HIDE DEF p, q
  <2>3. Append(p, m) \in Seq(Messages) /\ Len(Append(p, m)) = sl.len + 1
        /\ \A i \in 1..(sl.len + 1) : Append(p, m)[i] = IF i = sl.len + 1 THEN m ELSE p[i]
    BY <1>0, <2>1
  <2>4. \A i \in 1..(sl.len + 1) : q[i] = Append(p, m)[i]
    BY <1>0, <1>2, <2>1, <2>2, <2>3
  <2>5. q = Append(p, m)
    <3> DEFINE z == Append(p, m)
    <3>1. z \in Seq(Messages) /\ Len(q) = Len(z) /\ \A i \in 1..Len(q) : q[i] = z[i]
      BY <1>0, <2>2, <2>3, <2>4
    <3> HIDE DEF z
    <3>2. q = z
      BY <2>2, <3>1, SeqEqual
    <3>3. QED
      BY <3>2 DEF z
  <2>6. QED
    BY <2>5 DEF p, q
<1>4. ASSUME NEW x \in Slices, NEW u, SliceOf(heap, owner, x, u), u # s \/ x.len <= sl.len
      PROVE  Body(a.heap, x) = Body(heap, x)
  BY <1>1, <1>2, <1>4, SameBody
<1>5. QED
  BY <1>3, <1>4 DEF a

-----------------------------------------------------------------------------
\* Every step keeps it.

\* What the running turn of an unmixed session has includes what is remembered.
LEMMA HasHistory ==
  ASSUME IInv, SequentialInv, NEW t \in Turns, Live(t), turn[t].session \notin mixed
  PROVE  sessions[turn[t].session].len <= turn[t].slice.len
<1> DEFINE s == turn[t].session
<1>1. /\ s \in Sessions /\ sessions[s] \in Slices /\ turn[t].slice \in Slices /\ HeapType(arrays)
      /\ SliceOf(arrays, Owner, sessions[s], s) /\ SliceOf(arrays, Owner, turn[t].slice, s)
      /\ told[s] \in Seq(Messages) /\ Spoken(t) \in Seq(Messages)
  BY SpokenType DEF IInv, TypeOK, HistoryInv, SlicesInv, TurnRows, HeapType
<1>2. Len(Body(arrays, sessions[s])) = sessions[s].len
  BY <1>1, BodyOf
<1>3. Len(Body(arrays, turn[t].slice)) = turn[t].slice.len
  <2> DEFINE x == turn[t].slice
  <2>1. x \in Slices /\ SliceOf(arrays, Owner, x, s) /\ HeapType(arrays)
    BY <1>1
  <2> HIDE DEF x, s
  <2>2. Len(Body(arrays, x)) = x.len
    BY <2>1, BodyOf
  <2>3. QED
    BY <2>2 DEF x
<1>4. Body(arrays, sessions[s]) = told[s]
  BY <1>1 DEF SequentialInv, SequentialHistory, Content, Body
<1>5. Body(arrays, turn[t].slice) = told[s] \/ Body(arrays, turn[t].slice) = told[s] \o Spoken(t)
  BY DEF SequentialInv, RunningInv, Expected, Content, Body
<1>6. Len(told[s] \o Spoken(t)) = Len(told[s]) + Len(Spoken(t)) /\ Len(told[s]) \in Nat /\ Len(Spoken(t)) \in Nat
  BY <1>1, ConcatProperties
<1>7. QED
  BY <1>2, <1>3, <1>4, <1>5, <1>6

\* A step of a running turn that lets the other slices show what they showed.
LEMMA SequentialStep ==
  ASSUME IInv, SequentialInv, NEW t \in Turns, Live(t), Begun(t)',
         turn'[t].session = turn[t].session, \A u \in Turns : u # t => turn'[u] = turn[u],
         UNCHANGED <<sessions, opens, told, mixed>>,
         \A x \in Slices : \A u :
           SliceOf(arrays, Owner, x, u) /\ (u # turn[t].session \/ x.len <= turn[t].slice.len) =>
             Body(arrays', x) = Body(arrays, x),
         Live(t)' => Body(arrays', turn'[t].slice) = told[turn[t].session] \o Spoken(t)' \/ turn[t].session \in mixed
  PROVE  SequentialInv'
<1>1. \A u \in Turns : Live(u)' => Live(u) /\ turn'[u].session = turn[u].session
  BY DEF Live
<1>2. OneTurnInv'
  BY <1>1 DEF SequentialInv, OneTurnInv
<1>3. OpensInv'
  BY DEF SequentialInv, OpensInv, Begun
<1>4. SequentialHistory'
  <2> SUFFICES ASSUME NEW s \in Sessions \ mixed PROVE Body(arrays', sessions[s]) = told[s]
    BY DEF SequentialHistory, Content, Body
  <2>1. sessions[s] \in Slices /\ SliceOf(arrays, Owner, sessions[s], s)
    BY DEF IInv, TypeOK, HistoryInv, SlicesInv
  <2>2. Body(arrays, sessions[s]) = told[s]
    BY DEF SequentialInv, SequentialHistory, Content, Body
  <2>3. s = turn[t].session => sessions[s].len <= turn[t].slice.len
    BY HasHistory
  <2>4. QED
    BY <2>1, <2>2, <2>3
<1>5. RunningInv'
  <2> SUFFICES ASSUME NEW u \in Turns, Live(u)', turn'[u].session \notin mixed
               PROVE  Body(arrays', turn'[u].slice) = Expected(u)'
    BY DEF RunningInv, Content, Body
  <2>1. CASE u = t
    BY <2>1 DEF Expected, Begun
  <2>2. CASE u # t
    <3> DEFINE x == turn[u].slice
    <3>1. turn'[u] = turn[u] /\ Live(u) /\ turn[u].session # turn[t].session
      BY <1>1, <2>2 DEF SequentialInv, OneTurnInv
    <3>2. x \in Slices /\ SliceOf(arrays, Owner, x, turn[u].session)
      BY <3>1 DEF IInv, TypeOK, TurnRows, HistoryInv, SlicesInv
    <3>3. Body(arrays', x) = Body(arrays, x)
      <4> HIDE DEF x
      <4>1. QED
        BY <3>1, <3>2
    <3>4. Body(arrays, x) = Expected(u)
      BY <3>1 DEF SequentialInv, RunningInv, Content, Body
    <3>5. Expected(u)' = Expected(u)
      BY <3>1 DEF Expected, Spoken
    <3>6. QED
      BY <3>1, <3>3, <3>4, <3>5
  <2>3. QED
    BY <2>1, <2>2
<1>6. QED
  BY <1>2, <1>3, <1>4, <1>5 DEF SequentialInv

\* A step of a running turn that says nothing.
LEMMA SilentStep ==
  ASSUME IInv, SequentialInv, NEW t \in Turns, Live(t), Begun(t)',
         turn'[t].session = turn[t].session, \A u \in Turns : u # t => turn'[u] = turn[u],
         UNCHANGED <<sessions, opens, told, mixed, arrays>>,
         Live(t)' => Begun(t) /\ turn'[t].slice = turn[t].slice /\ turn'[t].said = turn[t].said
  PROVE  SequentialInv'
<1>1. ASSUME Live(t)', turn[t].session \notin mixed
      PROVE  Body(arrays', turn'[t].slice) = told[turn[t].session] \o Spoken(t)'
  <2>1. Content(turn[t].slice) = told[turn[t].session] \o Spoken(t)
    BY <1>1 DEF SequentialInv, RunningInv, Expected, Begun
  <2>2. Spoken(t)' = Spoken(t)
    BY <1>1 DEF Spoken
  <2>3. QED
    BY <1>1, <2>1, <2>2 DEF Content, Body
<1>2. QED
  BY <1>1, SequentialStep

\* One message more of a turn.
LEMMA NumberedGrows ==
  ASSUME NEW t, NEW k \in Nat, NEW S, \A n \in 1..(k + 1) : <<t, n>> \in S
  PROVE  [n \in 1..(k + 1) |-> <<t, n>>] = [n \in 1..k |-> <<t, n>>] \o <<<<t, k + 1>>>>
<1> DEFINE p == [n \in 1..k |-> <<t, n>>]
<1> DEFINE q == [n \in 1..(k + 1) |-> <<t, n>>]
<1> DEFINE z == <<<<t, k + 1>>>>
<1>1. p \in Seq(S) /\ Len(p) = k /\ \A n \in 1..k : p[n] = <<t, n>>
  BY Z3
<1>2. q \in Seq(S) /\ Len(q) = k + 1 /\ \A n \in 1..(k + 1) : q[n] = <<t, n>>
  BY Z3
<1>3. z \in Seq(S) /\ Len(z) = 1 /\ z[1] = <<t, k + 1>>
  OBVIOUS
<1> DEFINE y == p \o z
<1> HIDE DEF p, q, z
<1>4. /\ y \in Seq(S) /\ Len(y) = Len(p) + Len(z)
      /\ \A i \in 1..(Len(p) + Len(z)) : y[i] = IF i <= Len(p) THEN p[i] ELSE z[i - Len(p)]
  BY <1>1, <1>3, ConcatProperties
<1> HIDE DEF y
<1>5. ASSUME NEW i \in 1..(k + 1) PROVE y[i] = q[i]
  <2>1. y[i] = IF i <= k THEN p[i] ELSE z[i - k]
    BY <1>1, <1>3, <1>4
  <2>2. q[i] = <<t, i>>
    BY <1>2
  <2>3. CASE i <= k
    BY <1>1, <2>1, <2>2, <2>3
  <2>4. CASE i = k + 1
    <3>1. i - k = 1 /\ ~(i <= k)
      BY <2>4
    <3>2. y[i] = <<t, k + 1>>
      BY <1>3, <2>1, <3>1
    <3>3. QED
      BY <2>2, <2>4, <3>2
  <2>5. QED
    BY <2>3, <2>4
<1>6. q = y
  BY <1>1, <1>2, <1>3, <1>4, <1>5, SeqEqual
<1>7. QED
  BY <1>6 DEF p, q, z, y

LEMMA AppendMessage ==
  ASSUME NEW p \in Seq(Messages), NEW o \in Seq(Messages), NEW q \in Seq(Messages), NEW m \in Messages
  PROVE  Append(p \o (o \o q), m) = p \o (o \o (q \o <<m>>))
<1>1. <<m>> \in Seq(Messages) /\ o \o q \in Seq(Messages)
  BY ConcatProperties
<1>2. p \o (o \o q) \in Seq(Messages)
  BY <1>1, ConcatProperties
<1>3. Append(p \o (o \o q), m) = (p \o (o \o q)) \o <<m>>
  BY <1>2, AppendIsConcat
<1>4. (p \o (o \o q)) \o <<m>> = p \o ((o \o q) \o <<m>>)
  BY <1>1, ConcatAssociative
<1>5. (o \o q) \o <<m>> = o \o (q \o <<m>>)
  BY <1>1, ConcatAssociative
<1>6. QED
  BY <1>3, <1>4, <1>5

\* What a turn has said grows by its next message.
LEMMA SpokenGrows ==
  ASSUME TypeOK, NEW t \in Turns, turn[t].said + 1 <= 2 * MaxIter + 2,
         turn'[t].said = turn[t].said + 1, opens' = opens, NEW p \in Seq(Messages)
  PROVE  p \o Spoken(t)' = Append(p \o Spoken(t), <<t, turn[t].said + 1>>)
<1> DEFINE o == IF t \in opens THEN <<<<t, 0>>>> ELSE <<>>
<1> DEFINE k == turn[t].said
<1> DEFINE q == [n \in 1..k |-> <<t, n>>]
<1> DEFINE m == <<t, k + 1>>
<1>1. k \in Nat /\ MaxIter \in Nat
  BY ChatAssumption DEF TypeOK, TurnRows
<1>2. m \in Messages /\ \A n \in 1..(k + 1) : <<t, n>> \in Messages
  BY <1>1 DEF Messages
<1>3. o \in Seq(Messages) /\ q \in Seq(Messages)
  BY SpokenType
<1>4. [n \in 1..(k + 1) |-> <<t, n>>] = q \o <<m>>
  BY <1>1, <1>2, NumberedGrows
<1>5. Spoken(t) = o \o q
  BY DEF Spoken
<1>6. Spoken(t)' = o \o [n \in 1..(k + 1) |-> <<t, n>>]
  BY DEF Spoken
<1> HIDE DEF o, q, m
<1>7. Append(p \o (o \o q), m) = p \o (o \o (q \o <<m>>))
  BY <1>2, <1>3, AppendMessage
<1>8. QED
  BY <1>4, <1>5, <1>6, <1>7 DEF m

\* A message a running turn says.
LEMMA SayingStep ==
  ASSUME IInv, SequentialInv, NEW t \in Turns, turn[t].at \in {"model", "tool", "file"},
         turn[t].said + 1 <= 2 * MaxIter + 2,
         NEW a, a = AppendTo(arrays, turn[t].slice, <<t, turn[t].said + 1>>), arrays' = a.heap,
         Begun(t)', turn'[t].session = turn[t].session, turn'[t].said = turn[t].said + 1,
         turn'[t].slice = a.slice,
         \A u \in Turns : u # t => turn'[u] = turn[u], UNCHANGED <<sessions, opens, told, mixed>>
  PROVE  SequentialInv'
<1> DEFINE m == <<t, turn[t].said + 1>>
<1> DEFINE y == turn[t].slice
<1> DEFINE s == turn[t].session
<1>1. turn[t] \in TurnRows /\ turn[t].said \in Nat /\ y \in Slices
  BY DEF IInv, TypeOK, TurnRows
<1>2. m \in Messages /\ m[1] = t /\ m[2] = turn[t].said + 1
  BY <1>1, ChatAssumption DEF Messages
<1>3. m \notin DOMAIN arrays
  BY <1>1, <1>2 DEF IInv, HistoryInv, NamesInv
<1>4. Live(t) /\ SliceOf(arrays, Owner, y, s) /\ y.len >= 1 /\ s \in Sessions
  BY DEF Live, IInv, HistoryInv, SlicesInv
<1>5. HeapType(arrays) /\ HeapApart(arrays, Owner) /\ Owner[m[1]] = s
  BY <1>2 DEF IInv, TypeOK, HistoryInv, HeapType, Owner
<1>6. m[2] = 0 <=> y.len = 0
  BY <1>1, <1>2, <1>4 DEF Slices
<1>7. a = AppendTo(arrays, y, m)
  OBVIOUS
<1>8. s \notin mixed => Body(arrays, y) = told[s] \o Spoken(t)
  BY <1>4 DEF SequentialInv, RunningInv, Expected, Content, Body
<1>9. told[s] \o Spoken(t)' = Append(told[s] \o Spoken(t), m)
  <2>1. told[s] \in Seq(Messages)
    BY <1>4 DEF IInv, TypeOK
  <2> DEFINE p == told[s]
  <2> HIDE DEF p
  <2>2. p \o Spoken(t)' = Append(p \o Spoken(t), <<t, turn[t].said + 1>>)
    BY <2>1, SpokenGrows DEF IInv, p
  <2>3. QED
    BY <2>2 DEF p
<1> HIDE DEF m, y, s
<1>10. /\ Body(a.heap, a.slice) = Append(Body(arrays, y), m)
       /\ \A x \in Slices : \A u :
            SliceOf(arrays, Owner, x, u) /\ (u # s \/ x.len <= y.len) => Body(a.heap, x) = Body(arrays, x)
  BY <1>1, <1>2, <1>3, <1>4, <1>5, <1>6, <1>7, AppendSays
<1>11. Body(arrays', turn'[t].slice) = told[s] \o Spoken(t)' \/ s \in mixed
  BY <1>8, <1>9, <1>10
<1>12. QED
  BY <1>4, <1>10, <1>11, SequentialStep DEF y, s

LEMMA BeginSequential == ASSUME IInv, SequentialInv, NEW t \in Turns, Begin(t) PROVE SequentialInv'
<1> DEFINE sl == turn[t].slice
<1> DEFINE s == turn[t].session
<1> DEFINE p == <<t, 0>>
<1> DEFINE q == <<t, 1>>
<1> DEFINE a == IF sl.len = 0 THEN AppendTo(arrays, sl, p) ELSE [heap |-> arrays, slice |-> sl]
<1> DEFINE b == AppendTo(a.heap, a.slice, q)
<1>1. /\ turn[t].at = "ask" /\ arrays' = b.heap
      /\ turn' = [turn EXCEPT ![t].slice = b.slice, ![t].said = 1, ![t].at = "model"]
      /\ UNCHANGED <<sessions, opens, told, mixed>>
  BY DEF Begin
<1>2. /\ turn[t] \in TurnRows /\ turn[t].said = 0 /\ sl \in Slices
      /\ Live(t) /\ SliceOf(arrays, Owner, sl, s) /\ s \in Sessions
      /\ HeapType(arrays) /\ HeapApart(arrays, Owner)
  BY <1>1 DEF IInv, TypeOK, CountInv, HistoryInv, SlicesInv, TurnRows, HeapType, Live
<1>3. p \in Messages /\ q \in Messages /\ p[1] = t /\ p[2] = 0 /\ q[1] = t /\ q[2] = 1 /\ p # q
  BY ChatAssumption DEF Messages
<1>4. \A k \in DOMAIN arrays : k[1] # t
  BY <1>1 DEF IInv, HistoryInv, NamesInv, Begun
<1>5. Owner[t] = s
  BY DEF Owner
<1>6. /\ turn'[t].at = "model" /\ turn'[t].session = s /\ turn'[t].said = 1 /\ turn'[t].slice = b.slice
      /\ \A u \in Turns : u # t => turn'[u] = turn[u]
  BY <1>1, <1>2 DEF IInv, TypeOK, TurnRows
<1>7. s \notin mixed => Body(arrays, sl) = told[s]
  BY <1>1, <1>2 DEF SequentialInv, RunningInv, Expected, Content, Body
<1>8. t \in opens <=> sl.len = 0
  BY <1>1 DEF SequentialInv, OpensInv
<1>9. told[s] \in Seq(Messages)
  BY <1>2 DEF IInv, TypeOK
<1> DEFINE told1 == told[s] \o (IF t \in opens THEN <<p>> ELSE <<>>)
<1> DEFINE whole == told[s] \o Spoken(t)'
<1>10. /\ told1 \in Seq(Messages)
       /\ told1 = (IF t \in opens THEN Append(told[s], p) ELSE told[s])
       /\ whole = Append(told1, q)
  <2> DEFINE o == IF t \in opens THEN <<p>> ELSE <<>>
  <2> DEFINE r == told[s]
  <2>1. o \in Seq(Messages) /\ <<q>> \in Seq(Messages)
    BY <1>3
  <2>2. told1 \in Seq(Messages)
    BY <1>9, <2>1, ConcatProperties
  <2>3. told1 = IF t \in opens THEN Append(told[s], p) ELSE told[s]
    BY <1>3, <1>9, AppendIsConcat, ConcatEmptySeq
  <2>4. Spoken(t)' = o \o <<q>>
    <3>1. [n \in 1..1 |-> <<t, n>>] = <<q>>
      OBVIOUS
    <3>2. QED
      BY <1>1, <1>6, <3>1 DEF Spoken
  <2>5. told1 = r \o o
    OBVIOUS
  <2>6. whole = r \o Spoken(t)'
    OBVIOUS
  <2> DEFINE z == <<q>>
  <2>7. whole = (r \o o) \o <<q>>
    <3>1. r \in Seq(Messages) /\ o \in Seq(Messages) /\ z \in Seq(Messages) /\ whole = r \o (o \o z)
      BY <1>9, <2>1, <2>4, <2>6
    <3> HIDE DEF o, r, whole, z
    <3>2. whole = (r \o o) \o z
      BY <3>1, ConcatAssociative
    <3>3. QED
      BY <3>2 DEF z
  <2> HIDE DEF o, told1, r, whole, q
  <2>8. whole = Append(told1, q)
    BY <1>3, <2>2, <2>5, <2>7, AppendIsConcat
  <2>9. QED
    BY <2>2, <2>3, <2>8
<1> HIDE DEF p, q, sl, s, a, told1, whole
<1>11. /\ HeapType(a.heap) /\ HeapApart(a.heap, Owner) /\ a.slice \in Slices /\ a.slice.len >= 1
       /\ SliceOf(a.heap, Owner, a.slice, s) /\ a.slice.len >= sl.len
       /\ DOMAIN a.heap \subseteq DOMAIN arrays \cup {p}
       /\ \A x \in Slices : \A u : SliceOf(arrays, Owner, x, u) => SliceOf(a.heap, Owner, x, u)
       /\ \A x \in Slices : \A u :
            SliceOf(arrays, Owner, x, u) /\ (u # s \/ x.len <= sl.len) => Body(a.heap, x) = Body(arrays, x)
       /\ s \notin mixed => Body(a.heap, a.slice) = told1
  <2>1. CASE sl.len = 0
    <3>1. a = AppendTo(arrays, sl, p)
      BY <2>1 DEF a
    <3>2. p \notin DOMAIN arrays /\ Owner[p[1]] = s /\ (p[2] = 0 <=> sl.len = 0)
      BY <1>3, <1>4, <1>5, <2>1
    <3>3. /\ HeapType(a.heap) /\ HeapApart(a.heap, Owner)
          /\ a.slice \in Slices /\ a.slice.len = sl.len + 1
          /\ SliceOf(a.heap, Owner, a.slice, s)
          /\ DOMAIN a.heap \subseteq DOMAIN arrays \cup {p}
          /\ \A x \in Slices : \A u : SliceOf(arrays, Owner, x, u) => SliceOf(a.heap, Owner, x, u)
      BY <1>2, <1>3, <3>1, <3>2, AppendKeeps
    <3>4. /\ Body(a.heap, a.slice) = Append(Body(arrays, sl), p)
          /\ \A x \in Slices : \A u :
               SliceOf(arrays, Owner, x, u) /\ (u # s \/ x.len <= sl.len) => Body(a.heap, x) = Body(arrays, x)
      BY <1>2, <1>3, <3>1, <3>2, AppendSays
    <3>5. s \notin mixed => Body(a.heap, a.slice) = told1
      BY <1>7, <1>8, <1>10, <2>1, <3>4
    <3>6. a.slice.len >= 1 /\ a.slice.len >= sl.len
      BY <2>1, <3>3
    <3>7. QED
      BY <3>3, <3>4, <3>5, <3>6
  <2>2. CASE sl.len # 0
    <3>1. a.heap = arrays /\ a.slice = sl
      BY <2>2 DEF a
    <3>2. sl.len >= 1 /\ sl.len \in Nat
      BY <1>2, <2>2 DEF Slices
    <3>3. s \notin mixed => Body(a.heap, a.slice) = told1
      BY <1>7, <1>8, <1>10, <2>2, <3>1
    <3>4. QED
      BY <1>2, <3>1, <3>2, <3>3
  <2>3. QED
    BY <2>1, <2>2
<1>12. /\ Body(b.heap, b.slice) = Append(Body(a.heap, a.slice), q)
       /\ \A x \in Slices : \A u :
            SliceOf(a.heap, Owner, x, u) /\ (u # s \/ x.len <= a.slice.len) => Body(b.heap, x) = Body(a.heap, x)
  <2> DEFINE h == a.heap
  <2> DEFINE y == a.slice
  <2>1. /\ HeapType(h) /\ HeapApart(h, Owner) /\ y \in Slices /\ SliceOf(h, Owner, y, s) /\ y.len >= 1
        /\ q \notin DOMAIN h /\ Owner[q[1]] = s
    BY <1>3, <1>4, <1>5, <1>11
  <2>2. q[2] = 0 <=> y.len = 0
    BY <1>3, <2>1
  <2> DEFINE c == AppendTo(h, y, q)
  <2>3. c = b
    OBVIOUS
  <2> HIDE DEF h, y, b
  <2>4. /\ Body(c.heap, c.slice) = Append(Body(h, y), q)
        /\ \A x \in Slices : \A u :
             SliceOf(h, Owner, x, u) /\ (u # s \/ x.len <= y.len) => Body(c.heap, x) = Body(h, x)
    BY <1>3, <2>1, <2>2, AppendSays
  <2>5. QED
    BY <2>3, <2>4 DEF h, y
<1> HIDE DEF b
<1>13. ASSUME NEW x \in Slices, NEW u, SliceOf(arrays, Owner, x, u), u # s \/ x.len <= sl.len
       PROVE  Body(b.heap, x) = Body(arrays, x)
  <2>1. Body(a.heap, x) = Body(arrays, x) /\ SliceOf(a.heap, Owner, x, u)
    BY <1>11, <1>13
  <2>2. x.len \in Nat /\ sl.len \in Nat /\ a.slice.len \in Nat
    BY <1>2, <1>11 DEF Slices
  <2>3. u # s \/ x.len <= a.slice.len
    BY <1>11, <1>13, <2>2
  <2>4. QED
    BY <1>12, <2>1, <2>3
<1>14. Body(arrays', turn'[t].slice) = whole \/ s \in mixed
  BY <1>1, <1>6, <1>10, <1>11, <1>12
<1>15. Begun(t)'
  BY <1>6 DEF Begun
<1>16. QED
  BY <1>1, <1>2, <1>6, <1>13, <1>14, <1>15, SequentialStep DEF s, sl, whole

LEMMA SilentActions ==
  ASSUME IInv, SequentialInv, NEW t \in Turns, AskFails(t) \/ Fail(t) \/ Unavailable(t) \/ RequestFile(t)
  PROVE  SequentialInv'
<1>1. turn[t] \in TurnRows /\ turn \in [Turns -> TurnRows]
  BY DEF IInv, TypeOK
<1>2. /\ UNCHANGED <<arrays, sessions, opens, told, mixed>> /\ Live(t)
      /\ turn'[t].session = turn[t].session /\ \A u \in Turns : u # t => turn'[u] = turn[u]
      /\ turn'[t].at \in {"failed", "file"}
      /\ turn'[t].at = "file" =>
           turn[t].at = "tool" /\ turn'[t].slice = turn[t].slice /\ turn'[t].said = turn[t].said
  <2>1. CASE AskFails(t) \/ Fail(t) \/ Unavailable(t)
    BY <1>1, <2>1 DEF AskFails, Fail, Unavailable, End, Live, TurnRows
  <2>2. CASE RequestFile(t)
    BY <1>1, <2>2 DEF RequestFile, Live, TurnRows
  <2>3. QED
    BY <2>1, <2>2
<1>3. Begun(t)' /\ (Live(t)' => Begun(t) /\ turn'[t].slice = turn[t].slice /\ turn'[t].said = turn[t].said)
  BY <1>2 DEF Begun, Live
<1>4. QED
  BY <1>2, <1>3, SilentStep

LEMMA SayingActions ==
  ASSUME IInv, SequentialInv, NEW t \in Turns, Complete(t) \/ RunTool(t) \/ FileAnswered(t) \/ FileTimeout(t)
  PROVE  SequentialInv'
<1> DEFINE a == AppendTo(arrays, turn[t].slice, <<t, turn[t].said + 1>>)
<1>1. turn[t] \in TurnRows /\ turn \in [Turns -> TurnRows] /\ MaxIter \in Nat
      /\ turn[t].said \in Nat /\ turn[t].asked \in Nat /\ turn[t].asked <= MaxIter
  BY ChatAssumption DEF IInv, TypeOK, TurnRows
<1>1a. \E where \in {"save", "tool", "model"} : \E asked, result :
        /\ arrays' = a.heap /\ turn[t].at \in {"model", "tool", "file"}
        /\ turn' = [turn EXCEPT ![t].slice = a.slice, ![t].said = @ + 1, ![t].asked = asked,
                                ![t].at = where, ![t].result = result]
        /\ UNCHANGED <<sessions, opens, told, mixed>>
  <2> HIDE DEF a
  <2>1. CASE Complete(t)
    <3>1. PICK where \in {"save", "tool"} : turn' = [turn EXCEPT ![t].slice = a.slice, ![t].said = @ + 1, ![t].at = where]
      BY <2>1 DEF Complete, Say, a
    <3>2. turn' = [turn EXCEPT ![t].slice = a.slice, ![t].said = @ + 1, ![t].asked = turn[t].asked,
                               ![t].at = where, ![t].result = turn[t].result]
      BY <1>1, <3>1 DEF TurnRows
    <3>3. QED
      BY <2>1, <3>2 DEF Complete, Say, a
  <2>2. CASE RunTool(t)
    <3>1. turn' = [turn EXCEPT ![t].slice = a.slice, ![t].said = @ + 1, ![t].asked = turn[t].asked + 1,
                               ![t].at = "model", ![t].result = None]
      BY <2>2 DEF RunTool, a
    <3>2. QED
      BY <2>2, <3>1 DEF RunTool, a
  <2>3. CASE FileAnswered(t) \/ FileTimeout(t)
    <3>1. PICK v : Resume(t, v)
      BY <2>3 DEF FileAnswered, FileTimeout
    <3>2. turn' = [turn EXCEPT ![t].slice = a.slice, ![t].said = @ + 1, ![t].at = "model", ![t].result = v]
      BY <3>1 DEF Resume, a
    <3>3. turn' = [turn EXCEPT ![t].slice = a.slice, ![t].said = @ + 1, ![t].asked = turn[t].asked,
                               ![t].at = "model", ![t].result = v]
      BY <1>1, <3>2 DEF TurnRows
    <3>4. QED
      BY <3>1, <3>3 DEF Resume, a
  <2>4. QED
    BY <2>1, <2>2, <2>3
<1>1b. PICK where \in {"save", "tool", "model"} : \E asked, result :
        /\ arrays' = a.heap /\ turn[t].at \in {"model", "tool", "file"}
        /\ turn' = [turn EXCEPT ![t].slice = a.slice, ![t].said = @ + 1, ![t].asked = asked,
                                ![t].at = where, ![t].result = result]
        /\ UNCHANGED <<sessions, opens, told, mixed>>
  BY <1>1a
<1>2. PICK asked, result :
        /\ arrays' = a.heap /\ turn[t].at \in {"model", "tool", "file"}
        /\ turn' = [turn EXCEPT ![t].slice = a.slice, ![t].said = @ + 1, ![t].asked = asked,
                                ![t].at = where, ![t].result = result]
        /\ UNCHANGED <<sessions, opens, told, mixed>>
  BY <1>1b
<1>3. turn[t].said + 1 <= 2 * MaxIter + 2
  <2>1. CASE turn[t].at = "model"
    <3>1. turn[t].said <= 2 * turn[t].asked + 1
      BY <2>1 DEF IInv, CountInv
    <3>2. QED
      BY <1>1, <3>1
  <2>2. CASE turn[t].at = "tool"
    <3>1. turn[t].said <= 2 * turn[t].asked + 2 /\ turn[t].asked < MaxIter
      BY <2>2 DEF IInv, CountInv
    <3>2. QED
      BY <1>1, <3>1
  <2>3. CASE turn[t].at = "file"
    <3>1. turn[t].said <= 2 * turn[t].asked
      BY <2>3 DEF IInv, CountInv
    <3>2. QED
      BY <1>1, <3>1
  <2>4. QED
    BY <1>2, <2>1, <2>2, <2>3
<1> HIDE DEF a
<1>4. /\ turn'[t].at = where /\ turn'[t].session = turn[t].session /\ turn'[t].said = turn[t].said + 1
      /\ turn'[t].slice = a.slice /\ \A u \in Turns : u # t => turn'[u] = turn[u]
  BY <1>1, <1>2 DEF TurnRows
<1>5. Begun(t)'
  BY <1>4 DEF Begun
<1>6. a = AppendTo(arrays, turn[t].slice, <<t, turn[t].said + 1>>)
  BY DEF a
<1>7. QED
  BY <1>2, <1>3, <1>4, <1>5, <1>6, SayingStep

LEMMA SaveSequential == ASSUME IInv, SequentialInv, NEW t \in Turns, Save(t) PROVE SequentialInv'
<1> DEFINE s == turn[t].session
<1>1. /\ turn[t].at = "save" /\ turn[t] \in TurnRows /\ Live(t) /\ s \in Sessions
      /\ sessions' = [sessions EXCEPT ![s] = turn[t].slice] /\ told' = [told EXCEPT ![s] = @ \o Spoken(t)]
      /\ End(t, "done") /\ UNCHANGED <<arrays, opens, mixed>>
  BY DEF Save, IInv, TypeOK, HistoryInv, SlicesInv, Live
<1>2. /\ turn'[t].at = "done" /\ \A u \in Turns : u # t => turn'[u] = turn[u]
      /\ \A u \in Turns : Live(u)' => u # t /\ Live(u)
  BY <1>1 DEF End, IInv, TypeOK, TurnRows, Live
<1>3. /\ sessions'[s] = turn[t].slice /\ told'[s] = told[s] \o Spoken(t)
      /\ \A x \in Sessions : x # s => sessions'[x] = sessions[x] /\ told'[x] = told[x]
  BY <1>1 DEF IInv, TypeOK
<1>4. OneTurnInv' /\ OpensInv'
  BY <1>1, <1>2 DEF SequentialInv, OneTurnInv, OpensInv
<1>5. s \notin mixed => Content(turn[t].slice) = told[s] \o Spoken(t)
  BY <1>1 DEF SequentialInv, RunningInv, Expected
<1>6. SequentialHistory'
  BY <1>1, <1>3, <1>5 DEF SequentialInv, SequentialHistory, Content
<1>7. RunningInv'
  <2> SUFFICES ASSUME NEW u \in Turns, Live(u)', turn'[u].session \notin mixed
               PROVE  (Content(turn[u].slice) = Expected(u))'
    BY <1>1 DEF RunningInv
  <2>1. turn'[u] = turn[u] /\ Live(u) /\ turn[u].session # s /\ turn[u].session \in Sessions
    BY <1>1, <1>2 DEF SequentialInv, OneTurnInv, IInv, HistoryInv, SlicesInv
  <2>2. Content(turn[u].slice) = Expected(u)
    BY <2>1 DEF SequentialInv, RunningInv
  <2>3. Expected(u)' = Expected(u)
    BY <1>1, <1>3, <2>1 DEF Expected, Spoken
  <2>4. QED
    BY <1>1, <2>1, <2>2, <2>3 DEF Content
<1>8. QED
  BY <1>4, <1>6, <1>7 DEF SequentialInv

LEMMA AskSequential == ASSUME IInv, SequentialInv, NEW t \in Turns, Ask(t) PROVE SequentialInv'
<1>1. PICK s \in Sessions :
        /\ turn' = [turn EXCEPT ![t].at = "ask", ![t].session = s, ![t].slice = HistoryOf(s)]
        /\ opens' = IF HistoryOf(s).len = 0 THEN opens \cup {t} ELSE opens
        /\ mixed' = mixed \cup {x \in {s} : \E u \in Turns : Live(u) /\ turn[u].session = x}
  BY DEF Ask
<1>2. turn[t].at = "idle" /\ turn[t] \in TurnRows /\ UNCHANGED <<arrays, sessions, told>> /\ t \notin opens
  BY DEF IInv, BridgeInv, Ask, TypeOK, SequentialInv, OpensInv
<1>3. /\ turn'[t].at = "ask" /\ turn'[t].session = s /\ turn'[t].slice = sessions[s]
      /\ \A u \in Turns : u # t => turn'[u] = turn[u]
  BY <1>1, <1>2 DEF IInv, TypeOK, TurnRows, HistoryOf
<1>4. \A u \in Turns : u # t /\ Live(u)' => Live(u) /\ (turn[u].session = s => s \in mixed')
  BY <1>1, <1>3 DEF Live
<1>5. mixed \subseteq mixed' /\ (t \in opens' <=> sessions[s].len = 0) /\ \A u : u # t => (u \in opens' <=> u \in opens)
  BY <1>1, <1>2 DEF HistoryOf
<1>6. OneTurnInv'
  <2> SUFFICES ASSUME NEW u \in Turns, NEW v \in Turns, Live(u)', Live(v)',
                      turn'[u].session = turn'[v].session, turn'[u].session \notin mixed'
               PROVE  u = v
    BY DEF OneTurnInv
  <2>1. CASE u = t \/ v = t
    BY <1>3, <1>4, <2>1
  <2>2. CASE u # t /\ v # t
    BY <1>3, <1>4, <1>5, <2>2 DEF SequentialInv, OneTurnInv
  <2>3. QED
    BY <2>1, <2>2
<1>7. OpensInv'
  BY <1>3, <1>5 DEF SequentialInv, OpensInv
<1>8. SequentialHistory'
  BY <1>2, <1>5 DEF SequentialInv, SequentialHistory, Content
<1>9. RunningInv'
  <2> SUFFICES ASSUME NEW u \in Turns, Live(u)', turn'[u].session \notin mixed'
               PROVE  (Content(turn[u].slice) = Expected(u))'
    BY DEF RunningInv
  <2>1. CASE u = t
    BY <1>2, <1>3, <1>5, <2>1 DEF SequentialInv, SequentialHistory, Content, Expected
  <2>2. CASE u # t
    <3>1. turn'[u] = turn[u] /\ Live(u) /\ turn[u].session \notin mixed
      BY <1>3, <1>4, <1>5, <2>2
    <3>2. Content(turn[u].slice) = Expected(u)
      BY <3>1 DEF SequentialInv, RunningInv
    <3>3. Expected(u)' = Expected(u)
      BY <1>2, <1>5, <2>2, <3>1 DEF Expected, Spoken
    <3>4. QED
      BY <1>2, <3>1, <3>2, <3>3 DEF Content
  <2>3. QED
    BY <2>1, <2>2
<1>10. QED
  BY <1>6, <1>7, <1>8, <1>9 DEF SequentialInv

LEMMA BackendStays ==
  ASSUME SequentialInv, UNCHANGED backend
  PROVE  SequentialInv'
  BY DEF backend, SequentialInv, OneTurnInv, OpensInv, RunningInv, SequentialHistory, Expected, Spoken, Content, Live

LEMMA NextSequential == ASSUME IInv, SequentialInv, [Next]_vars PROVE SequentialInv'
<1>1. ASSUME NEW t \in Turns, BackendStep(t) PROVE SequentialInv'
  BY <1>1, SilentActions, SayingActions, BeginSequential, SaveSequential DEF BackendStep
<1>2. ASSUME NEW t \in Turns, HandleFile(t) \/ AskOverwrite(t) \/ AnswerOverwrite(t) \/ PostFile(t) \/ EndStream(t)
      PROVE SequentialInv'
  BY <1>2, BackendStays DEF HandleFile, AskOverwrite, AnswerOverwrite, PostFile, EndStream
<1>3. CASE UNCHANGED vars
  BY <1>3, BackendStays DEF vars
<1>4. QED
  BY <1>1, <1>2, <1>3, AskSequential DEF Next

LEMMA InitSequential == Init => SequentialInv
<1> SUFFICES ASSUME Init PROVE SequentialInv
  OBVIOUS
<1> DEFINE said == <<<<Past, 0>>, <<Past, 1>>, <<Past, 2>>>>
<1> DEFINE row == <<<<Past, 0>>, <<Past, 1>>, <<Past, 2>>, None>>
<1>1. PICK first :
        /\ sessions = [s \in Sessions |-> IF s = first THEN Remembered ELSE NoSlice]
        /\ told = [s \in Sessions |-> IF s = first THEN said ELSE <<>>]
        /\ opens = IF first = None THEN {} ELSE {Past}
        /\ turn = [t \in Turns |->
             [at |-> IF t = Past THEN "done" ELSE "idle", session |-> IF t = Past THEN first ELSE None,
              slice |-> NoSlice, said |-> IF t = Past THEN 2 ELSE 0, asked |-> 0, result |-> None]]
  BY DEF Init
<1>2. \A t \in Turns : turn[t].at = IF t = Past THEN "done" ELSE "idle"
  BY <1>1
<1>3. OneTurnInv /\ OpensInv /\ RunningInv
  BY <1>1, <1>2 DEF OneTurnInv, OpensInv, RunningInv, Live
<1>4. SequentialHistory
  <2> SUFFICES ASSUME NEW s \in Sessions PROVE Content(sessions[s]) = told[s]
    BY DEF SequentialHistory
  <2>1. CASE s = first
    <3>1. sessions[s] = Remembered /\ told[s] = said
      BY <1>1, <2>1
    <3>2. arrays[<<Past, 2>>] = row
      BY DEF Init
    <3>3. <<Past, 2>> # None
      BY ChatAssumption DEF Messages
    <3>4. Content(Remembered) = SubSeq(row, 1, 3)
      BY <3>2, <3>3 DEF Content, Remembered
    <3>5. SubSeq(row, 1, 3) = said
      <4> DEFINE p == SubSeq(row, 1, 3)
      <4>1. <<Past, 0>> \in Messages /\ <<Past, 1>> \in Messages /\ <<Past, 2>> \in Messages
        BY ChatAssumption DEF Messages
      <4>2. \A i \in 1..3 : row[i] \in Messages
        BY <4>1
      <4>3. said \in Seq(Messages) /\ Len(said) = 3 /\ \A i \in 1..3 : said[i] = row[i]
        BY <4>1
      <4> HIDE DEF row, said
      <4>4. p \in Seq(Messages) /\ Len(p) = 3 /\ \A i \in 1..3 : p[i] = row[i]
        BY <4>2, SubSeqProperties
      <4> HIDE DEF p
      <4>5. p = said
        BY <4>3, <4>4, SeqEqual
      <4>6. QED
        BY <4>5 DEF p
    <3>6. QED
      BY <3>1, <3>4, <3>5
  <2>2. CASE s # first
    BY <1>1, <2>2 DEF NoSlice, Content
  <2>3. QED
    BY <2>1, <2>2
<1>5. QED
  BY <1>3, <1>4 DEF SequentialInv

LEMMA SequentialInvariance == Spec => []SequentialInv
<1>1. IInv /\ SequentialInv /\ [Next]_vars => SequentialInv'
  BY NextSequential
<1>2. QED
  BY <1>1, InitSequential, Invariance, PTL DEF Spec

\* The turns, histories, requests and streams keep their types, whatever overlaps.
THEOREM TypeCorrect == Spec => []TypeOK
<1>1. IInv => TypeOK
  BY DEF IInv
<1>2. QED
  BY <1>1, Invariance, PTL

\* RequestFile and resolveFile: what the model is told of a file request is what
\* the desktop did for that request, and a request that is registered is waited for.
THEOREM AnswersFit == Spec => []FileAnswerFits
  BY Invariance, FileAnswer, PTL

\* handleChat and Ask: the messages of a session never get into another session's
\* history, though turns that overlap share arrays, and a history has one system
\* prompt, its first message.
THEOREM SessionsStayApart == Spec => []SessionsApart
  BY Invariance, Apart, PTL

\* handleChat and Ask: the history of a session that never had two turns at a time
\* is the whole turns that were answered, one after the other; a turn that failed has
\* left nothing in it, though it wrote into the same backing array.
THEOREM HistoriesAreSequential == Spec => []SequentialHistory
<1>1. SequentialInv => SequentialHistory
  BY DEF SequentialInv
<1>2. QED
  BY <1>1, SequentialInvariance, PTL

=============================================================================
