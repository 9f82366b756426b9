-------------------------- MODULE AuditTrailProofs --------------------------
(***************************************************************************)
(* Proofs about AuditTrail for every set of commands and every number of   *)
(* checkpoints.  The inductive invariant says who holds the lock, what its *)
(* transaction knows, that the committed rows are a chain in the order of  *)
(* their numbers, and what each command has told so far.                   *)
(***************************************************************************)
EXTENDS AuditTrail, FiniteSetTheorems, TLAPS

(* The commands in the queue are different, and the first is the only one    *)
(* that has read the head, which is still the head.                          *)
QueueInv ==
  /\ \A i, j \in DOMAIN queue : queue[i] = queue[j] => i = j
  /\ \A c \in Command : stage[c] \in {"read", "inserted"} =>
       /\ Len(queue) > 0
       /\ queue[1] = c
       /\ head[c] = TrailHead

RowsInv ==
  /\ IsFiniteSet(rows)
  /\ \A r, q \in rows : r.number = q.number => r = q
  /\ \A r \in rows : r.number < nextNumber
  /\ \A c \in Command : stage[c] = "inserted" =>
       /\ number[c] < nextNumber
       /\ \A r \in rows : r.number < number[c]

HeadInv == /\ TrailHead \in Seq(Events)
           /\ Len(TrailHead) = Cardinality(rows)

Occurs(s, c, o) == \E i \in DOMAIN s : s[i] = <<c, o>>

Ended(s, c) == Occurs(s, c, "succeeded") \/ Occurs(s, c, "failed")

(* What a command that can still append has told.                            *)
StoryInv ==
  \A c \in Command :
    /\ (stage[c] \in {"ready", "waiting", "read", "inserted"} /\ outcome[c] = "started")
         => ~Occurs(TrailHead, c, "started") /\ ~Ended(TrailHead, c)
    /\ (\/ stage[c] = "operating"
        \/ stage[c] \in {"ready", "waiting", "read", "inserted"} /\ outcome[c] # "started")
         => Occurs(TrailHead, c, "started") /\ ~Ended(TrailHead, c)
    /\ stage[c] = "operating" => outcome[c] = "started"

TrailInv == /\ TrailTypeOK /\ QueueInv /\ RowsInv /\ HeadInv
            /\ ChainVerifies /\ CheckpointsArePrefixes /\ StoryInv

----------------------------------------------------------------------------
LEMMA AppendFacts ==
  ASSUME NEW S, NEW s \in Seq(S), NEW e \in S
  PROVE  /\ Append(s, e) \in Seq(S)
         /\ Len(Append(s, e)) = Len(s) + 1
         /\ DOMAIN Append(s, e) = 1..(Len(s) + 1)
         /\ \A i \in 1..Len(s) : Append(s, e)[i] = s[i]
         /\ Append(s, e)[Len(s) + 1] = e
  OBVIOUS

LEMMA OccursAppend ==
  ASSUME NEW s \in Seq(Events), NEW e \in Events, NEW c, NEW o
  PROVE  Occurs(Append(s, e), c, o) <=> Occurs(s, c, o) \/ e = <<c, o>>
<1>1. /\ DOMAIN s = 1..Len(s) /\ Len(s) \in Nat
      /\ DOMAIN Append(s, e) = 1..(Len(s) + 1)
      /\ \A i \in 1..Len(s) : Append(s, e)[i] = s[i]
      /\ Append(s, e)[Len(s) + 1] = e
  BY AppendFacts
<1>2. ASSUME Occurs(Append(s, e), c, o) PROVE Occurs(s, c, o) \/ e = <<c, o>>
  <2>1. PICK i \in 1..(Len(s) + 1) : Append(s, e)[i] = <<c, o>>
    BY <1>1, <1>2 DEF Occurs
  <2>2. CASE i = Len(s) + 1
    BY <1>1, <2>1, <2>2
  <2>3. CASE i # Len(s) + 1
    <3>1. i \in 1..Len(s)
      BY <1>1, <2>3
    <3> QED BY <1>1, <2>1, <3>1 DEF Occurs
  <2> QED BY <2>2, <2>3
<1>3. ASSUME Occurs(s, c, o) PROVE Occurs(Append(s, e), c, o)
  <2>1. PICK i \in 1..Len(s) : s[i] = <<c, o>>
    BY <1>1, <1>3 DEF Occurs
  <2>2. i \in 1..(Len(s) + 1) /\ Append(s, e)[i] = <<c, o>>
    BY <1>1, <2>1
  <2> QED BY <1>1, <2>2 DEF Occurs
<1>4. ASSUME e = <<c, o>> PROVE Occurs(Append(s, e), c, o)
  BY <1>1, <1>4 DEF Occurs
<1> QED BY <1>2, <1>3, <1>4

(* HeadBelow depends on the rows below n only.                               *)
HeadOf(earlier) == IF earlier = {} THEN Genesis
                   ELSE (CHOOSE r \in earlier : \A q \in earlier : q.number <= r.number).hash

LEMMA HeadSame ==
  ASSUME NEW R, NEW Q, NEW n, NEW m,
         {r \in R : r.number < n} = {r \in Q : r.number < m}
  PROVE  HeadBelow(R, n) = HeadBelow(Q, m)
<1>1. HeadBelow(R, n) = HeadOf({r \in R : r.number < n})
  BY DEF HeadBelow, HeadOf
<1>2. HeadBelow(Q, m) = HeadOf({r \in Q : r.number < m})
  BY DEF HeadBelow, HeadOf
<1> QED BY <1>1, <1>2

(* A row with the largest number is the head.                                *)
LEMMA HeadTop ==
  ASSUME NEW R, NEW w, NEW n \in Int, w.number \in Int, w.number < n,
         \A r \in R : r.number \in Int /\ r.number < w.number
  PROVE  HeadBelow(R \union {w}, n) = w.hash
<1> DEFINE earlier == {r \in R \union {w} : r.number < n}
           Top(r)  == \A q \in earlier : q.number <= r.number
<1>1. w \in earlier /\ Top(w)
  OBVIOUS
<1>2. \A r \in earlier : Top(r) => r = w
  <2> SUFFICES ASSUME NEW r \in earlier, Top(r), r # w PROVE FALSE
    OBVIOUS
  <2>1. w.number <= r.number /\ r.number < w.number
    BY <1>1
  <2> QED BY <2>1
<1>3. (CHOOSE r \in earlier : Top(r)) = w
  BY <1>1, <1>2
<1>4. earlier # {}
  BY <1>1
<1> QED BY <1>3, <1>4 DEF HeadBelow

(* The queue without one of its members.                                     *)
LEMMA OthersFacts ==
  ASSUME NEW c, queue \in Seq(Command),
         \A i, j \in DOMAIN queue : queue[i] = queue[j] => i = j
  PROVE  /\ Others(c) \in Seq(Command)
         /\ \A i, j \in DOMAIN Others(c) : Others(c)[i] = Others(c)[j] => i = j
         /\ \A d : (\E i \in DOMAIN Others(c) : Others(c)[i] = d) <=> (d # c /\ Queued(d))
         /\ (Len(queue) > 0 /\ queue[1] # c) => /\ Len(Others(c)) > 0
                                                /\ Others(c)[1] = queue[1]
<1> DEFINE n == Len(queue)
<1>1. n \in Nat /\ DOMAIN queue = 1..n /\ \A i \in 1..n : queue[i] \in Command
  OBVIOUS
<1>2. CASE ~Queued(c)
  <2>1. Others(c) = queue
    BY <1>2 DEF Others
  <2> QED BY <1>1, <1>2, <2>1 DEF Queued
<1>3. CASE Queued(c)
  <2> DEFINE place == CHOOSE i \in DOMAIN queue : queue[i] = c
             rest  == [i \in 1..(n - 1) |-> IF i < place THEN queue[i] ELSE queue[i + 1]]
  <2>1. place \in 1..n /\ queue[place] = c
    BY <1>1, <1>3 DEF Queued
  <2>2. Others(c) = rest
    BY <1>3 DEF Others
  <2> HIDE DEF place
  <2>3. /\ n - 1 \in Nat /\ DOMAIN rest = 1..(n - 1)
        /\ \A i \in 1..(n - 1) : i < place => rest[i] = queue[i] /\ i \in 1..n
        /\ \A i \in 1..(n - 1) : ~(i < place) => rest[i] = queue[i + 1] /\ i + 1 \in 1..n
    BY <1>1, <2>1
  <2> HIDE DEF rest
  <2>4. rest \in [1..(n - 1) -> Command]
    <3>1. \A i \in 1..(n - 1) : rest[i] \in Command
      BY <1>1, <2>3
    <3>2. rest = [i \in 1..(n - 1) |-> rest[i]]
      BY DEF rest
    <3> QED BY <3>1, <3>2
  <2>5. rest \in Seq(Command) /\ Len(rest) = n - 1
    BY <2>3, <2>4
  <2>6. ASSUME NEW i \in 1..(n - 1), NEW j \in 1..(n - 1), rest[i] = rest[j] PROVE i = j
    <3>1. CASE i < place /\ j < place
      BY <1>1, <2>3, <2>6, <3>1
    <3>2. CASE i < place /\ ~(j < place)
      <4>1. i = j + 1
        BY <1>1, <2>3, <2>6, <3>2
      <4> QED BY <1>1, <2>1, <3>2, <4>1
    <3>3. CASE ~(i < place) /\ j < place
      <4>1. i + 1 = j
        BY <1>1, <2>3, <2>6, <3>3
      <4> QED BY <1>1, <2>1, <3>3, <4>1
    <3>4. CASE ~(i < place) /\ ~(j < place)
      <4>1. i + 1 = j + 1
        BY <1>1, <2>3, <2>6, <3>4
      <4> QED BY <4>1
    <3> QED BY <3>1, <3>2, <3>3, <3>4
  <2>7. ASSUME NEW d, NEW i \in 1..(n - 1), rest[i] = d PROVE d # c /\ Queued(d)
    <3>1. CASE i < place
      <4>1. queue[i] = d /\ i \in 1..n /\ i # place
        BY <1>1, <2>1, <2>3, <2>7, <3>1
      <4> QED BY <1>1, <2>1, <4>1 DEF Queued
    <3>2. CASE ~(i < place)
      <4>1. queue[i + 1] = d /\ i + 1 \in 1..n /\ i + 1 # place
        BY <1>1, <2>1, <2>3, <2>7, <3>2
      <4> QED BY <1>1, <2>1, <4>1 DEF Queued
    <3> QED BY <3>1, <3>2
  <2>8. ASSUME NEW d, d # c, Queued(d) PROVE \E i \in 1..(n - 1) : rest[i] = d
    <3>1. PICK i \in 1..n : queue[i] = d
      BY <1>1, <2>8 DEF Queued
    <3>2. CASE i < place
      <4>1. i \in 1..(n - 1)
        BY <1>1, <2>1, <3>2
      <4> QED BY <2>3, <3>1, <3>2, <4>1
    <3>3. CASE ~(i < place)
      <4>1. i # place
        BY <2>1, <2>8, <3>1
      <4>2. i - 1 \in 1..(n - 1) /\ ~(i - 1 < place) /\ (i - 1) + 1 = i
        BY <1>1, <2>1, <3>3, <4>1
      <4>3. rest[i - 1] = queue[(i - 1) + 1]
        BY <2>3, <4>2
      <4> QED BY <3>1, <4>2, <4>3
    <3> QED BY <3>2, <3>3
  <2>9. ASSUME n > 0, queue[1] # c PROVE n - 1 > 0 /\ rest[1] = queue[1]
    <3>1. place > 1
      BY <1>1, <2>1, <2>9
    <3>2. 1 \in 1..(n - 1) /\ 1 < place
      BY <1>1, <2>1, <3>1
    <3> QED BY <2>3, <3>2
  <2> QED BY <2>2, <2>3, <2>5, <2>6, <2>7, <2>8, <2>9
<1> QED BY <1>2, <1>3

----------------------------------------------------------------------------
(* Steps that leave rows, head and checkpoints alone.                        *)
LEMMA QuietStep ==
  ASSUME HeadInv, ChainVerifies, CheckpointsArePrefixes,
         UNCHANGED <<rows, checkpoints>>, TrailHead' = TrailHead
  PROVE  HeadInv' /\ ChainVerifies' /\ CheckpointsArePrefixes'
  BY DEF HeadInv, ChainVerifies, ChainValid, CheckpointsArePrefixes

(* What becomes visible with a commit.                                       *)
LEMMA CommitStep ==
  ASSUME TrailInv, NEW c \in Command, stage[c] = "inserted",
         rows' = rows \union {Inserted(c)}, UNCHANGED <<nextNumber, checkpoints>>
  PROVE  /\ TrailHead' = Append(TrailHead, <<c, outcome[c]>>)
         /\ <<c, outcome[c]>> \in Events
         /\ rows' \subseteq [number : Nat, event : Events, previous : Seq(Events), hash : Seq(Events)]
         /\ IsFiniteSet(rows')
         /\ \A r, q \in rows' : r.number = q.number => r = q
         /\ \A r \in rows' : r.number < nextNumber'
         /\ HeadInv' /\ ChainVerifies' /\ CheckpointsArePrefixes'
<1> DEFINE e == <<c, outcome[c]>>
           w == Inserted(c)
<1>1. /\ head[c] = TrailHead /\ TrailHead \in Seq(Events) /\ Len(TrailHead) = Cardinality(rows)
      /\ number[c] \in Nat /\ nextNumber \in Nat /\ number[c] < nextNumber
      /\ outcome[c] \in {"started", "succeeded", "failed"}
      /\ \A r \in rows : r.number \in Nat /\ r.number < number[c]
  BY DEF TrailInv, TrailTypeOK, QueueInv, RowsInv, HeadInv
<1>2. e \in Events /\ Append(TrailHead, e) \in Seq(Events) /\ Len(Append(TrailHead, e)) = Len(TrailHead) + 1
  <2>1. e \in Events
    BY <1>1 DEF Events
  <2> QED BY <1>1, <2>1, AppendFacts
<1>3. w = [number |-> number[c], event |-> e, previous |-> TrailHead, hash |-> Append(TrailHead, e)]
  BY <1>1 DEF Inserted, EventHash
<1>4. /\ w.number = number[c] /\ w.event = e /\ w.previous = TrailHead /\ w.hash = Append(TrailHead, e)
      /\ w \in [number : Nat, event : Events, previous : Seq(Events), hash : Seq(Events)]
  BY <1>1, <1>2, <1>3
<1> HIDE DEF w
<1>5. TrailHead' = Append(TrailHead, e)
  <2>1. HeadBelow(rows \union {w}, nextNumber) = w.hash
    <3>1. /\ nextNumber \in Int /\ w.number \in Int /\ w.number < nextNumber
          /\ \A r \in rows : r.number \in Int /\ r.number < w.number
      BY <1>1, <1>4
    <3> QED BY ONLY <3>1, HeadTop
  <2>2. rows' = rows \union {w} /\ nextNumber' = nextNumber
    BY DEF w
  <2>3. TrailHead' = HeadBelow(rows', nextNumber')
    BY DEF TrailHead, HeadBelow
  <2>4. TrailHead' = HeadBelow(rows \union {w}, nextNumber)
    BY <2>2, <2>3
  <2> QED BY <1>4, <2>1, <2>4
<1>6. /\ IsFiniteSet(rows') /\ Cardinality(rows') = Cardinality(rows) + 1
      /\ w \notin rows
  <2>1. w \notin rows
    BY <1>1, <1>4
  <2>2. IsFiniteSet(rows) /\ rows' = rows \union {w}
    BY DEF TrailInv, RowsInv, w
  <2> QED BY <2>1, <2>2, FS_AddElement
<1>7. HeadInv'
  <2>1. TrailHead' \in Seq(Events) /\ Len(TrailHead') = Len(TrailHead) + 1
    BY <1>2, <1>5
  <2> QED BY <1>1, <1>6, <2>1 DEF HeadInv
<1>8. ChainVerifies'
  <2>1. ASSUME NEW r \in rows PROVE HeadBelow(rows \union {w}, r.number) = HeadBelow(rows, r.number)
    <3>1. {q \in rows \union {w} : q.number < r.number} = {q \in rows : q.number < r.number}
      BY <1>1, <1>4
    <3> QED BY <3>1, HeadSame
  <2>2. HeadBelow(rows \union {w}, w.number) = TrailHead
    <3>1. {q \in rows \union {w} : q.number < w.number} = {q \in rows : q.number < nextNumber}
      BY <1>1, <1>4
    <3> QED BY <3>1, HeadSame DEF TrailHead
  <2>3. \A r \in rows : r.previous = HeadBelow(rows, r.number) /\ r.hash = EventHash(r.previous, r.event)
    BY DEF TrailInv, ChainVerifies, ChainValid
  <2>4. w.previous = TrailHead /\ w.hash = EventHash(w.previous, w.event)
    BY <1>4 DEF EventHash
  <2>5. ChainValid(rows \union {w})
    BY <2>1, <2>2, <2>3, <2>4 DEF ChainValid
  <2> QED BY <2>5 DEF ChainVerifies, ChainValid, w
<1>9. CheckpointsArePrefixes'
  <2> SUFFICES ASSUME NEW k \in checkpoints
               PROVE  /\ k.count = Len(k.head)
                      /\ k.count <= Len(Append(TrailHead, e))
                      /\ \A i \in 1..k.count : k.head[i] = Append(TrailHead, e)[i]
    BY <1>5 DEF CheckpointsArePrefixes
  <2>1. /\ k.count = Len(k.head) /\ k.count <= Len(TrailHead) /\ k.count \in Nat
        /\ \A i \in 1..k.count : k.head[i] = TrailHead[i]
    BY DEF TrailInv, CheckpointsArePrefixes, TrailTypeOK
  <2>2. Len(TrailHead) \in Nat /\ \A i \in 1..Len(TrailHead) : Append(TrailHead, e)[i] = TrailHead[i]
    BY <1>1, <1>2, AppendFacts
  <2>3. \A i \in 1..k.count : i \in 1..Len(TrailHead)
    BY <2>1, <2>2
  <2> QED BY <1>2, <2>1, <2>2, <2>3
<1>10. /\ rows' \subseteq [number : Nat, event : Events, previous : Seq(Events), hash : Seq(Events)]
       /\ \A r, q \in rows' : r.number = q.number => r = q
       /\ \A r \in rows' : r.number < nextNumber'
  <2>1. rows' = rows \union {w}
    BY DEF w
  <2>2. /\ rows \subseteq [number : Nat, event : Events, previous : Seq(Events), hash : Seq(Events)]
        /\ \A r, q \in rows : r.number = q.number => r = q
        /\ \A r \in rows : r.number < nextNumber
    BY DEF TrailInv, TrailTypeOK, RowsInv
  <2>3. rows' \subseteq [number : Nat, event : Events, previous : Seq(Events), hash : Seq(Events)]
    BY <1>4, <2>1, <2>2
  <2>4. ASSUME NEW r \in rows', NEW q \in rows', r.number = q.number PROVE r = q
    <3>1. \A s \in rows : s.number # w.number
      BY <1>1, <1>4
    <3> QED BY <2>1, <2>2, <2>4, <3>1
  <2>5. w.number < nextNumber /\ nextNumber' = nextNumber
    BY <1>1, <1>4
  <2> QED BY <2>1, <2>2, <2>3, <2>4, <2>5
<1> QED BY <1>2, <1>5, <1>6, <1>7, <1>8, <1>9, <1>10

(* What a commit does to the stories, for a command that goes on or ends.    *)
LEMMA StoryStep ==
  ASSUME TrailInv, NEW c \in Command, stage[c] = "inserted",
         TrailHead' = Append(TrailHead, <<c, outcome[c]>>), <<c, outcome[c]>> \in Events,
         UNCHANGED outcome,
         NEW to \in {"operating", "done"}, to = "operating" => outcome[c] = "started",
         stage' = [stage EXCEPT ![c] = to]
  PROVE  StoryInv'
<1> DEFINE e == <<c, outcome[c]>>
<1>1. TrailHead \in Seq(Events) /\ stage \in [Command -> {"ready", "waiting", "read", "inserted", "operating", "done"}]
  BY DEF TrailInv, HeadInv, TrailTypeOK
<1>2. \A d, o : Occurs(TrailHead', d, o) <=> Occurs(TrailHead, d, o) \/ e = <<d, o>>
  BY <1>1, OccursAppend
<1>3. StoryInv
  BY DEF TrailInv
<1> SUFFICES ASSUME NEW d \in Command
             PROVE  /\ (stage'[d] \in {"ready", "waiting", "read", "inserted"} /\ outcome[d] = "started")
                         => ~Occurs(TrailHead', d, "started") /\ ~Ended(TrailHead', d)
                    /\ (\/ stage'[d] = "operating"
                        \/ stage'[d] \in {"ready", "waiting", "read", "inserted"} /\ outcome[d] # "started")
                         => Occurs(TrailHead', d, "started") /\ ~Ended(TrailHead', d)
                    /\ stage'[d] = "operating" => outcome[d] = "started"
  BY DEF StoryInv, Occurs, Ended
<1>4. CASE d # c
  <2>1. stage'[d] = stage[d] /\ \A o : Occurs(TrailHead', d, o) <=> Occurs(TrailHead, d, o)
    BY <1>1, <1>2, <1>4
  <2> QED BY <1>3, <2>1 DEF StoryInv, Ended
<1>5. CASE d = c
  <2>1. stage'[d] = to
    BY <1>1, <1>5
  <2>2. CASE to = "done"
    BY <2>1, <2>2
  <2>3. CASE to = "operating"
    <3>1. e = <<c, "started">> /\ ~Ended(TrailHead, c)
      BY <1>3, <2>3 DEF StoryInv
    <3>2. Occurs(TrailHead', c, "started")
      BY <1>2, <3>1
    <3>3. ~Ended(TrailHead', c)
      BY <1>2, <3>1 DEF Ended
    <3> QED BY <1>5, <2>1, <2>3, <3>2, <3>3
  <2> QED BY <2>2, <2>3
<1> QED BY <1>4, <1>5

----------------------------------------------------------------------------
(* Leaving the queue: of the types, the queue and the holder of the lock.    *)
LEMMA LeaveStep ==
  ASSUME TrailInv, NEW c \in Command, queue' = Others(c),
         UNCHANGED <<head, number>>,
         NEW to \in {"operating", "done"}, stage' = [stage EXCEPT ![c] = to]
  PROVE  /\ queue' \in Seq(Command)
         /\ stage' \in [Command -> {"ready", "waiting", "read", "inserted", "operating", "done"}]
         /\ \A d \in Command : stage'[d] \in {"waiting", "read", "inserted"} <=> Queued(d)'
         /\ \A i, j \in DOMAIN queue' : queue'[i] = queue'[j] => i = j
         /\ \A d \in Command : stage'[d] \in {"read", "inserted"} =>
              /\ d # c /\ stage[d] = stage'[d]
              /\ Len(queue') > 0 /\ queue'[1] = d
              /\ head'[d] = TrailHead
<1>1. /\ queue \in Seq(Command)
      /\ \A i, j \in DOMAIN queue : queue[i] = queue[j] => i = j
      /\ stage \in [Command -> {"ready", "waiting", "read", "inserted", "operating", "done"}]
      /\ \A d \in Command : stage[d] \in {"waiting", "read", "inserted"} <=> Queued(d)
      /\ \A d \in Command : stage[d] \in {"read", "inserted"} =>
           Len(queue) > 0 /\ queue[1] = d /\ head[d] = TrailHead
  BY DEF TrailInv, TrailTypeOK, QueueInv
<1>2. /\ Others(c) \in Seq(Command)
      /\ \A i, j \in DOMAIN Others(c) : Others(c)[i] = Others(c)[j] => i = j
      /\ \A d : (\E i \in DOMAIN Others(c) : Others(c)[i] = d) <=> (d # c /\ Queued(d))
      /\ (Len(queue) > 0 /\ queue[1] # c) => Len(Others(c)) > 0 /\ Others(c)[1] = queue[1]
  BY <1>1, OthersFacts
<1>3. \A d : Queued(d)' <=> (d # c /\ Queued(d))
  BY <1>2 DEF Queued
<1>4. \A d \in Command : stage'[d] = IF d = c THEN to ELSE stage[d]
  BY <1>1
<1>5. stage' \in [Command -> {"ready", "waiting", "read", "inserted", "operating", "done"}]
  BY <1>1
<1>6. \A d \in Command : stage'[d] \in {"waiting", "read", "inserted"} <=> Queued(d)'
  BY <1>1, <1>3, <1>4
<1>7. ASSUME NEW d \in Command, stage'[d] \in {"read", "inserted"}
      PROVE  /\ d # c /\ stage[d] = stage'[d]
             /\ Len(queue') > 0 /\ queue'[1] = d
             /\ head'[d] = TrailHead
  <2>1. d # c /\ stage[d] = stage'[d]
    BY <1>4, <1>7
  <2>2. Len(queue) > 0 /\ queue[1] = d /\ head[d] = TrailHead
    BY <1>1, <1>7, <2>1
  <2> QED BY <1>2, <2>1, <2>2
<1> QED BY <1>2, <1>5, <1>6, <1>7

LEMMA TrailInitInv == TrailInit => TrailInv
<1> SUFFICES ASSUME TrailInit PROVE TrailInv
  OBVIOUS
<1>1. TrailHead = <<>>
  <2>1. {r \in rows : r.number < nextNumber} = {}
    BY DEF TrailInit
  <2> QED BY <2>1 DEF TrailHead, HeadBelow, Genesis
<1>2. rows = {} /\ IsFiniteSet({}) /\ Cardinality({}) = 0
  BY FS_EmptySet DEF TrailInit
<1>3. HeadInv
  BY <1>1, <1>2 DEF HeadInv
<1>4. TrailTypeOK
  <2>1. \A c \in Command : ~Queued(c)
    BY DEF Queued, TrailInit
  <2> QED BY <2>1 DEF TrailTypeOK, TrailInit, Genesis
<1>5. QueueInv /\ RowsInv /\ ChainVerifies /\ CheckpointsArePrefixes
  BY <1>2 DEF QueueInv, RowsInv, ChainVerifies, ChainValid, CheckpointsArePrefixes, TrailInit
<1>6. StoryInv
  <2>1. \A c, o : ~Occurs(TrailHead, c, o)
    BY <1>1 DEF Occurs
  <2> QED BY <2>1 DEF StoryInv, Ended, TrailInit
<1> QED BY <1>3, <1>4, <1>5, <1>6 DEF TrailInv

LEMMA TrailInvStep == TrailInv /\ [TrailNext]_trailVars => TrailInv'
<1> SUFFICES ASSUME TrailInv, [TrailNext]_trailVars PROVE TrailInv'
  OBVIOUS
<1> USE DEF TrailInv
<1> DEFINE Stages == {"ready", "waiting", "read", "inserted", "operating", "done"}
<1>0. ASSUME UNCHANGED <<rows, nextNumber>> PROVE TrailHead' = TrailHead
  BY <1>0 DEF TrailHead, HeadBelow
<1>1. ASSUME NEW c \in Command, RequestLock(c) PROVE TrailInv'
  <2>1. HeadInv' /\ ChainVerifies' /\ CheckpointsArePrefixes' /\ TrailHead' = TrailHead
    BY <1>0, <1>1, QuietStep DEF RequestLock
  <2>2. /\ queue \in Seq(Command) /\ Len(queue) \in Nat
        /\ DOMAIN queue = 1..Len(queue)
        /\ queue' \in Seq(Command) /\ Len(queue') = Len(queue) + 1
        /\ DOMAIN queue' = 1..(Len(queue) + 1)
        /\ \A i \in 1..Len(queue) : queue'[i] = queue[i]
        /\ queue'[Len(queue) + 1] = c
    BY <1>1, AppendFacts DEF RequestLock, TrailTypeOK
  <2>3. ~Queued(c) /\ stage'[c] = "waiting" /\ \A d \in Command : d # c => stage'[d] = stage[d]
    BY <1>1 DEF RequestLock, TrailTypeOK
  <2>4. ASSUME NEW d PROVE Queued(d)' <=> d = c \/ Queued(d)
    <3>1. ASSUME Queued(d)' PROVE d = c \/ Queued(d)
      <4>1. PICK i \in 1..(Len(queue) + 1) : queue'[i] = d
        BY <2>2, <3>1 DEF Queued
      <4>2. CASE i = Len(queue) + 1
        BY <2>2, <4>1, <4>2
      <4>3. CASE i # Len(queue) + 1
        <5>1. i \in 1..Len(queue)
          BY <2>2, <4>3
        <5> QED BY <2>2, <4>1, <5>1 DEF Queued
      <4> QED BY <4>2, <4>3
    <3>2. ASSUME Queued(d) PROVE Queued(d)'
      <4>1. PICK i \in 1..Len(queue) : queue[i] = d
        BY <2>2, <3>2 DEF Queued
      <4>2. i \in 1..(Len(queue) + 1) /\ queue'[i] = d
        BY <2>2, <4>1
      <4> QED BY <2>2, <4>2 DEF Queued
    <3>3. ASSUME d = c PROVE Queued(d)'
      <4>1. Len(queue) + 1 \in 1..(Len(queue) + 1)
        BY <2>2
      <4> QED BY <2>2, <3>3, <4>1 DEF Queued
    <3> QED BY <3>1, <3>2, <3>3
  <2>5. TrailTypeOK'
    <3>1. \A d \in Command : stage'[d] \in {"waiting", "read", "inserted"} <=> Queued(d)'
      BY <2>3, <2>4 DEF TrailTypeOK
    <3>2. stage' \in [Command -> Stages]
      BY <1>1 DEF RequestLock, TrailTypeOK
    <3> QED BY <1>1, <2>2, <3>1, <3>2 DEF RequestLock, TrailTypeOK
  <2>6. QueueInv'
    <3>1. ASSUME NEW i \in DOMAIN queue', NEW j \in DOMAIN queue', queue'[i] = queue'[j] PROVE i = j
      <4>1. \A k \in 1..Len(queue) : queue[k] # c
        BY <2>2, <2>3 DEF Queued
      <4>2. CASE i \in 1..Len(queue) /\ j \in 1..Len(queue)
        <5>1. queue[i] = queue[j]
          BY <2>2, <3>1, <4>2
        <5> QED BY <2>2, <4>2, <5>1 DEF QueueInv
      <4>3. CASE i = Len(queue) + 1 /\ j \in 1..Len(queue)
        BY <2>2, <3>1, <4>1, <4>3
      <4>4. CASE i \in 1..Len(queue) /\ j = Len(queue) + 1
        BY <2>2, <3>1, <4>1, <4>4
      <4>5. CASE i = Len(queue) + 1 /\ j = Len(queue) + 1
        BY <4>5
      <4> QED BY <2>2, <4>2, <4>3, <4>4, <4>5
    <3>2. ASSUME NEW d \in Command, stage'[d] \in {"read", "inserted"}
          PROVE Len(queue') > 0 /\ queue'[1] = d /\ head'[d] = TrailHead'
      <4>1. Len(queue) > 0 /\ queue[1] = d /\ head[d] = TrailHead
        BY <2>3, <3>2 DEF QueueInv
      <4>2. 1 \in 1..Len(queue)
        BY <2>2, <4>1
      <4> QED BY <1>1, <2>1, <2>2, <4>1, <4>2 DEF RequestLock
    <3> QED BY <3>1, <3>2 DEF QueueInv
  <2>7. RowsInv' /\ StoryInv'
    BY <1>1, <2>1, <2>3 DEF RowsInv, StoryInv, Ended, Occurs, RequestLock
  <2> QED BY <2>1, <2>5, <2>6, <2>7
<1>2. ASSUME NEW c \in Command, ReadHead(c) PROVE TrailInv'
  <2>1. HeadInv' /\ ChainVerifies' /\ CheckpointsArePrefixes' /\ TrailHead' = TrailHead
    BY <1>0, <1>2, QuietStep DEF ReadHead
  <2>2. /\ stage[c] = "waiting" /\ stage'[c] = "read"
        /\ \A d \in Command : d # c => stage'[d] = stage[d] /\ head'[d] = head[d]
        /\ head'[c] = TrailHead /\ head' \in [Command -> Seq(Events)]
        /\ stage' \in [Command -> Stages] /\ queue' = queue
    BY <1>2 DEF ReadHead, TrailTypeOK, HeadInv
  <2>3. Len(queue) > 0 /\ queue[1] = c
    <3>1. Queued(c)
      BY <2>2 DEF TrailTypeOK
    <3>2. queue # <<>> /\ queue \in Seq(Command)
      BY <3>1 DEF Queued, TrailTypeOK
    <3> QED BY <1>2, <3>2 DEF ReadHead
  <2>4. TrailTypeOK'
    <3>1. \A d \in Command : stage'[d] \in {"waiting", "read", "inserted"} <=> Queued(d)'
      BY <2>2 DEF TrailTypeOK, Queued
    <3> QED BY <1>2, <2>2, <3>1 DEF ReadHead, TrailTypeOK
  <2>5. QueueInv' /\ RowsInv' /\ StoryInv'
    BY <1>2, <2>1, <2>2, <2>3 DEF QueueInv, RowsInv, StoryInv, Ended, Occurs, ReadHead
  <2> QED BY <2>1, <2>4, <2>5
<1>3. ASSUME NEW c \in Command, InsertRow(c) PROVE TrailInv'
  <2>1. /\ nextNumber \in Nat \ {0} /\ nextNumber' = nextNumber + 1 /\ rows' = rows /\ queue' = queue
        /\ \A r \in rows : r.number \in Nat /\ r.number < nextNumber
        /\ stage[c] = "read" /\ stage'[c] = "inserted"
        /\ \A d \in Command : d # c => stage'[d] = stage[d] /\ number'[d] = number[d]
        /\ number'[c] = nextNumber /\ number' \in [Command -> Nat]
        /\ stage' \in [Command -> Stages]
    BY <1>3 DEF InsertRow, TrailTypeOK, RowsInv
  <2>2. TrailHead' = TrailHead
    <3>1. {r \in rows : r.number < nextNumber} = {r \in rows : r.number < nextNumber + 1}
      BY <2>1
    <3> QED BY <2>1, <3>1, HeadSame DEF TrailHead
  <2>3. HeadInv' /\ ChainVerifies' /\ CheckpointsArePrefixes'
    BY <1>3, <2>2, QuietStep DEF InsertRow
  <2>4. TrailTypeOK'
    <3>1. \A d \in Command : stage'[d] \in {"waiting", "read", "inserted"} <=> Queued(d)'
      BY <2>1 DEF TrailTypeOK, Queued
    <3> QED BY <1>3, <2>1, <3>1 DEF InsertRow, TrailTypeOK
  <2>5. QueueInv' /\ StoryInv'
    BY <1>3, <2>1, <2>2 DEF QueueInv, StoryInv, Ended, Occurs, InsertRow
  <2>6. RowsInv'
    <3>1. \A d \in Command : d # c => stage[d] # "inserted"
      BY <2>1 DEF QueueInv
    <3> QED BY <2>1, <3>1 DEF RowsInv
  <2> QED BY <2>3, <2>4, <2>5, <2>6
<1>4. ASSUME NEW c \in Command, Commit(c) \/ CommitUnconfirmed(c) PROVE TrailInv'
  <2>1. PICK to \in {"operating", "done"} :
          stage' = [stage EXCEPT ![c] = to] /\ (to = "operating" => outcome[c] = "started")
    BY <1>4 DEF Commit, CommitUnconfirmed
  <2>2. /\ stage[c] = "inserted" /\ rows' = rows \union {Inserted(c)} /\ queue' = Others(c)
        /\ UNCHANGED <<nextNumber, outcome, head, number, checkpoints>>
    BY <1>4 DEF Commit, CommitUnconfirmed
  <2>3. /\ TrailHead' = Append(TrailHead, <<c, outcome[c]>>)
        /\ <<c, outcome[c]>> \in Events
        /\ rows' \subseteq [number : Nat, event : Events, previous : Seq(Events), hash : Seq(Events)]
        /\ IsFiniteSet(rows')
        /\ \A r, q \in rows' : r.number = q.number => r = q
        /\ \A r \in rows' : r.number < nextNumber'
        /\ HeadInv' /\ ChainVerifies' /\ CheckpointsArePrefixes'
    BY <2>2, CommitStep
  <2>4. StoryInv'
    BY <2>1, <2>2, <2>3, StoryStep
  <2>5. /\ queue' \in Seq(Command)
        /\ stage' \in [Command -> Stages]
        /\ \A d \in Command : stage'[d] \in {"waiting", "read", "inserted"} <=> Queued(d)'
        /\ \A i, j \in DOMAIN queue' : queue'[i] = queue'[j] => i = j
        /\ \A d \in Command : stage'[d] \in {"read", "inserted"} => d # c /\ stage[d] = stage'[d]
    BY <2>1, <2>2, LeaveStep
  <2>6. \A d \in Command : stage'[d] \notin {"read", "inserted"}
    BY <2>2, <2>5 DEF QueueInv
  <2>7. TrailTypeOK' /\ QueueInv' /\ RowsInv'
    BY <2>2, <2>3, <2>5, <2>6 DEF TrailTypeOK, QueueInv, RowsInv
  <2> QED BY <2>3, <2>4, <2>7
<1>5. ASSUME NEW c \in Command, Fail(c) PROVE TrailInv'
  <2>1. HeadInv' /\ ChainVerifies' /\ CheckpointsArePrefixes' /\ TrailHead' = TrailHead
    BY <1>0, <1>5, QuietStep DEF Fail
  <2>2. /\ queue' = Others(c) /\ stage' = [stage EXCEPT ![c] = "done"]
        /\ UNCHANGED <<rows, nextNumber, outcome, head, number, checkpoints>>
    BY <1>5 DEF Fail
  <2>3. /\ queue' \in Seq(Command)
        /\ stage' \in [Command -> Stages]
        /\ \A d \in Command : stage'[d] \in {"waiting", "read", "inserted"} <=> Queued(d)'
        /\ \A i, j \in DOMAIN queue' : queue'[i] = queue'[j] => i = j
        /\ \A d \in Command : stage'[d] \in {"read", "inserted"} =>
             d # c /\ stage[d] = stage'[d] /\ Len(queue') > 0 /\ queue'[1] = d /\ head'[d] = TrailHead
    BY <2>2, LeaveStep
  <2>4. TrailTypeOK' /\ QueueInv' /\ RowsInv'
    BY <2>1, <2>2, <2>3 DEF TrailTypeOK, QueueInv, RowsInv
  <2>5. \A d \in Command : stage'[d] = IF d = c THEN "done" ELSE stage[d]
    BY <2>2 DEF TrailTypeOK
  <2>6. StoryInv'
    BY <2>1, <2>2, <2>5 DEF StoryInv, Ended, Occurs
  <2> QED BY <2>1, <2>4, <2>6
<1>6. ASSUME NEW c \in Command, Operate(c) PROVE TrailInv'
  <2>1. HeadInv' /\ ChainVerifies' /\ CheckpointsArePrefixes' /\ TrailHead' = TrailHead
    BY <1>0, <1>6, QuietStep DEF Operate
  <2>2. /\ stage[c] = "operating" /\ stage'[c] = "ready" /\ stage' \in [Command -> Stages]
        /\ outcome'[c] \in {"succeeded", "failed"}
        /\ outcome' \in [Command -> {"started", "succeeded", "failed"}]
        /\ \A d \in Command : d # c => stage'[d] = stage[d] /\ outcome'[d] = outcome[d]
        /\ UNCHANGED <<rows, nextNumber, queue, head, number, checkpoints>>
    BY <1>6 DEF Operate, TrailTypeOK
  <2>3. TrailTypeOK'
    <3>1. \A d \in Command : stage'[d] \in {"waiting", "read", "inserted"} <=> Queued(d)'
      BY <2>2 DEF TrailTypeOK, Queued
    <3> QED BY <2>2, <3>1 DEF TrailTypeOK
  <2>4. QueueInv' /\ RowsInv' /\ StoryInv'
    BY <2>1, <2>2 DEF QueueInv, RowsInv, StoryInv, Ended, Occurs
  <2> QED BY <2>1, <2>3, <2>4
<1>7. ASSUME ExportCheckpoint PROVE TrailInv'
  <2> DEFINE k == [count |-> Cardinality(rows), head |-> TrailHead]
  <2>1. /\ checkpoints' = checkpoints \union {k} /\ TrailHead' = TrailHead
        /\ UNCHANGED <<rows, nextNumber, queue, stage, outcome, head, number>>
    BY <1>0, <1>7 DEF ExportCheckpoint
  <2>2. /\ k.count = Len(k.head) /\ k.count \in Nat /\ k.head \in Seq(Events)
        /\ k.count = Len(TrailHead) /\ k.head = TrailHead
    BY FS_CardinalityType DEF HeadInv, RowsInv
  <2> HIDE DEF k
  <2>3. TrailTypeOK' /\ CheckpointsArePrefixes'
    <3>1. \A x \in checkpoints' : x.count \in Nat /\ x.head \in Seq(Events)
      BY <2>1, <2>2 DEF TrailTypeOK
    <3>2. \A x \in checkpoints' : /\ x.count = Len(x.head) /\ x.count <= Len(TrailHead)
                                  /\ \A i \in 1..x.count : x.head[i] = TrailHead[i]
      BY <2>1, <2>2 DEF CheckpointsArePrefixes
    <3>3. \A d : Queued(d)' <=> Queued(d)
      BY <2>1 DEF Queued
    <3> QED BY <2>1, <3>1, <3>2, <3>3 DEF TrailTypeOK, CheckpointsArePrefixes
  <2>4. HeadInv' /\ ChainVerifies' /\ QueueInv' /\ RowsInv' /\ StoryInv'
    BY <2>1 DEF HeadInv, ChainVerifies, ChainValid, QueueInv, RowsInv, StoryInv, Ended, Occurs
  <2> QED BY <2>3, <2>4
<1>8. ASSUME UNCHANGED trailVars PROVE TrailInv'
  <2>1. HeadInv' /\ ChainVerifies' /\ CheckpointsArePrefixes' /\ TrailHead' = TrailHead
    BY <1>0, <1>8, QuietStep DEF trailVars
  <2>2. TrailTypeOK'
    BY <1>8 DEF TrailTypeOK, Queued, trailVars
  <2>3. QueueInv' /\ RowsInv' /\ StoryInv'
    BY <1>8, <2>1 DEF QueueInv, RowsInv, StoryInv, Ended, Occurs, trailVars
  <2> QED BY <2>1, <2>2, <2>3
<1> QED BY <1>1, <1>2, <1>3, <1>4, <1>5, <1>6, <1>7, <1>8 DEF TrailNext

LEMMA TrailInvariant == TrailSpec => []TrailInv
  BY TrailInitInv, TrailInvStep, PTL DEF TrailSpec

----------------------------------------------------------------------------
(* Who waits, who holds the lock and what every variable is, whatever        *)
(* happens to the transactions.                                              *)
THEOREM TrailTypeCorrect == TrailSpec => []TrailTypeOK
<1>1. TrailInv => TrailTypeOK
  BY DEF TrailInv
<1> QED BY <1>1, TrailInvariant, PTL

(* The trail verifies at every moment, for any number of commands that       *)
(* append at the same time, fail and crash.                                  *)
THEOREM ChainAlwaysVerifies == TrailSpec => []ChainVerifies
<1>1. TrailInv => ChainVerifies
  BY DEF TrailInv
<1> QED BY <1>1, TrailInvariant, PTL

(* Every exported checkpoint stays the beginning of the trail.               *)
THEOREM CheckpointsStayPrefixes == TrailSpec => []CheckpointsArePrefixes
<1>1. TrailInv => CheckpointsArePrefixes
  BY DEF TrailInv
<1> QED BY <1>1, TrailInvariant, PTL

(* An event that is committed is one that the log of AuditLog may get next.  *)
LEMMA CommitIsLogged ==
  ASSUME TrailInv, NEW c \in Command, Commit(c) \/ CommitUnconfirmed(c)
  PROVE  Log!Next
<1>1. /\ stage[c] = "inserted" /\ rows' = rows \union {Inserted(c)}
      /\ UNCHANGED <<nextNumber, checkpoints>>
  BY DEF Commit, CommitUnconfirmed
<1>2. TrailHead' = Append(TrailHead, <<c, outcome[c]>>)
  BY <1>1, CommitStep
<1>3. outcome[c] \in {"started", "succeeded", "failed"}
  BY DEF TrailInv, TrailTypeOK
<1>4. \A o : Log!Recorded(c, o) <=> Occurs(TrailHead, c, o)
  BY DEF Log!Recorded, Occurs
<1>5. Log!Closed(c) <=> Ended(TrailHead, c)
  BY <1>4 DEF Log!Closed, Ended
<1>6. CASE outcome[c] = "started"
  <2>1. ~Log!Recorded(c, "started") /\ ~Log!Closed(c)
    BY <1>1, <1>4, <1>5, <1>6 DEF TrailInv, StoryInv
  <2>2. Log!Announce(c)
    BY <1>2, <1>6, <2>1 DEF Log!Announce
  <2> QED BY <2>2 DEF Log!Next
<1>7. CASE outcome[c] # "started"
  <2>1. Log!Recorded(c, "started") /\ ~Log!Closed(c)
    BY <1>1, <1>4, <1>5, <1>7 DEF TrailInv, StoryInv
  <2>2. Log!Close(c, outcome[c])
    BY <1>2, <2>1 DEF Log!Close
  <2> QED BY <1>3, <1>7, <2>2 DEF Log!Next
<1> QED BY <1>6, <1>7

LEMMA TrailStepIsLogged == TrailInv /\ [TrailNext]_trailVars => [Log!Next]_TrailHead
<1> SUFFICES ASSUME TrailInv, [TrailNext]_trailVars, TrailHead' # TrailHead PROVE Log!Next
  OBVIOUS
<1>1. ASSUME UNCHANGED <<rows, nextNumber>> PROVE FALSE
  BY <1>1 DEF TrailHead, HeadBelow
<1>2. ASSUME NEW c \in Command, InsertRow(c) PROVE FALSE
  <2>1. /\ nextNumber \in Nat /\ nextNumber' = nextNumber + 1 /\ rows' = rows
        /\ \A r \in rows : r.number \in Nat /\ r.number < nextNumber
    BY <1>2 DEF InsertRow, TrailInv, TrailTypeOK, RowsInv
  <2>2. {r \in rows : r.number < nextNumber} = {r \in rows : r.number < nextNumber + 1}
    BY <2>1
  <2> QED BY <2>1, <2>2, HeadSame DEF TrailHead
<1>3. \A c \in Command : RequestLock(c) \/ ReadHead(c) \/ Fail(c) \/ Operate(c)
                           => UNCHANGED <<rows, nextNumber>>
  BY DEF RequestLock, ReadHead, Fail, Operate
<1>4. ExportCheckpoint \/ UNCHANGED trailVars => UNCHANGED <<rows, nextNumber>>
  BY DEF ExportCheckpoint, trailVars
<1>5. PICK c \in Command : Commit(c) \/ CommitUnconfirmed(c)
  BY <1>1, <1>2, <1>3, <1>4 DEF TrailNext
<1> QED BY <1>5, CommitIsLogged

(* The table, its lock and its transactions implement the list of AuditLog:  *)
(* the committed events tell, for every command, one story in order.         *)
THEOREM TrailImplementsLog == TrailSpec => ImplementsLog
<1>1. TrailInit => Log!Init
  <2>1. {r \in {} : r.number < nextNumber} = {}
    OBVIOUS
  <2> QED BY <2>1 DEF TrailInit, TrailHead, HeadBelow, Genesis, Log!Init
<1> QED BY <1>1, TrailInvariant, TrailStepIsLogged, PTL DEF TrailSpec, ImplementsLog, Log!Spec

----------------------------------------------------------------------------
(* What an auditor reads off a list of events: of each command at most one   *)
(* announcement and at most one outcome, and no outcome without an           *)
(* announcement before it.                                                   *)
OneStory(s) ==
  /\ s \in Seq(Events)
  /\ \A i, j \in DOMAIN s :
       s[i][1] = s[j][1] /\ (s[i][2] = "started" <=> s[j][2] = "started") => i = j
  /\ \A j \in DOMAIN s : s[j][2] # "started" =>
       \E i \in DOMAIN s : i < j /\ s[i] = <<s[j][1], "started">>

LEMMA StoryGrows ==
  ASSUME NEW s, OneStory(s), NEW c \in Command, NEW o \in {"started", "succeeded", "failed"},
         ~Ended(s, c), o # "started" <=> Occurs(s, c, "started")
  PROVE  OneStory(Append(s, <<c, o>>))
<1> DEFINE e == <<c, o>>
           t == Append(s, e)
           n == Len(s)
<1>1. /\ s \in Seq(Events) /\ e \in Events /\ n \in Nat
      /\ DOMAIN s = 1..n /\ \A i \in 1..n : s[i] \in Events
      /\ e[1] = c /\ e[2] = o
  BY DEF OneStory, Events
<1>2. /\ t \in Seq(Events) /\ DOMAIN t = 1..(n + 1)
      /\ \A i \in 1..n : t[i] = s[i]
      /\ t[n + 1] = e
  BY <1>1, AppendFacts
<1>3. \A i \in 1..n : s[i][1] = c => s[i][2] = "started" /\ o # "started"
  <2> SUFFICES ASSUME NEW i \in 1..n, s[i][1] = c
               PROVE  s[i][2] = "started" /\ o # "started"
    OBVIOUS
  <2>1. s[i] = <<c, s[i][2]>> /\ s[i][2] \in {"started", "succeeded", "failed"}
    BY <1>1 DEF Events
  <2>2. s[i][2] = "started"
    BY <1>1, <2>1 DEF Ended, Occurs
  <2>3. Occurs(s, c, "started")
    BY <1>1, <2>1, <2>2 DEF Occurs
  <2> QED
    BY <2>2, <2>3
<1> HIDE DEF t, e
<1>4. ASSUME NEW i \in 1..(n + 1), NEW j \in 1..(n + 1),
             t[i][1] = t[j][1], t[i][2] = "started" <=> t[j][2] = "started"
      PROVE  i = j
  <2>1. CASE i \in 1..n /\ j \in 1..n
    BY <1>1, <1>2, <1>4, <2>1 DEF OneStory
  <2>2. CASE i = n + 1 /\ j \in 1..n
    BY <1>1, <1>2, <1>3, <1>4, <2>2
  <2>3. CASE i \in 1..n /\ j = n + 1
    BY <1>1, <1>2, <1>3, <1>4, <2>3
  <2>4. (i \in 1..n \/ i = n + 1) /\ (j \in 1..n \/ j = n + 1)
    BY <1>1
  <2> QED
    BY <2>1, <2>2, <2>3, <2>4
<1>5. ASSUME NEW j \in 1..(n + 1), t[j][2] # "started"
      PROVE  \E i \in 1..(n + 1) : i < j /\ t[i] = <<t[j][1], "started">>
  <2>1. CASE j \in 1..n
    <3>1. PICK i \in 1..n : i < j /\ s[i] = <<s[j][1], "started">>
      BY <1>1, <1>2, <1>5, <2>1 DEF OneStory
    <3> QED
      BY <1>1, <1>2, <2>1, <3>1
  <2>2. CASE j = n + 1
    <3>1. PICK i \in 1..n : s[i] = <<c, "started">>
      BY <1>1, <1>2, <1>5, <2>2 DEF Occurs
    <3> QED
      BY <1>1, <1>2, <2>2, <3>1
  <2> QED
    BY <1>1, <2>1, <2>2
<1>6. OneStory(t)
  BY <1>2, <1>4, <1>5 DEF OneStory
<1> QED
  BY <1>6 DEF t, e

(* Whatever overlapping transactions, lost confirmations and crashes do, the *)
(* events that the head hash covers tell one story of every command: proved  *)
(* of AuditLog, and of the trail because it implements that.                 *)
THEOREM OneStoryOfEachCommand == TrailSpec => []OneStory(TrailHead)
<1>1. Log!Init => OneStory(TrailHead)
  BY DEF Log!Init, OneStory
<1>2. ASSUME OneStory(TrailHead), Log!Next
      PROVE  OneStory(TrailHead)'
  <2>1. /\ \A c, o : Log!Recorded(c, o) <=> Occurs(TrailHead, c, o)
        /\ \A c : Log!Closed(c) <=> Ended(TrailHead, c)
    BY DEF Log!Recorded, Log!Closed, Occurs, Ended
  <2>2. PICK c \in Command, o \in {"started", "succeeded", "failed"} :
          /\ TrailHead' = Append(TrailHead, <<c, o>>)
          /\ ~Ended(TrailHead, c)
          /\ o # "started" <=> Occurs(TrailHead, c, "started")
    BY <1>2, <2>1 DEF Log!Next, Log!Announce, Log!Close
  <2>3. OneStory(Append(TrailHead, <<c, o>>))
    BY <1>2, <2>2, StoryGrows
  <2> QED
    BY <2>2, <2>3 DEF OneStory
<1>3. UNCHANGED TrailHead /\ OneStory(TrailHead) => OneStory(TrailHead)'
  BY DEF OneStory
<1>4. ImplementsLog => []OneStory(TrailHead)
  BY <1>1, <1>2, <1>3, PTL DEF ImplementsLog, Log!Spec
<1> QED
  BY <1>4, TrailImplementsLog, PTL

----------------------------------------------------------------------------
(* d is before c in the queue for the advisory lock.                         *)
Before(d, c) == \E i, j \in DOMAIN queue : i < j /\ queue[i] = d /\ queue[j] = c

(* Who leaves the queue does not change the order of the others.             *)
LEMMA OthersOrder ==
  ASSUME NEW e, queue \in Seq(Command),
         NEW i \in DOMAIN Others(e), NEW j \in DOMAIN Others(e), i < j
  PROVE  \E p, q \in DOMAIN queue :
           p < q /\ queue[p] = Others(e)[i] /\ queue[q] = Others(e)[j]
<1> DEFINE n == Len(queue)
<1>1. n \in Nat /\ DOMAIN queue = 1..n
  OBVIOUS
<1>2. CASE ~Queued(e)
  BY <1>2 DEF Others
<1>3. CASE Queued(e)
  <2> DEFINE place == CHOOSE k \in DOMAIN queue : queue[k] = e
             rest  == [k \in 1..(n - 1) |-> IF k < place THEN queue[k] ELSE queue[k + 1]]
             was(k) == IF k < place THEN k ELSE k + 1
  <2>1. place \in 1..n
    BY <1>1, <1>3 DEF Queued
  <2>2. Others(e) = rest
    BY <1>3 DEF Others
  <2>3. i \in 1..(n - 1) /\ j \in 1..(n - 1)
    BY <2>2
  <2> HIDE DEF place
  <2>4. rest[i] = queue[was(i)] /\ rest[j] = queue[was(j)]
    BY <2>3
  <2> HIDE DEF rest
  <2>5. was(i) \in 1..n /\ was(j) \in 1..n /\ was(i) < was(j)
    BY <1>1, <2>1, <2>3
  <2> QED
    BY <1>1, <2>2, <2>4, <2>5
<1> QED
  BY <1>2, <1>3

LEMMA QueueOrderStep ==
  ASSUME TrailInv, [TrailNext]_trailVars, NEW c \in Command, NEW d \in Command,
         stage[c] = "waiting", Before(d, c)'
  PROVE  Before(d, c)
<1>1. queue \in Seq(Command)
  BY DEF TrailInv, TrailTypeOK
<1>2. CASE queue' = queue
  BY <1>2 DEF Before
<1>3. ASSUME NEW e \in Command, queue' = Others(e)
      PROVE  Before(d, c)
  <2>1. PICK i, j \in DOMAIN Others(e) : i < j /\ Others(e)[i] = d /\ Others(e)[j] = c
    BY <1>3 DEF Before
  <2> QED
    BY <1>1, <2>1, OthersOrder DEF Before
<1>4. ASSUME NEW e \in Command, RequestLock(e)
      PROVE  Before(d, c)
  <2>1. queue' = Append(queue, e) /\ e # c
    BY <1>4 DEF RequestLock
  <2>2. PICK i, j \in DOMAIN queue' : i < j /\ queue'[i] = d /\ queue'[j] = c
    BY DEF Before
  <2>3. /\ DOMAIN queue = 1..Len(queue) /\ Len(queue) \in Nat
        /\ DOMAIN queue' = 1..(Len(queue) + 1)
        /\ \A k \in 1..Len(queue) : queue'[k] = queue[k]
        /\ queue'[Len(queue) + 1] = e
    BY <1>1, <2>1, AppendFacts
  <2>4. j # Len(queue) + 1
    BY <2>1, <2>2, <2>3
  <2>5. i \in 1..Len(queue) /\ j \in 1..Len(queue)
    BY <2>2, <2>3, <2>4
  <2> QED
    BY <2>2, <2>3, <2>5 DEF Before
<1>5. \/ queue' = queue
      \/ \E e \in Command : queue' = Others(e) \/ RequestLock(e)
  BY DEF TrailNext, ReadHead, InsertRow, Commit, CommitUnconfirmed, Fail, Operate,
         ExportCheckpoint, trailVars
<1> QED
  BY <1>2, <1>3, <1>4, <1>5

(* The safety half of LockIsGranted, for every number of commands.  The head *)
(* of the queue is always in a transaction, so that it can go on or fail:    *)
(* pg_advisory_xact_lock leaves no lock behind.  And nobody overtakes: while *)
(* a command waits, no one gets before it, whoever comes, commits or fails.  *)
THEOREM NobodyOvertakes ==
  TrailSpec =>
    /\ [](Len(queue) > 0 => stage[queue[1]] \in {"waiting", "read", "inserted"})
    /\ [][\A c, d \in Command :
            stage[c] = "waiting" /\ Before(d, c)' => Before(d, c)]_trailVars
<1>1. TrailInv => (Len(queue) > 0 => stage[queue[1]] \in {"waiting", "read", "inserted"})
  <2> SUFFICES ASSUME TrailInv, Len(queue) > 0
               PROVE  stage[queue[1]] \in {"waiting", "read", "inserted"}
    OBVIOUS
  <2>1. queue \in Seq(Command)
    BY DEF TrailInv, TrailTypeOK
  <2>2. 1 \in DOMAIN queue /\ queue[1] \in Command
    BY <2>1
  <2>3. Queued(queue[1])
    BY <2>2 DEF Queued
  <2> QED
    BY <2>2, <2>3 DEF TrailInv, TrailTypeOK
<1>2. TrailInv /\ [TrailNext]_trailVars =>
        \A c, d \in Command : stage[c] = "waiting" /\ Before(d, c)' => Before(d, c)
  BY QueueOrderStep
<1> QED
  BY <1>1, <1>2, TrailInvariant, PTL DEF TrailSpec
============================================================================
