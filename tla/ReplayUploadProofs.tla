-------------------------- MODULE ReplayUploadProofs --------------------------
(***************************************************************************)
(* Theorems about ReplayUpload, for any segment and byte limits, sizes,    *)
(* failures and bounds that ReplayUploadAssumption allows.                 *)
(*                                                                         *)
(* The inductive invariant IInv says of every event the client still holds *)
(* (in the buffer, in the chunk that gzip works on, in the packed          *)
(* segments) that it is in its place and newer than all the server has     *)
(* acknowledged; and, as long as consent was never withdrawn, how what the *)
(* client believes of its replay relates to what the server has, with      *)
(* answers lost on the way.  A task is a composition of functions from     *)
(* client to client, so the proof is too: a stretch of a task takes a      *)
(* client that is Ready to one that is Settled, each by a lemma of its     *)
(* own, and an action composes the lemmas of the stretches it runs.        *)
(***************************************************************************)
EXTENDS ReplayUpload, SequenceTheorems, WellFoundedInduction, TLAPS

-----------------------------------------------------------------------------
(* The parts of the inductive invariant.  They speak of a client c and of a *)
(* server sv, so that they can be asked of what a stretch of a task makes of *)
(* the client.                                                              *)

\* The replay as the server has it.
On(sv, rid) == IF rid \in DOMAIN sv THEN sv[rid] ELSE Unknown

\* The numbers of the events of a sequence, and those that may be pending: recorded,
\* and after everything the server has acknowledged.
Numbers(q) == {q[i].n : i \in 1..Len(q)}
Fresh(c, sv) == {n \in 1..c.events : \A r \in DOMAIN sv : sv[r].last < n}
Less(A, B) == \A a \in A, b \in B : a < b
Increasing(q) == \A i, j \in 1..Len(q) : i < j => q[i].n < q[j].n
Pending(q, c, sv) == Increasing(q) /\ Numbers(q) \subseteq Fresh(c, sv)

\* The packed segments follow each other and precede what is still to be packed.
SegsPending(c, sv) ==
  \A i \in 1..Len(c.run.segs) :
    /\ c.run.segs[i].events # <<>>
    /\ Pending(c.run.segs[i].events, c, sv)
    /\ Less(Numbers(c.run.segs[i].events), Numbers(c.buffer))
    /\ \A j \in 1..Len(c.run.segs) :
         i < j => Less(Numbers(c.run.segs[i].events), Numbers(c.run.segs[j].events))

\* So does the chunk that gzip works on.
ChunkPending(c, sv) ==
  /\ c.run.chunk # <<>>
  /\ Pending(c.run.chunk, c, sv)
  /\ Less(Numbers(c.run.chunk), Numbers(c.buffer))
  /\ \A i \in 1..Len(c.run.segs) :
       Less(Numbers(c.run.segs[i].events), Numbers(c.run.chunk))

\* Numbered from next on, which is 1 + the last index the client knows to have landed.
Numbered(c) == \A i \in 1..Len(c.run.segs) : c.run.segs[i].index = c.index + i - 1

\* What is recorded, packed or about to be posted is in order and not acknowledged.
InOrder(c, sv) ==
  /\ Pending(c.buffer, c, sv)
  /\ \A r \in DOMAIN sv : sv[r].last <= c.events
  /\ c.run.step \in {"packing", "uploading"} => SegsPending(c, sv)
  /\ c.run.step = "packing" => ChunkPending(c, sv)

-----------------------------------------------------------------------------
(* What holds as long as consent was never withdrawn. *)

\* The replay is open for segments.
Open(c, sv) == c.started /\ ~c.finished /\ ~On(sv, c.rid).finished

\* What the client believes of its replay: a replay the server has finished although
\* the answer was lost is never uploaded to again.
Believes(c, sv) ==
  /\ \A r \in DOMAIN sv : r <= c.rid
  /\ c.started => On(sv, c.rid).started
  /\ ~c.started => ~On(sv, c.rid).finished /\ c.index = 0
  /\ c.index <= On(sv, c.rid).segments
  /\ c.linkable # 0 => On(sv, c.linkable).segments > 0
  /\ c.recorder = "off" => ~c.sampled
  /\ c.recorder # "on" => c.events = 0

\* A finish that reached the server although its answer was lost ends uploading.
Reopens(c, sv) ==
  c.started /\ ~c.finished /\ On(sv, c.rid).finished => c.sampled /\ ~c.uploading

\* The replay begins with a paint base, in a segment or in the chunk.
Painted(c) ==
  c.index = 0 => IF c.run.segs = <<>>
                 THEN c.run.step = "packing" => StartsWithFull(c.run.chunk)
                 ELSE StartsWithFull(c.run.segs[1].events)

\* The packed segments stay within the limits of the replay.
Budgeted(c) ==
  /\ c.index + Len(c.run.segs) <= MaxSegmentsAllowed(c)
  /\ ClipMode(c) /\ c.run.segs # <<>> =>
       c.bytes + Bytes(c.run.segs) <= ClipBytes \/ c.index + Len(c.run.segs) = 1

Packed(c) == Numbered(c) /\ Painted(c) /\ Budgeted(c)

\* What a task relies on when the request it waits for resolves.
AtItsStep(c, sv) ==
  /\ c.run.step = "starting" => c.run.rid = c.rid /\ ~c.started
  /\ c.run.step = "packing" =>
       Open(c, sv) /\ Packed(c) /\ c.run.next = c.index + Len(c.run.segs)
       /\ c.run.next < MaxSegmentsAllowed(c)
  /\ c.run.step = "uploading" =>
       Open(c, sv) /\ Packed(c) /\ c.run.rid = c.rid
  /\ c.run.step \in {"finishing", "aborting"} => c.run.rid = c.rid /\ c.started

Sound(c, sv) == Believes(c, sv) /\ Reopens(c, sv) /\ AtItsStep(c, sv)

\* A server's table.
Table == UNION {[D -> Replay] : D \in SUBSET Nat}

\* What a stretch of a task relies on and leaves behind, from client s, server sv and
\* page p: Loose while the replay is being given up, Ready otherwise.
Loose(s, sv, p) ==
  /\ s \in Client
  /\ Pending(s.buffer, s, sv)
  /\ \A r \in DOMAIN sv : sv[r].last <= s.events
  /\ p.blocked => ~s.uploading
  /\ p.holds = 0 => Believes(s, sv)

Ready(s, sv, p) == Loose(s, sv, p) /\ (p.holds = 0 => Reopens(s, sv))

\* The invariant between the steps, and after a step of a task that has started.
Good(s, sv, p) ==
  /\ s \in Client
  /\ InOrder(s, sv)
  /\ s.run.step # "begun"
  /\ s.run.step = "uploading" => s.run.segs # <<>>
  /\ p.blocked => ~s.uploading
  /\ p.holds = 0 => Sound(s, sv)

Settled(s, sv, p) == Good(s, sv, p) /\ s.run.step # "starting"

\* The error reported last names a replay that has landed.
LinkSound ==
  page.holds = 0 /\ link.rid # 0 => On(server, link.rid).segments > 0

\* The inductive invariant.
IInv ==
  /\ TypeOK
  /\ Good(client, server, page)
  /\ page.blocked => page.holds > 0
  /\ LinkSound

\* What only adds to the recording: events newer than all before, of which and of the
\* buffer some may have been trimmed.
Grows(t, s) ==
  /\ t.events >= s.events /\ Increasing(t.buffer)
  /\ \A n \in Numbers(t.buffer) : n \in Numbers(s.buffer) \/ n \in s.events + 1..t.events

\* The same replay, as far as its order on the server goes.
SameReplay(t, s) ==
  /\ t.rid = s.rid /\ t.started = s.started /\ t.finished = s.finished
  /\ t.index = s.index /\ t.bytes = s.bytes /\ t.sampled = s.sampled /\ t.run = s.run

-----------------------------------------------------------------------------
(* Induction: sums of sizes, sequences one after the other. *)

\* A set of naturals that holds 0 and with each number the next one holds all: the
\* induction the lemmas about sums and concatenations rest on.
LEMMA Induction ==
  ASSUME NEW P \in SUBSET Nat, 0 \in P, \A n \in P : n + 1 \in P
  PROVE  P = Nat
<1> SUFFICES ASSUME Nat \ P # {} PROVE FALSE
  OBVIOUS
<1> DEFINE R == OpToRel(<, Nat)
<1>1. PICK m \in Nat \ P : \A k \in Nat \ P : <<k, m>> \notin R
  <2>1. IsWellFoundedOn(R, Nat)
    BY NatLessThanWellFounded
  <2> HIDE DEF R
  <2> QED BY <2>1, WFMin
<1>2. m # 0 /\ m - 1 \in Nat
  OBVIOUS
<1>3. <<m - 1, m>> \in R
  BY <1>2 DEF OpToRel
<1> HIDE DEF R
<1>4. m - 1 \in P
  BY <1>1, <1>2, <1>3
<1>5. (m - 1) + 1 \in P
  BY <1>4
<1> QED BY <1>5

\* A step function defines a function on 0..n.
Iterates(f, n, S, base, step) ==
  f \in [0..n -> S] /\ f[0] = base /\ \A i \in 1..n : f[i] = step[<<i, f[i - 1]>>]

\* A step function and a first value determine a function on 0..m.
LEMMA Recursion ==
  ASSUME NEW S, NEW base \in S, NEW step \in [Nat \X S -> S], NEW m \in Nat
  PROVE  \E f : Iterates(f, m, S, base, step)
<1> USE DEF Iterates
<1> DEFINE P == {n \in Nat : \E f \in [0..n -> S] :
                   f[0] = base /\ \A i \in 1..n : f[i] = step[<<i, f[i - 1]>>]}
<1>1. 0 \in P
  <2> DEFINE f == [i \in 0..0 |-> base]
  <2>1. f \in [0..0 -> S] /\ f[0] = base /\ \A i \in 1..0 : f[i] = step[<<i, f[i - 1]>>]
    OBVIOUS
  <2> QED BY <2>1
<1>2. ASSUME NEW n \in P PROVE n + 1 \in P
  <2>1. PICK f \in [0..n -> S] :
          f[0] = base /\ \A i \in 1..n : f[i] = step[<<i, f[i - 1]>>]
    OBVIOUS
  <2>2. f[n] \in S /\ n \in Nat
    OBVIOUS
  <2> DEFINE g == [i \in 0..n + 1 |-> IF i <= n THEN f[i] ELSE step[<<n + 1, f[n]>>]]
  <2>3. step[<<n + 1, f[n]>>] \in S
    BY <2>2
  <2>4. g \in [0..n + 1 -> S]
    BY <2>2, <2>3
  <2>5. g[0] = base
    BY <2>1, <2>2
  <2>6. ASSUME NEW i \in 1..n + 1 PROVE g[i] = step[<<i, g[i - 1]>>]
    <3>1. CASE i = n + 1
      <4>1. n + 1 \in 0..n + 1 /\ n \in 0..n + 1 /\ n <= n /\ ~(n + 1 <= n) /\ (n + 1) - 1 = n
        BY <2>2
      <4>2. g[n + 1] = step[<<n + 1, f[n]>>] /\ g[n] = f[n]
        BY <4>1
      <4> QED BY <3>1, <4>1, <4>2
    <3>2. CASE i \in 1..n
      <4>1. i \in 0..n + 1 /\ i - 1 \in 0..n + 1 /\ i <= n /\ i - 1 <= n
        BY <2>2, <3>2
      <4>2. g[i] = f[i] /\ g[i - 1] = f[i - 1]
        BY <4>1
      <4> QED BY <2>1, <3>2, <4>2
    <3> QED BY <2>2, <3>1, <3>2
  <2> HIDE DEF g
  <2> QED BY <2>2, <2>4, <2>5, <2>6
<1> HIDE DEF P
<1>3. P \in SUBSET Nat
  BY DEF P
<1>4. P = Nat
  BY <1>1, <1>2, <1>3, Induction
<1> QED BY <1>4 DEF P

\* Bytes adds up the sizes: of no segments, and of one more.
LEMMA SumOfSizes ==
  ASSUME NEW segs \in Seq(Segment)
  PROVE  \E sum \in [0..Len(segs) -> Nat] :
           /\ sum[0] = 0 /\ \A k \in 1..Len(segs) : sum[k] = sum[k - 1] + segs[k].size
           /\ Bytes(segs) = sum[Len(segs)]
<1> DEFINE n == Len(segs)
           body(f) == [k \in 0..Len(segs) |-> IF k = 0 THEN 0 ELSE f[k - 1] + segs[k].size]
           step == [x \in Nat \X Nat |-> IF x[1] \in 1..n THEN x[2] + segs[x[1]].size ELSE 0]
<1>1. n \in Nat /\ \A k \in 1..n : segs[k].size \in Nat
  <2>1. n \in Nat
    BY LenProperties
  <2>2. ASSUME NEW k \in 1..n PROVE segs[k].size \in Nat
    <3>1. segs[k] \in Segment
      BY ElementOfSeq
    <3> QED BY <3>1 DEF Segment
  <2> QED BY <2>1, <2>2
<1>2. step \in [Nat \X Nat -> Nat]
  BY <1>1
<1>3. PICK f \in [0..n -> Nat] : f[0] = 0 /\ \A i \in 1..n : f[i] = step[<<i, f[i - 1]>>]
  <2>1. n \in Nat /\ 0 \in Nat
    BY <1>1
  <2> HIDE DEF step, n
  <2>2. \E f : Iterates(f, n, Nat, 0, step)
    BY <2>1, <1>2, Recursion
  <2> QED BY <2>2 DEF Iterates
<1>4. ASSUME NEW i \in 1..n PROVE f[i] = f[i - 1] + segs[i].size
  <2>1. <<i, f[i - 1]>> \in Nat \X Nat
    <3>1. i \in Nat /\ i - 1 \in 0..n
      BY <1>1
    <3>2. f[i - 1] \in Nat
      BY <1>3, <3>1
    <3> QED BY <3>1, <3>2
  <2>2. f[i] = step[<<i, f[i - 1]>>]
    BY <1>3
  <2> QED BY <2>1, <2>2
<1>5. f = body(f)
  BY <1>1, <1>3, <1>4
<1> DEFINE sum == CHOOSE g : g = body(g)
<1>6. sum = body(sum)
  BY <1>5
<1>7. Bytes(segs) = sum[n]
  BY DEF Bytes
<1> HIDE DEF sum
<1>8. sum = [k \in 0..n |-> IF k = 0 THEN 0 ELSE sum[k - 1] + segs[k].size]
  BY <1>6
<1> HIDE DEF n
<1>9. sum[0] = 0 /\ \A k \in 1..n : sum[k] = sum[k - 1] + segs[k].size
  BY <1>1, <1>8
<1> DEFINE P == {k \in Nat : k <= n => sum[k] \in Nat}
<1>10. \A k \in Nat : k <= n => sum[k] \in Nat
  <2>1. 0 \in P
    BY <1>9
  <2>2. ASSUME NEW k \in P PROVE k + 1 \in P
    <3> SUFFICES ASSUME k + 1 <= n PROVE sum[k + 1] \in Nat
      OBVIOUS
    <3>1. k \in Nat /\ k <= n /\ k + 1 \in 1..n /\ (k + 1) - 1 = k
      BY <1>1
    <3>2. sum[k] \in Nat
      BY <3>1
    <3>3. sum[k + 1] = sum[k] + segs[k + 1].size /\ segs[k + 1].size \in Nat
      BY <1>1, <1>9, <3>1
    <3> QED BY <3>2, <3>3
  <2> HIDE DEF P
  <2>3. P \in SUBSET Nat
    BY DEF P
  <2>4. P = Nat
    BY <2>1, <2>2, <2>3, Induction
  <2> QED BY <2>4 DEF P
<1>11. sum \in [0..n -> Nat]
  BY <1>1, <1>8, <1>10
<1> QED BY <1>7, <1>9, <1>11 DEF n

\* Bytes adds up the sizes of the segments.
LEMMA BytesOfMore ==
  ASSUME NEW segs \in Seq(Segment), NEW seg \in Segment
  PROVE  /\ Bytes(segs) \in Nat /\ Bytes(<<>>) = 0
         /\ Bytes(Append(segs, seg)) = Bytes(segs) + seg.size
<1> DEFINE n == Len(segs)
           more == Append(segs, seg)
<1>1. n \in Nat
  BY LenProperties
<1>2. /\ more \in Seq(Segment) /\ Len(more) = n + 1
      /\ more[n + 1] = seg /\ \A i \in 1..n : more[i] = segs[i]
  BY AppendProperties
<1>3. PICK sum \in [0..n -> Nat] :
        /\ sum[0] = 0 /\ \A k \in 1..n : sum[k] = sum[k - 1] + segs[k].size
        /\ Bytes(segs) = sum[n]
  BY SumOfSizes
<1> HIDE DEF more
<1>4. PICK sum2 \in [0..n + 1 -> Nat] :
        /\ sum2[0] = 0 /\ \A k \in 1..n + 1 : sum2[k] = sum2[k - 1] + more[k].size
        /\ Bytes(more) = sum2[n + 1]
  BY <1>2, SumOfSizes
<1> DEFINE P == {k \in Nat : k <= n => sum[k] = sum2[k]}
<1> HIDE DEF n
<1>5. \A k \in Nat : k <= n => sum[k] = sum2[k]
  <2>1. 0 \in P
    BY <1>3, <1>4
  <2>2. ASSUME NEW k \in P PROVE k + 1 \in P
    <3> SUFFICES ASSUME k + 1 <= n PROVE sum[k + 1] = sum2[k + 1]
      OBVIOUS
    <3>1. k \in Nat /\ k <= n /\ k + 1 \in 1..n /\ k + 1 \in 1..n + 1 /\ (k + 1) - 1 = k
      BY <1>1
    <3>2. sum[k] = sum2[k]
      BY <3>1
    <3>3. sum[k + 1] = sum[k] + segs[k + 1].size /\ sum2[k + 1] = sum2[k] + more[k + 1].size
      BY <1>3, <1>4, <3>1
    <3> QED BY <1>2, <3>1, <3>2, <3>3
  <2> HIDE DEF P
  <2>3. P \in SUBSET Nat
    BY DEF P
  <2>4. P = Nat
    BY <2>1, <2>2, <2>3, Induction
  <2> QED BY <2>4 DEF P
<1>6. Bytes(more) = Bytes(segs) + seg.size
  <2>1. n + 1 \in 1..n + 1 /\ (n + 1) - 1 = n /\ n <= n
    BY <1>1
  <2>2. sum2[n + 1] = sum2[n] + seg.size
    BY <1>2, <1>4, <2>1
  <2> QED BY <1>1, <1>3, <1>4, <1>5, <2>1, <2>2
<1>7. Bytes(segs) \in Nat
  BY <1>1, <1>3
<1>8. Bytes(<<>>) = 0
  <2>1. <<>> \in Seq(Segment) /\ Len(<<>>) = 0
    BY EmptySeq
  <2>2. PICK none \in [0..0 -> Nat] : none[0] = 0 /\ Bytes(<<>>) = none[0]
    BY <2>1, SumOfSizes
  <2> QED BY <2>2
<1> QED BY <1>6, <1>7, <1>8 DEF more

-----------------------------------------------------------------------------
(* Sequences of events. *)

\* The numbers of events are natural numbers.
LEMMA NumbersOf ==
  ASSUME NEW q \in Seq(Event)
  PROVE  /\ Len(q) \in Nat /\ Numbers(q) \subseteq Nat
         /\ \A i \in 1..Len(q) : q[i] \in Event /\ q[i].n \in Numbers(q)
<1>1. Len(q) \in Nat
  BY LenProperties
<1>2. \A i \in 1..Len(q) : q[i] \in Event
  BY ElementOfSeq
<1> QED BY <1>1, <1>2 DEF Numbers, Event

\* Of no events there is nothing to order.
LEMMA NoEvents ==
  <<>> \in Seq(Event) /\ Numbers(<<>>) = {} /\ Increasing(<<>>)
<1>1. Len(<<>>) = 0 /\ <<>> \in Seq(Event)
  BY EmptySeq
<1> QED BY <1>1 DEF Numbers, Increasing

\* Two sequences one after the other.
LEMMA Joined ==
  ASSUME NEW p \in Seq(Event), NEW q \in Seq(Event)
  PROVE  /\ p \o q \in Seq(Event)
         /\ Numbers(p \o q) = Numbers(p) \union Numbers(q)
         /\ Increasing(p) /\ Increasing(q) /\ Less(Numbers(p), Numbers(q)) =>
              Increasing(p \o q)
         /\ p # <<>> => p \o q # <<>> /\ (p \o q)[1] = p[1]
<1> DEFINE pq == p \o q
<1>1. /\ pq \in Seq(Event) /\ Len(pq) = Len(p) + Len(q)
      /\ \A i \in 1..Len(p) + Len(q) : pq[i] = IF i <= Len(p) THEN p[i] ELSE q[i - Len(p)]
  BY ConcatProperties
<1>2. Len(p) \in Nat /\ Len(q) \in Nat
  BY LenProperties
<1> HIDE DEF pq
<1>3. \A i \in 1..Len(p) : i \in 1..Len(pq) /\ pq[i] = p[i]
  BY <1>1, <1>2
<1>4. ASSUME NEW i \in 1..Len(q)
      PROVE  Len(p) + i \in 1..Len(pq) /\ pq[Len(p) + i] = q[i]
  <2>1. /\ Len(p) + i \in 1..Len(p) + Len(q) /\ ~(Len(p) + i <= Len(p))
        /\ (Len(p) + i) - Len(p) = i
    BY <1>2
  <2> QED BY <1>1, <2>1
<1>5. \A i \in 1..Len(pq) : \/ i \in 1..Len(p) /\ pq[i] = p[i]
                            \/ i - Len(p) \in 1..Len(q) /\ pq[i] = q[i - Len(p)]
  BY <1>1, <1>2
<1>6. Numbers(pq) = Numbers(p) \union Numbers(q)
  <2>1. Numbers(pq) \subseteq Numbers(p) \union Numbers(q)
    BY <1>5 DEF Numbers
  <2>2. Numbers(p) \subseteq Numbers(pq)
    BY <1>3 DEF Numbers
  <2>3. Numbers(q) \subseteq Numbers(pq)
    BY <1>4 DEF Numbers
  <2> QED BY <2>1, <2>2, <2>3
<1>7. ASSUME Increasing(p), Increasing(q), Less(Numbers(p), Numbers(q))
      PROVE  Increasing(pq)
  <2> SUFFICES ASSUME NEW i \in 1..Len(pq), NEW j \in 1..Len(pq), i < j
               PROVE  pq[i].n < pq[j].n
    BY DEF Increasing
  <2>1. CASE i \in 1..Len(p) /\ j \in 1..Len(p)
    BY <1>3, <1>7, <2>1 DEF Increasing
  <2>2. CASE i \in 1..Len(p) /\ j - Len(p) \in 1..Len(q)
    <3>1. pq[i] = p[i] /\ pq[j] = q[j - Len(p)]
      BY <1>1, <1>2, <2>2
    <3>2. p[i].n \in Numbers(p) /\ q[j - Len(p)].n \in Numbers(q)
      BY <2>2 DEF Numbers
    <3> QED BY <1>7, <3>1, <3>2 DEF Less
  <2>3. CASE i - Len(p) \in 1..Len(q) /\ j - Len(p) \in 1..Len(q)
    <3>1. pq[i] = q[i - Len(p)] /\ pq[j] = q[j - Len(p)] /\ i - Len(p) < j - Len(p)
      BY <1>1, <1>2, <2>3
    <3> QED BY <1>7, <2>3, <3>1 DEF Increasing
  <2>4. ~(i - Len(p) \in 1..Len(q) /\ j \in 1..Len(p))
    BY <1>2
  <2> QED BY <1>5, <2>1, <2>2, <2>3, <2>4
<1>8. ASSUME p # <<>> PROVE pq # <<>> /\ pq[1] = p[1]
  <2>1. Len(p) # 0
    BY <1>8, EmptySeq
  <2>2. 1 \in 1..Len(p)
    BY <1>2, <2>1
  <2>3. Len(pq) # 0
    BY <1>1, <1>2, <2>1
  <2> QED BY <1>3, <2>2, <2>3, EmptySeq
<1> QED BY <1>1, <1>6, <1>7, <1>8 DEF pq

\* A prefix and what follows it.
LEMMA Cut ==
  ASSUME NEW q \in Seq(Event), NEW k \in Nat
  PROVE  /\ First(q, k) \in Seq(Event) /\ From(q, k + 1) \in Seq(Event)
         /\ Numbers(First(q, k)) \subseteq Numbers(q)
         /\ Numbers(From(q, k + 1)) \subseteq Numbers(q)
         /\ Increasing(q) => /\ Increasing(First(q, k)) /\ Increasing(From(q, k + 1))
                             /\ Less(Numbers(First(q, k)), Numbers(From(q, k + 1)))
         /\ q # <<>> /\ k > 0 => First(q, k) # <<>> /\ First(q, k)[1] = q[1]
<1>1. Len(q) \in Nat
  BY LenProperties
<1> DEFINE m == Minimum(k, Len(q))
           a == First(q, k)
           b == From(q, k + 1)
<1>2. m \in 0..Len(q) /\ (k >= Len(q) => m = Len(q)) /\ (k < Len(q) => m = k)
  BY <1>1 DEF Minimum
<1>3. a \in Seq(Event) /\ Len(a) = m /\ \A i \in 1..m : a[i] = q[i]
  BY <1>1, <1>2, SubSeqProperties DEF First
<1>4. /\ b \in Seq(Event) /\ Len(b) = Len(q) - m
      /\ \A i \in 1..Len(q) - m : b[i] = q[m + i]
  <2>1. CASE k < Len(q)
    BY <1>1, <1>2, <2>1, SubSeqProperties DEF From
  <2>2. CASE k >= Len(q)
    <3>1. b = <<>>
      BY <1>1, <2>2, SubSeqEmpty DEF From
    <3>2. b \in Seq(Event) /\ Len(b) = 0
      BY <3>1, EmptySeq
    <3>3. m = Len(q) /\ 1..Len(q) - m = {}
      BY <1>1, <1>2, <2>2
    <3> HIDE DEF m, b
    <3> QED BY <1>1, <3>2, <3>3
  <2> QED BY <1>1, <2>1, <2>2 DEF m, b
<1> HIDE DEF m, a, b
<1>5. Numbers(a) \subseteq Numbers(q)
  BY <1>1, <1>2, <1>3 DEF Numbers
<1>6. Numbers(b) \subseteq Numbers(q)
  <2> SUFFICES ASSUME NEW i \in 1..Len(b) PROVE b[i].n \in Numbers(q)
    BY DEF Numbers
  <2>1. b[i] = q[m + i] /\ m + i \in 1..Len(q)
    BY <1>1, <1>2, <1>4
  <2> QED BY <2>1 DEF Numbers
<1>7. ASSUME Increasing(q)
      PROVE  Increasing(a) /\ Increasing(b) /\ Less(Numbers(a), Numbers(b))
  <2>1. Increasing(a)
    BY <1>1, <1>2, <1>3, <1>7 DEF Increasing
  <2>2. Increasing(b)
    <3> SUFFICES ASSUME NEW i \in 1..Len(b), NEW j \in 1..Len(b), i < j
                 PROVE  b[i].n < b[j].n
      BY DEF Increasing
    <3>1. m + i \in 1..Len(q) /\ m + j \in 1..Len(q) /\ m + i < m + j
      BY <1>1, <1>2, <1>4
    <3> QED BY <1>4, <1>7, <3>1 DEF Increasing
  <2>3. ASSUME NEW i \in 1..Len(a), NEW j \in 1..Len(b) PROVE a[i].n < b[j].n
    <3>1. i \in 1..Len(q) /\ m + j \in 1..Len(q) /\ i < m + j
      BY <1>1, <1>2, <1>3, <1>4
    <3>2. a[i] = q[i] /\ b[j] = q[m + j]
      BY <1>2, <1>3, <1>4
    <3> QED BY <1>7, <3>1, <3>2 DEF Increasing
  <2> QED BY <2>1, <2>2, <2>3 DEF Less, Numbers
<1>8. ASSUME q # <<>>, k > 0 PROVE a # <<>> /\ a[1] = q[1]
  <2>1. Len(q) # 0
    BY <1>8, EmptySeq
  <2>2. m >= 1
    BY <1>1, <1>2, <1>8, <2>1
  <2> QED BY <1>2, <1>3, <2>2, EmptySeq
<1> QED BY <1>3, <1>4, <1>5, <1>6, <1>7, <1>8 DEF a, b

-----------------------------------------------------------------------------
(* EventsOf. *)

\* FlattenSeq puts the sequences one after the other.
LEMMA Flattened ==
  ASSUME NEW seqs \in Seq(Seq(Event)), seqs # <<>>
  PROVE  \E f \in [1..Len(seqs) -> Seq(Event)] :
           /\ f[1] = seqs[1] /\ \A i \in 2..Len(seqs) : f[i] = f[i - 1] \o seqs[i]
           /\ FlattenSeq(seqs) = f[Len(seqs)]
<1> DEFINE n == Len(seqs)
           body(f) == [i \in 1..Len(seqs) |-> IF i = 1 THEN seqs[i] ELSE f[i - 1] \o seqs[i]]
           step == [x \in Nat \X Seq(Event) |-> IF x[1] + 1 \in 1..n THEN x[2] \o seqs[x[1] + 1]
                                                ELSE <<>>]
<1>1. n \in Nat /\ n >= 1 /\ \A k \in 1..n : seqs[k] \in Seq(Event)
  <2>1. n \in Nat /\ n # 0
    BY LenProperties, EmptySeq
  <2>2. \A k \in 1..n : seqs[k] \in Seq(Event)
    BY ElementOfSeq
  <2> QED BY <2>1, <2>2
<1>2. step \in [Nat \X Seq(Event) -> Seq(Event)]
  <2> SUFFICES ASSUME NEW x \in Nat \X Seq(Event)
               PROVE  (IF x[1] + 1 \in 1..n THEN x[2] \o seqs[x[1] + 1] ELSE <<>>) \in Seq(Event)
    OBVIOUS
  <2>1. <<>> \in Seq(Event)
    BY EmptySeq
  <2>2. ASSUME x[1] + 1 \in 1..n PROVE x[2] \o seqs[x[1] + 1] \in Seq(Event)
    BY <1>1, <2>2, ConcatProperties
  <2> QED BY <2>1, <2>2
<1>3. PICK r \in [0..n - 1 -> Seq(Event)] :
        r[0] = seqs[1] /\ \A i \in 1..n - 1 : r[i] = step[<<i, r[i - 1]>>]
  <2>1. n - 1 \in Nat /\ seqs[1] \in Seq(Event)
    BY <1>1
  <2> HIDE DEF step, n
  <2>2. \E f : Iterates(f, n - 1, Seq(Event), seqs[1], step)
    BY <2>1, <1>2, Recursion
  <2> QED BY <2>2 DEF Iterates
<1>4. ASSUME NEW i \in 1..n - 1 PROVE r[i] = r[i - 1] \o seqs[i + 1]
  <2>1. i \in Nat /\ i - 1 \in 0..n - 1 /\ i + 1 \in 1..n
    BY <1>1
  <2>2. <<i, r[i - 1]>> \in Nat \X Seq(Event)
    BY <1>3, <2>1
  <2>3. r[i] = step[<<i, r[i - 1]>>]
    BY <1>3
  <2> QED BY <2>1, <2>2, <2>3
<1> DEFINE f == [i \in 1..n |-> r[i - 1]]
<1>5. f = body(f)
  <2> SUFFICES ASSUME NEW i \in 1..n
               PROVE  f[i] = IF i = 1 THEN seqs[i] ELSE f[i - 1] \o seqs[i]
    BY DEF f
  <2>1. CASE i = 1
    BY <1>3, <2>1
  <2>2. CASE i # 1
    <3>1. i - 1 \in 1..n - 1 /\ i - 1 \in 1..n /\ (i - 1) + 1 = i
      BY <1>1, <2>2
    <3>2. f[i] = r[i - 1] /\ f[i - 1] = r[(i - 1) - 1]
      BY <3>1
    <3> HIDE DEF f
    <3> QED BY <1>4, <2>2, <3>1, <3>2
  <2> QED BY <2>1, <2>2
<1> DEFINE flatten == CHOOSE g : g = body(g)
<1>6. flatten = body(flatten)
  BY <1>5
<1>7. FlattenSeq(seqs) = flatten[n]
  BY <1>1 DEF FlattenSeq
<1> HIDE DEF flatten
<1>8. flatten = [i \in 1..n |-> IF i = 1 THEN seqs[i] ELSE flatten[i - 1] \o seqs[i]]
  BY <1>6
<1> HIDE DEF n
<1>9. flatten[1] = seqs[1] /\ \A i \in 2..n : flatten[i] = flatten[i - 1] \o seqs[i]
  <2>1. 1 \in 1..n
    BY <1>1
  <2>2. flatten[1] = seqs[1]
    BY <1>8, <2>1
  <2>3. ASSUME NEW i \in 2..n PROVE flatten[i] = flatten[i - 1] \o seqs[i]
    <3>1. i \in 1..n /\ i # 1
      BY <1>1
    <3> QED BY <1>8, <3>1
  <2> QED BY <2>2, <2>3
<1> DEFINE P == {k \in Nat : k + 1 <= n => flatten[k + 1] \in Seq(Event)}
<1>10. \A k \in Nat : k + 1 <= n => flatten[k + 1] \in Seq(Event)
  <2>1. 0 \in P
    BY <1>1, <1>9
  <2>2. ASSUME NEW k \in P PROVE k + 1 \in P
    <3> SUFFICES ASSUME (k + 1) + 1 <= n PROVE flatten[(k + 1) + 1] \in Seq(Event)
      OBVIOUS
    <3>1. k \in Nat /\ k + 1 <= n /\ (k + 1) + 1 \in 2..n /\ (k + 1) + 1 \in 1..n
          /\ ((k + 1) + 1) - 1 = k + 1
      BY <1>1
    <3>2. flatten[k + 1] \in Seq(Event) /\ seqs[(k + 1) + 1] \in Seq(Event)
      BY <1>1, <3>1
    <3>3. flatten[(k + 1) + 1] = flatten[k + 1] \o seqs[(k + 1) + 1]
      BY <1>9, <3>1
    <3> QED BY <3>2, <3>3, ConcatProperties
  <2> HIDE DEF P
  <2>3. P \in SUBSET Nat
    BY DEF P
  <2>4. P = Nat
    BY <2>1, <2>2, <2>3, Induction
  <2> QED BY <2>4 DEF P
<1>11. ASSUME NEW i \in 1..n PROVE flatten[i] \in Seq(Event)
  <2>1. i - 1 \in Nat /\ (i - 1) + 1 = i /\ i <= n
    BY <1>1
  <2> QED BY <1>10, <2>1
<1>12. flatten \in [1..n -> Seq(Event)]
  BY <1>8, <1>11
<1> QED BY <1>7, <1>9, <1>12 DEF n

\* The events of segments that follow each other.
LEMMA EventsOfSegments ==
  ASSUME NEW segs \in Seq(Segment),
         \A i \in 1..Len(segs) : Increasing(segs[i].events),
         \A i, j \in 1..Len(segs) :
           i < j => Less(Numbers(segs[i].events), Numbers(segs[j].events))
  PROVE  /\ EventsOf(segs) \in Seq(Event) /\ Increasing(EventsOf(segs))
         /\ \A n \in Numbers(EventsOf(segs)) :
              \E i \in 1..Len(segs) : n \in Numbers(segs[i].events)
         /\ segs # <<>> /\ segs[1].events # <<>> => EventsOf(segs) # <<>>
<1> DEFINE n == Len(segs)
           seqs == [i \in 1..Len(segs) |-> segs[i].events]
<1>1. n \in Nat /\ \A i \in 1..n : segs[i].events \in Seq(Event)
  <2>1. n \in Nat
    BY LenProperties
  <2>2. ASSUME NEW i \in 1..n PROVE segs[i].events \in Seq(Event)
    <3>1. segs[i] \in Segment
      BY ElementOfSeq
    <3> QED BY <3>1 DEF Segment
  <2> QED BY <2>1, <2>2
<1>2. seqs \in Seq(Seq(Event)) /\ Len(seqs) = n /\ \A i \in 1..n : seqs[i] = segs[i].events
  <2>1. seqs \in [1..n -> Seq(Event)]
    BY <1>1
  <2> HIDE DEF n
  <2> QED BY <1>1, <2>1 DEF n
<1>3. EventsOf(segs) = FlattenSeq(seqs)
  BY DEF EventsOf
<1> HIDE DEF n, seqs
<1>4. CASE segs = <<>>
  <2>1. n = 0
    BY <1>4, EmptySeq DEF n
  <2>2. seqs = <<>>
    BY <1>2, <2>1, EmptySeq
  <2>3. FlattenSeq(seqs) = <<>>
    BY <1>2, <2>1, <2>2 DEF FlattenSeq
  <2> QED BY <1>3, <1>4, <2>3, NoEvents
<1>5. CASE segs # <<>>
  <2>1. n >= 1
    BY <1>1, <1>5, EmptySeq DEF n
  <2>2. seqs # <<>>
    BY <1>2, <2>1, EmptySeq
  <2>3. PICK f \in [1..n -> Seq(Event)] :
          /\ f[1] = seqs[1] /\ \A i \in 2..n : f[i] = f[i - 1] \o seqs[i]
          /\ FlattenSeq(seqs) = f[n]
    BY <1>2, <2>2, Flattened
  <2> DEFINE Upto(k) == /\ Increasing(f[k])
                        /\ \A m \in Numbers(f[k]) :
                             \E i \in 1..k : m \in Numbers(segs[i].events)
                        /\ segs[1].events # <<>> => f[k] # <<>>
             P == {k \in Nat : k + 1 <= n => Upto(k + 1)}
  <2>4. Upto(1)
    BY <1>1, <1>2, <2>1, <2>3 DEF n
  <2> HIDE DEF Upto
  <2>5. ASSUME NEW k \in 1..n, Upto(k), k + 1 \in 1..n PROVE Upto(k + 1)
    <3>1. f[k] \in Seq(Event) /\ segs[k + 1].events \in Seq(Event) /\ k \in Nat
      BY <1>1, <2>3, <2>5
    <3>2. f[k + 1] = f[k] \o segs[k + 1].events
      <4>1. k + 1 \in 2..n /\ (k + 1) - 1 = k
        BY <1>1, <2>5, <3>1
      <4> QED BY <1>2, <2>3, <2>5, <4>1
    <3>3. Less(Numbers(f[k]), Numbers(segs[k + 1].events))
      <4> SUFFICES ASSUME NEW a \in Numbers(f[k]), NEW b \in Numbers(segs[k + 1].events)
                   PROVE  a < b
        BY DEF Less
      <4>1. PICK i \in 1..k : a \in Numbers(segs[i].events)
        BY <2>5 DEF Upto
      <4>2. i \in 1..n /\ i < k + 1
        BY <1>1, <3>1
      <4>3. Less(Numbers(segs[i].events), Numbers(segs[k + 1].events))
        BY <2>5, <4>2 DEF n
      <4> QED BY <4>1, <4>3 DEF Less
    <3>4. Increasing(segs[k + 1].events)
      BY <2>5 DEF n
    <3>5. /\ Numbers(f[k + 1]) = Numbers(f[k]) \union Numbers(segs[k + 1].events)
          /\ Increasing(f[k + 1])
          /\ f[k] # <<>> => f[k + 1] # <<>>
      BY <2>5, <3>1, <3>2, <3>3, <3>4, Joined DEF Upto
    <3>6. 1..k \subseteq 1..k + 1 /\ k + 1 \in 1..k + 1
      BY <3>1
    <3>7. ASSUME NEW m \in Numbers(f[k + 1])
          PROVE  \E i \in 1..k + 1 : m \in Numbers(segs[i].events)
      <4>1. CASE m \in Numbers(f[k])
        BY <2>5, <3>6, <4>1 DEF Upto
      <4>2. CASE m \in Numbers(segs[k + 1].events)
        BY <3>6, <4>2
      <4> QED BY <3>5, <4>1, <4>2
    <3> QED BY <2>5, <3>5, <3>7 DEF Upto
  <2>6. 0 \in P
    BY <2>4
  <2>7. ASSUME NEW k \in P PROVE k + 1 \in P
    <3> SUFFICES ASSUME (k + 1) + 1 <= n PROVE Upto((k + 1) + 1)
      OBVIOUS
    <3>1. k \in Nat /\ k + 1 <= n /\ k + 1 \in 1..n /\ (k + 1) + 1 \in 1..n
      BY <1>1
    <3> QED BY <2>5, <3>1
  <2> HIDE DEF P
  <2>8. P \in SUBSET Nat
    BY DEF P
  <2>9. P = Nat
    BY <2>6, <2>7, <2>8, Induction
  <2>10. Upto(n)
    <3>1. n - 1 \in P /\ (n - 1) + 1 = n
      BY <1>1, <2>1, <2>9
    <3> QED BY <3>1 DEF P
  <2>11. f[n] \in Seq(Event)
    BY <1>1, <2>1, <2>3
  <2> QED BY <1>3, <2>3, <2>10, <2>11 DEF Upto, n
<1> QED BY <1>4, <1>5

-----------------------------------------------------------------------------
(* Recording. *)

\* An event newer than a sequence of them is appended.
LEMMA Appended ==
  ASSUME NEW q \in Seq(Event), NEW e \in Event
  PROVE  /\ Append(q, e) \in Seq(Event)
         /\ Numbers(Append(q, e)) = Numbers(q) \union {e.n}
         /\ Increasing(q) /\ (\A n \in Numbers(q) : n < e.n) => Increasing(Append(q, e))
<1> DEFINE more == Append(q, e)
<1>1. Len(q) \in Nat
  BY LenProperties
<1>2. /\ more \in Seq(Event) /\ Len(more) = Len(q) + 1
      /\ more[Len(q) + 1] = e /\ \A i \in 1..Len(q) : more[i] = q[i]
  BY AppendProperties
<1> HIDE DEF more
<1>3. Numbers(more) = Numbers(q) \union {e.n}
  <2>1. \A i \in 1..Len(more) : i \in 1..Len(q) \/ i = Len(q) + 1
    BY <1>1, <1>2
  <2>2. 1..Len(q) \subseteq 1..Len(more) /\ Len(q) + 1 \in 1..Len(more)
    BY <1>1, <1>2
  <2> QED BY <1>2, <2>1, <2>2 DEF Numbers
<1>4. ASSUME Increasing(q), \A n \in Numbers(q) : n < e.n PROVE Increasing(more)
  <2> SUFFICES ASSUME NEW i \in 1..Len(more), NEW j \in 1..Len(more), i < j
               PROVE  more[i].n < more[j].n
    BY DEF Increasing
  <2>1. i \in 1..Len(q)
    BY <1>1, <1>2
  <2>2. CASE j \in 1..Len(q)
    BY <1>2, <1>4, <2>1, <2>2 DEF Increasing
  <2>3. CASE j = Len(q) + 1
    BY <1>2, <1>4, <2>1, <2>3 DEF Numbers
  <2> QED BY <1>1, <1>2, <2>2, <2>3
<1> QED BY <1>2, <1>3, <1>4 DEF more

\* An event is pushed.
LEMMA Pushed ==
  ASSUME NEW s \in Client, NEW full \in BOOLEAN,
         Increasing(s.buffer), Numbers(s.buffer) \subseteq 1..s.events
  PROVE  /\ Push(s, full) \in Client
         /\ Grows(Push(s, full), s) /\ SameReplay(Push(s, full), s)
         /\ Push(s, full).buffer # <<>> /\ Push(s, full).events > s.events
         /\ Push(s, full).recorder = s.recorder /\ Push(s, full).linkable = s.linkable
         /\ Push(s, full).uploading = s.uploading
<1> DEFINE e == [n |-> s.events + 1, full |-> full]
           t == Push(s, full)
<1>1. s.events \in Nat /\ s.buffer \in Seq(Event) /\ e \in Event
  BY DEF Client, Event
<1> HIDE DEF e
<1>2. /\ Append(s.buffer, e) \in Seq(Event) /\ Increasing(Append(s.buffer, e))
      /\ Numbers(Append(s.buffer, e)) = Numbers(s.buffer) \union {s.events + 1}
  <2>1. e.n = s.events + 1
    BY DEF e
  <2>2. \A n \in Numbers(s.buffer) : n < e.n
    BY <1>1, <2>1
  <2> QED BY <1>1, <2>1, <2>2, Appended
<1>3. t = [s EXCEPT !.events = s.events + 1, !.buffer = Append(s.buffer, e)]
  BY DEF Push, e
<1> HIDE DEF t
<1>4. t \in Client
  <2>1. s.events + 1 \in Nat /\ Append(s.buffer, e) \in Seq(Event)
    BY <1>1, <1>2
  <2> QED BY <1>3, <2>1 DEF Client
<1>5. t.events = s.events + 1 /\ t.buffer = Append(s.buffer, e)
  BY <1>3 DEF Client
<1>6. Grows(t, s)
  BY <1>1, <1>2, <1>5 DEF Grows
<1>7. t.buffer # <<>>
  BY <1>1, <1>5, AppendProperties
<1>8. /\ SameReplay(t, s) /\ t.recorder = s.recorder /\ t.linkable = s.linkable
      /\ t.uploading = s.uploading
  BY <1>3 DEF Client, SameReplay
<1> QED BY <1>1, <1>4, <1>5, <1>6, <1>7, <1>8 DEF t

\* takeFullSnapshot keeps what an upload task relies on.
LEMMA CheckoutKeeps ==
  ASSUME NEW s, NEW sv \in Table, NEW p, Loose(s, sv, p)
  PROVE  /\ Loose(Checkout(s), sv, p) /\ Grows(Checkout(s), s)
         /\ SameReplay(Checkout(s), s) /\ Checkout(s).uploading = s.uploading
         /\ Checkout(s).recorder = s.recorder /\ Checkout(s).linkable = s.linkable
         /\ s.recorder # "on" => Checkout(s) = s
<1> DEFINE t == Checkout(s)
<1>1. s \in Client /\ s.events \in Nat /\ Increasing(s.buffer)
      /\ Numbers(s.buffer) \subseteq 1..s.events
  BY DEF Loose, Client, Pending, Fresh
<1>2. CASE s.recorder # "on"
  BY <1>1, <1>2 DEF Checkout, Grows, SameReplay
<1>3. CASE s.recorder = "on"
  <2>1. t = Push(s, TRUE)
    BY <1>3 DEF Checkout
  <2>2. /\ t \in Client /\ Grows(t, s) /\ SameReplay(t, s)
        /\ t.recorder = s.recorder /\ t.linkable = s.linkable /\ t.uploading = s.uploading
    BY <1>1, <2>1, Pushed
  <2>3. t.events \in Nat
    BY <2>2 DEF Client
  <2> HIDE DEF t
  <2>4. Pending(t.buffer, t, sv) /\ \A r \in DOMAIN sv : sv[r].last <= t.events
    <3>1. \A r \in DOMAIN sv : sv[r].last \in Nat
      BY DEF Table, Replay
    <3> QED BY <1>1, <2>2, <2>3, <3>1 DEF Loose, Pending, Fresh, Grows
  <2>5. p.holds = 0 => Believes(t, sv)
    BY <1>3, <2>2 DEF Loose, Believes, SameReplay
  <2>6. Loose(t, sv, p)
    BY <2>2, <2>4, <2>5 DEF Loose
  <2> QED BY <1>3, <2>2, <2>6 DEF t
<1> QED BY <1>2, <1>3

\* A task that resolves leaves the replay as it is.
LEMMA DoneSettles ==
  ASSUME NEW s, NEW sv, NEW p, Ready(s, sv, p)
  PROVE  Settled(Done(s), sv, p)
<1> DEFINE t == Done(s)
<1>1. s \in Client /\ Idle \in Run
  BY EmptySeq DEF Ready, Loose, Run, Idle, Step, Kind
<1>2. t \in Client
  <2>1. s.linking \in Nat /\ (IF s.run.awaited THEN s.linking + 1 ELSE s.linking) \in Nat
    BY <1>1 DEF Client
  <2> QED BY <1>1, <2>1 DEF Done, Client
<1>3. /\ t.run = Idle /\ \A f \in DOMAIN s \ {"run", "linking"} : t[f] = s[f]
      /\ t.buffer = s.buffer /\ t.events = s.events /\ t.rid = s.rid /\ t.started = s.started
      /\ t.finished = s.finished /\ t.index = s.index /\ t.linkable = s.linkable
      /\ t.recorder = s.recorder /\ t.sampled = s.sampled /\ t.uploading = s.uploading
  BY <1>1 DEF Done, Client
<1> QED
  BY <1>2, <1>3 DEF Ready, Loose, Settled, Good, InOrder, Pending, Fresh, Sound, Believes, Reopens, AtItsStep, Idle

\* A new replay begins in the buffer, unknown to the server.
LEMMA ResetReady ==
  ASSUME NEW s, NEW sv \in Table, NEW p, Loose(s, sv, p)
  PROVE  Ready(Reset(s), sv, p) /\ Reset(s).run = s.run
<1> DEFINE u == [s EXCEPT !.timer = FALSE, !.uploading = FALSE, !.started = FALSE,
                          !.finished = FALSE, !.index = 0, !.bytes = 0,
                          !.deadline = "none", !.rid = @ + 1, !.buffer = <<>>]
<1>1. s \in Client /\ s.rid \in Nat
  BY DEF Loose, Client
<1>2. u \in Client
  <2>1. s.rid + 1 \in Nat /\ <<>> \in Seq(Event) /\ 0 \in Nat
    BY <1>1, NoEvents
  <2> QED BY <1>1, <2>1 DEF Client
<1>3. /\ u.buffer = <<>> /\ u.rid = s.rid + 1 /\ ~u.started /\ ~u.finished /\ u.index = 0
      /\ ~u.uploading /\ u.events = s.events /\ u.linkable = s.linkable /\ u.run = s.run
      /\ u.recorder = s.recorder /\ u.sampled = s.sampled
  BY <1>1 DEF Client
<1>4. Reset(s) = Checkout(u)
  BY DEF Reset
<1> HIDE DEF u
<1>5. Pending(u.buffer, u, sv) /\ \A r \in DOMAIN sv : sv[r].last <= u.events
  BY <1>3, NoEvents DEF Loose, Pending
<1>6. ASSUME p.holds = 0 PROVE Believes(u, sv)
  <2>1. \A r \in DOMAIN sv : r \in Nat /\ r <= s.rid
    BY <1>6 DEF Loose, Believes, Table
  <2>2. \A r \in DOMAIN sv : r < u.rid
    BY <1>1, <1>3, <2>1
  <2>3. On(sv, u.rid) = Unknown
    BY <1>1, <1>3, <2>1, <2>2 DEF On
  <2>4. \A r \in DOMAIN sv : r <= u.rid
    BY <1>1, <1>3, <2>1
  <2> QED BY <1>3, <1>6, <2>3, <2>4 DEF Loose, Believes, Unknown
<1>7. Loose(u, sv, p)
  BY <1>2, <1>3, <1>5, <1>6 DEF Loose
<1> QED BY <1>3, <1>4, <1>7, CheckoutKeeps DEF Ready, Reopens, SameReplay

\* What ends uploading makes good that the server may have finished the replay.
LEMMA StopReady ==
  ASSUME NEW s, NEW sv \in Table, NEW p, Loose(s, sv, p)
  PROVE  Ready(Stop(s), sv, p) /\ Stop(s).run = s.run
<1> DEFINE t == [s EXCEPT !.uploading = FALSE, !.timer = FALSE]
<1>1. CASE ~s.sampled
  BY <1>1, ResetReady DEF Stop
<1>2. CASE s.sampled
  <2>1. s \in Client
    BY DEF Loose
  <2>2. Stop(s) = t
    BY <1>2 DEF Stop
  <2>3. t \in Client
    BY <2>1 DEF Client
  <2>4. /\ t.buffer = s.buffer /\ t.rid = s.rid /\ t.started = s.started
        /\ t.finished = s.finished /\ t.index = s.index /\ t.linkable = s.linkable
        /\ t.events = s.events /\ t.recorder = s.recorder /\ t.sampled = s.sampled
        /\ t.run = s.run /\ ~t.uploading
    BY <2>1 DEF Client
  <2> HIDE DEF t
  <2> QED
    BY <1>2, <2>2, <2>3, <2>4
    DEF Loose, Ready, Pending, Fresh, Believes, Reopens
<1> QED BY <1>1, <1>2

-----------------------------------------------------------------------------
(* The ends of a task. *)

\* What follows the finish request a task ends with.
LEMMA EndsWithStop ==
  ASSUME NEW s, NEW sv \in Table, NEW p, Loose(s, sv, p)
  PROVE  Settled(AfterEnd(s), sv, p)
BY ResetReady, StopReady, DoneSettles DEF AfterEnd

\* finishOnServer and abortUnusableClip wait for their request.
LEMMA Finishes ==
  ASSUME NEW s, NEW sv \in Table, NEW p, Ready(s, sv, p), Unfinished(s),
         NEW then \in {"end", "limit"}
  PROVE  Settled(Finishing(s, then), sv, p)
<1> DEFINE t == Finishing(s, then)
           linkable == IF s.index > 0 THEN s.rid ELSE s.linkable
           run == [s.run EXCEPT !.step = "finishing", !.then = then, !.rid = s.rid]
<1>1. s \in Client /\ s.run \in Run /\ s.rid \in Nat /\ linkable \in Nat
  BY DEF Ready, Loose, Client
<1>2. t = [s EXCEPT !.linkable = linkable, !.run = run]
  BY <1>1 DEF Finishing, Client, Run
<1>3. run \in Run /\ run.step = "finishing" /\ run.rid = s.rid
  BY <1>1 DEF Run, Step
<1> HIDE DEF t, run, linkable
<1>4. t \in Client
  BY <1>1, <1>2, <1>3 DEF Client
<1>5. /\ t.buffer = s.buffer /\ t.rid = s.rid /\ t.started = s.started
      /\ t.finished = s.finished /\ t.index = s.index /\ t.linkable = linkable
      /\ t.events = s.events /\ t.recorder = s.recorder /\ t.sampled = s.sampled
      /\ t.run = run /\ t.uploading = s.uploading
  BY <1>1, <1>2 DEF Client
<1>6. p.holds = 0 => Believes(t, sv)
  <2> SUFFICES ASSUME p.holds = 0 PROVE Believes(t, sv)
    OBVIOUS
  <2>1. Believes(s, sv)
    BY DEF Ready, Loose
  <2>2. linkable # 0 => On(sv, linkable).segments > 0
    <3>1. CASE s.index > 0
      <4>1. On(sv, s.rid) \in Replay
        BY ZenonT(60) DEF On, Unknown, Replay, Table
      <4>2. s.index <= On(sv, s.rid).segments /\ s.index \in Nat
        BY <1>1, <2>1 DEF Believes, Client
      <4>3. On(sv, s.rid).segments \in Nat
        BY <4>1 DEF Replay
      <4>4. On(sv, s.rid).segments > 0
        BY <3>1, <4>2, <4>3
      <4> QED BY <3>1, <4>4 DEF linkable
    <3>2. CASE ~(s.index > 0)
      BY <2>1, <3>2 DEF Believes, linkable
    <3> QED BY <3>1, <3>2
  <2> QED BY <1>5, <2>1, <2>2 DEF Believes
<1>7. t.run.step = "finishing" /\ t.run.rid = t.rid /\ t.started
  BY <1>3, <1>5 DEF Unfinished
<1>8. InOrder(t, sv)
  BY <1>5, <1>7 DEF Ready, Loose, InOrder, Pending, Fresh
<1>9. p.holds = 0 => Sound(t, sv)
  BY <1>5, <1>6, <1>7 DEF Ready, Reopens, Sound, AtItsStep
<1> QED BY <1>4, <1>5, <1>7, <1>8, <1>9 DEF Settled, Good, Ready, Loose, t

\* A task ends, with a finish request if the replay is started.
LEMMA Ends ==
  ASSUME NEW s, NEW sv \in Table, NEW p, Ready(s, sv, p)
  PROVE  Settled(End(s), sv, p)
BY Finishes, EndsWithStop DEF End, Ready

\* What a task does after uploadPendingSegments.
LEMMA UploadEnds ==
  ASSUME NEW s, NEW sv \in Table, NEW p, Ready(s, sv, p)
  PROVE  Settled(AfterUpload(s), sv, p)
BY Ends, DoneSettles DEF AfterUpload

\* The same at a limit or after an abort, when uploading has stopped.
LEMMA StopEnds ==
  ASSUME NEW s, NEW sv \in Table, NEW p, Loose(s, sv, p)
  PROVE  Settled(AfterUpload(Stop(s)), sv, p)
BY StopReady, UploadEnds

\* A limit ends the replay.
LEMMA LimitEnds ==
  ASSUME NEW s, NEW sv \in Table, NEW p, Ready(s, sv, p)
  PROVE  Settled(FinishAtLimit(s), sv, p)
BY Finishes, StopEnds DEF FinishAtLimit, AfterLimit, Ready

\* What is in the buffer may be replaced by a part of what was pending.
LEMMA Rebuffered ==
  ASSUME NEW s, NEW sv, NEW p, Ready(s, sv, p),
         NEW buffer \in Seq(Event), Pending(buffer, s, sv)
  PROVE  Ready([s EXCEPT !.buffer = buffer], sv, p)
<1> DEFINE t == [s EXCEPT !.buffer = buffer]
<1>1. s \in Client
  BY DEF Ready, Loose
<1>2. t \in Client
  BY <1>1 DEF Client
<1>3. /\ t.buffer = buffer /\ t.rid = s.rid /\ t.started = s.started
      /\ t.finished = s.finished /\ t.index = s.index /\ t.linkable = s.linkable
      /\ t.events = s.events /\ t.recorder = s.recorder /\ t.sampled = s.sampled
      /\ t.run = s.run /\ t.uploading = s.uploading
  BY <1>1 DEF Client
<1> HIDE DEF t
<1>4. Ready(t, sv, p)
  BY <1>2, <1>3 DEF Ready, Loose, Pending, Fresh, Believes, Reopens
<1> QED BY <1>4 DEF t

\* abortUnusableClip drops the buffer and finishes what was started.
LEMMA AbortEnds ==
  ASSUME NEW s, NEW sv \in Table, NEW p, Ready(s, sv, p)
  PROVE  Settled(Abort(s), sv, p)
<1> DEFINE t == [s EXCEPT !.failed = TRUE, !.buffer = <<>>, !.linkable = 0]
           run == [t.run EXCEPT !.step = "aborting", !.rid = t.rid]
           u == [t EXCEPT !.run = run]
<1>1. s \in Client
  BY DEF Ready, Loose
<1>2. t \in Client
  BY <1>1, NoEvents DEF Client
<1>3. /\ t.buffer = <<>> /\ t.rid = s.rid /\ t.started = s.started
      /\ t.finished = s.finished /\ t.index = s.index /\ t.linkable = 0
      /\ t.events = s.events /\ t.recorder = s.recorder /\ t.sampled = s.sampled
      /\ t.run = s.run /\ t.uploading = s.uploading
  BY <1>1 DEF Client
<1>4. Abort(s) = IF Unfinished(t) THEN [t EXCEPT !.run.step = "aborting", !.run.rid = t.rid]
                                  ELSE AfterUpload(Stop(t))
  BY DEF Abort, AfterAbort
<1> HIDE DEF t
<1>5. Ready(t, sv, p)
  BY <1>2, <1>3, NoEvents DEF Ready, Loose, Pending, Fresh, Believes, Reopens
<1>6. CASE ~Unfinished(t)
  BY <1>4, <1>5, <1>6, StopEnds DEF Ready
<1>7. CASE Unfinished(t)
  <2>1. run \in Run /\ run.step = "aborting" /\ run.rid = t.rid
    <3>1. t.run \in Run /\ t.rid \in Nat
      BY <1>2 DEF Client
    <3> QED BY <3>1 DEF Run, Step
  <2>2. Abort(s) = u
    BY <1>2, <1>4, <1>7 DEF Client, Run
  <2> HIDE DEF run
  <2>3. u \in Client
    BY <1>2, <2>1 DEF Client
  <2>4. /\ u.buffer = t.buffer /\ u.rid = t.rid /\ u.started = t.started
        /\ u.finished = t.finished /\ u.index = t.index /\ u.linkable = t.linkable
        /\ u.events = t.events /\ u.recorder = t.recorder /\ u.sampled = t.sampled
        /\ u.run = run /\ u.uploading = t.uploading
    BY <1>2 DEF Client
  <2> HIDE DEF u
  <2>5. InOrder(u, sv)
    BY <1>5, <2>1, <2>4 DEF Ready, Loose, InOrder, Pending, Fresh
  <2>6. p.holds = 0 => Sound(u, sv)
    BY <1>5, <1>7, <2>1, <2>4 DEF Ready, Loose, Believes, Reopens, Sound, AtItsStep, Unfinished
  <2> QED BY <1>5, <2>1, <2>2, <2>3, <2>4, <2>5, <2>6 DEF Settled, Good, Ready, Loose
<1> QED BY <1>6, <1>7

-----------------------------------------------------------------------------
(* Packing and posting. *)

\* What is packed first, now or next, begins with a paint base.
PaintFirst(s) ==
  s.index = 0 /\ s.run.segs # <<>> => StartsWithFull(s.run.segs[1].events)

Packing(s, sv, p) ==
  /\ Ready(s, sv, p) /\ SegsPending(s, sv)
  /\ p.holds = 0 => Open(s, sv) /\ Numbered(s) /\ PaintFirst(s) /\ Budgeted(s)

\* The packed segments are posted, or there are none to post.
LEMMA PostSettles ==
  ASSUME NEW s, NEW sv \in Table, NEW p, Packing(s, sv, p)
  PROVE  Settled(Post(s), sv, p)
<1>1. CASE s.run.segs = <<>>
  BY <1>1, LimitEnds, UploadEnds DEF Post, Packing
<1>2. CASE s.run.segs # <<>>
  <2> DEFINE run == [s.run EXCEPT !.step = "uploading", !.rid = s.rid]
             t == [s EXCEPT !.run = run]
  <2>1. s \in Client /\ s.run \in Run /\ s.rid \in Nat
    BY DEF Packing, Ready, Loose, Client
  <2>2. Post(s) = t
    BY <1>2, <2>1 DEF Post, Client, Run
  <2>3. run \in Run /\ run.step = "uploading" /\ run.rid = s.rid /\ run.segs = s.run.segs
    BY <2>1 DEF Run, Step
  <2> HIDE DEF run
  <2>4. t \in Client
    BY <2>1, <2>3 DEF Client
  <2>5. /\ t.buffer = s.buffer /\ t.rid = s.rid /\ t.started = s.started
        /\ t.finished = s.finished /\ t.index = s.index /\ t.linkable = s.linkable
        /\ t.events = s.events /\ t.recorder = s.recorder /\ t.sampled = s.sampled
        /\ t.run = run /\ t.uploading = s.uploading /\ t.bytes = s.bytes
    BY <2>1 DEF Client
  <2> HIDE DEF t
  <2>6. InOrder(t, sv)
    BY <2>3, <2>5
    DEF Packing, Ready, Loose, InOrder, SegsPending, Pending, Fresh
  <2>7. ASSUME p.holds = 0 PROVE Sound(t, sv)
    <3>1. Believes(t, sv) /\ Reopens(t, sv)
      BY <2>5, <2>7 DEF Packing, Ready, Loose, Believes, Reopens
    <3>2. Open(t, sv) /\ Numbered(t)
      BY <2>3, <2>5, <2>7 DEF Packing, Open, Numbered
    <3>3. Painted(t)
      BY <1>2, <2>3, <2>5, <2>7 DEF Packing, PaintFirst, Painted
    <3>4. Budgeted(t)
      BY <2>3, <2>5, <2>7 DEF Packing, Budgeted, MaxSegmentsAllowed, ClipMode
    <3> QED
      BY <2>3, <2>5, <3>1, <3>2, <3>3, <3>4 DEF Sound, AtItsStep, Packed
  <2> QED
    BY <1>2, <2>2, <2>3, <2>4, <2>5, <2>6, <2>7
    DEF Settled, Good, Packing, Ready, Loose
<1> QED BY <1>1, <1>2

\* The rest of the buffer is dropped: the budget of the clip is used up.
LEMMA OverPacking ==
  ASSUME NEW s, NEW sv \in Table, NEW p, Packing(s, sv, p)
  PROVE  Packing([s EXCEPT !.run.over = TRUE], sv, p)
<1> DEFINE run == [s.run EXCEPT !.over = TRUE]
           t == [s EXCEPT !.run.over = TRUE]
<1>1. s \in Client /\ s.run \in Run
  BY DEF Packing, Ready, Loose, Client
<1>2. t = [s EXCEPT !.run = run]
  BY <1>1 DEF Client, Run
<1>3. run \in Run /\ run.segs = s.run.segs
  BY <1>1 DEF Run
<1> HIDE DEF run, t
<1>4. t \in Client
  BY <1>1, <1>2, <1>3 DEF Client
<1>5. /\ t.buffer = s.buffer /\ t.rid = s.rid /\ t.started = s.started
      /\ t.finished = s.finished /\ t.index = s.index /\ t.linkable = s.linkable
      /\ t.events = s.events /\ t.recorder = s.recorder /\ t.sampled = s.sampled
      /\ t.run.segs = s.run.segs /\ t.uploading = s.uploading /\ t.bytes = s.bytes
  BY <1>1, <1>2, <1>3 DEF Client
<1>6. Ready(t, sv, p)
  BY <1>4, <1>5 DEF Packing, Ready, Loose, Pending, Fresh, Believes, Reopens
<1>7. SegsPending(t, sv)
  BY <1>5 DEF Packing, SegsPending, Pending, Fresh
<1>8. p.holds = 0 => Open(t, sv) /\ Numbered(t) /\ PaintFirst(t) /\ Budgeted(t)
  BY <1>5
  DEF Packing, Open, Numbered, PaintFirst, Budgeted, MaxSegmentsAllowed, ClipMode
<1> QED BY <1>6, <1>7, <1>8 DEF Packing, t

\* A chunk is taken from the buffer: the step waits for gzip.
LEMMA TakesChunk ==
  ASSUME NEW s, NEW sv \in Table, NEW p, Packing(s, sv, p), s.buffer # <<>>,
         NEW next \in Nat,
         p.holds = 0 =>
           /\ next = s.index + Len(s.run.segs) /\ next < MaxSegmentsAllowed(s)
           /\ s.index = 0 /\ s.run.segs = <<>> => StartsWithFull(s.buffer)
  PROVE  Settled([s EXCEPT !.run.step = "packing",
                           !.run.chunk = First(s.buffer, ChunkLen),
                           !.run.next = next,
                           !.buffer = From(s.buffer, ChunkLen + 1)], sv, p)
<1> DEFINE chunk == First(s.buffer, ChunkLen)
           rest == From(s.buffer, ChunkLen + 1)
           run == [s.run EXCEPT !.step = "packing", !.chunk = chunk, !.next = next]
           t == [s EXCEPT !.run.step = "packing", !.run.chunk = chunk,
                          !.run.next = next, !.buffer = rest]
<1>1. s \in Client /\ s.run \in Run /\ s.buffer \in Seq(Event) /\ s.index \in Nat
  BY DEF Packing, Ready, Loose, Client
<1>2. s.run.segs \in Seq(Segment)
  BY <1>1 DEF Run
<1>3. ChunkLen \in Nat /\ ChunkLen > 0
  BY ReplayUploadAssumption
<1>4. Increasing(s.buffer) /\ Numbers(s.buffer) \subseteq Fresh(s, sv)
  BY DEF Packing, Ready, Loose, Pending
<1>5. /\ chunk \in Seq(Event) /\ rest \in Seq(Event)
      /\ Numbers(chunk) \subseteq Numbers(s.buffer) /\ Numbers(rest) \subseteq Numbers(s.buffer)
      /\ Increasing(chunk) /\ Increasing(rest) /\ Less(Numbers(chunk), Numbers(rest))
      /\ chunk # <<>> /\ chunk[1] = s.buffer[1]
  BY <1>1, <1>3, <1>4, Cut
<1> HIDE DEF chunk, rest
<1>6. t = [s EXCEPT !.run = run, !.buffer = rest]
  BY <1>1 DEF Client, Run
<1>7. /\ run \in Run /\ run.step = "packing" /\ run.chunk = chunk /\ run.next = next
      /\ run.segs = s.run.segs
  BY <1>1, <1>2, <1>5 DEF Run, Step
<1> HIDE DEF run, t
<1>8. t \in Client
  BY <1>1, <1>5, <1>6, <1>7 DEF Client
<1>9. /\ t.buffer = rest /\ t.rid = s.rid /\ t.started = s.started
      /\ t.finished = s.finished /\ t.index = s.index /\ t.linkable = s.linkable
      /\ t.events = s.events /\ t.recorder = s.recorder /\ t.sampled = s.sampled
      /\ t.run = run /\ t.uploading = s.uploading /\ t.bytes = s.bytes
  BY <1>1, <1>6 DEF Client
<1>10. InOrder(t, sv)
  <2>1. Fresh(t, sv) = Fresh(s, sv)
    BY <1>9 DEF Fresh
  <2>2. Pending(t.buffer, t, sv) /\ \A r \in DOMAIN sv : sv[r].last <= t.events
    BY <1>4, <1>5, <1>9, <2>1 DEF Packing, Ready, Loose, Pending
  <2>3. SegsPending(t, sv)
    BY <1>5, <1>7, <1>9, <2>1 DEF Packing, SegsPending, Pending, Less
  <2>4. ChunkPending(t, sv)
    BY <1>4, <1>5, <1>7, <1>9, <2>1 DEF Packing, SegsPending, ChunkPending, Pending, Less
  <2> QED BY <2>2, <2>3, <2>4 DEF InOrder
<1>11. ASSUME p.holds = 0 PROVE Sound(t, sv)
  <2>1. Believes(t, sv) /\ Reopens(t, sv)
    BY <1>9, <1>11 DEF Packing, Ready, Loose, Believes, Reopens
  <2>2. Open(t, sv) /\ Numbered(t)
    BY <1>7, <1>9, <1>11 DEF Packing, Open, Numbered
  <2>3. Painted(t)
    BY <1>5, <1>7, <1>9, <1>11 DEF Packing, PaintFirst, Painted, StartsWithFull
  <2>4. Budgeted(t)
    BY <1>7, <1>9, <1>11 DEF Packing, Budgeted, MaxSegmentsAllowed, ClipMode
  <2>5. t.run.next = t.index + Len(t.run.segs) /\ t.run.next < MaxSegmentsAllowed(t)
    BY <1>7, <1>9, <1>11 DEF MaxSegmentsAllowed
  <2> QED
    BY <1>7, <1>9, <2>1, <2>2, <2>3, <2>4, <2>5 DEF Sound, AtItsStep, Packed
<1>12. Settled(t, sv, p)
  BY <1>7, <1>8, <1>9, <1>10, <1>11 DEF Settled, Good, Packing, Ready, Loose
<1> QED BY <1>12 DEF t, chunk, rest

\* The inner loop of packPendingSegments.
LEMMA PackSettles ==
  ASSUME NEW s, NEW sv \in Table, NEW p, Packing(s, sv, p),
         p.holds = 0 /\ s.index = 0 /\ s.run.segs = <<>> =>
           s.buffer = <<>> \/ StartsWithFull(s.buffer)
  PROVE  Settled(Pack(s), sv, p)
<1> DEFINE next == s.index + Len(s.run.segs)
<1>1. next \in Nat /\ MaxSegmentsAllowed(s) \in Nat
  <2>1. s.run.segs \in Seq(Segment) /\ s.index \in Nat
    BY DEF Packing, Ready, Loose, Client, Run
  <2>2. Len(s.run.segs) \in Nat
    BY <2>1, LenProperties
  <2> QED BY <2>1, <2>2, ReplayUploadAssumption, SMTT(30) DEF MaxSegmentsAllowed
<1>2. CASE s.buffer = <<>> \/ Len(s.run.segs) >= s.run.count \/ next >= MaxSegmentsAllowed(s)
  <2>1. Pack(s) = Post(s)
    BY <1>2 DEF Pack
  <2> QED BY <2>1, PostSettles
<1>3. CASE /\ ~(s.buffer = <<>> \/ Len(s.run.segs) >= s.run.count
                \/ next >= MaxSegmentsAllowed(s))
           /\ Exhausted(s, next, s.bytes + Bytes(s.run.segs))
  <2>1. Pack(s) = Post([s EXCEPT !.run.over = TRUE])
    BY <1>3 DEF Pack
  <2> QED BY <2>1, PostSettles, OverPacking
<1>4. CASE /\ ~(s.buffer = <<>> \/ Len(s.run.segs) >= s.run.count
                \/ next >= MaxSegmentsAllowed(s))
           /\ ~Exhausted(s, next, s.bytes + Bytes(s.run.segs))
  <2>1. Pack(s) = [s EXCEPT !.run.step = "packing",
                           !.run.chunk = First(s.buffer, ChunkLen),
                           !.run.next = next,
                           !.buffer = From(s.buffer, ChunkLen + 1)]
    <3>1. s \in Client
      BY DEF Packing, Ready, Loose
    <3> QED BY <1>4, <3>1 DEF Pack, Client
  <2>2. next \in Nat /\ next < MaxSegmentsAllowed(s)
    BY <1>1, <1>4
  <2> HIDE DEF next
  <2>3. p.holds = 0 => next = s.index + Len(s.run.segs)
    BY DEF next
  <2>4. s.buffer # <<>>
    BY <1>4
  <2>5. Settled([s EXCEPT !.run.step = "packing",
                          !.run.chunk = First(s.buffer, ChunkLen),
                          !.run.next = next,
                          !.buffer = From(s.buffer, ChunkLen + 1)], sv, p)
    BY <2>2, <2>3, <2>4, TakesChunk
  <2> QED BY <2>1, <2>5
<1> QED BY <1>2, <1>3, <1>4

\* What Loop asks for: an open replay, and a paint base first if none has landed.
Packable(s, sv, p) ==
  /\ Ready(s, sv, p)
  /\ p.holds = 0 =>
       Open(s, sv) /\ (s.index = 0 => s.buffer = <<>> \/ StartsWithFull(s.buffer))

\* The loop of uploadPendingSegments.
LEMMA LoopSettles ==
  ASSUME NEW s, NEW sv \in Table, NEW p, Packable(s, sv, p)
  PROVE  Settled(Loop(s), sv, p)
<1> DEFINE count == IF s.run.kind = "hide" THEN 1
                    ELSE Minimum(ClipSegments, MaxSegmentsAllowed(s) - s.index)
           run == [s.run EXCEPT !.segs = <<>>, !.over = FALSE, !.count = count]
           t == [s EXCEPT !.run.segs = <<>>, !.run.over = FALSE, !.run.count = count]
<1>1. CASE s.buffer = <<>> \/ s.deadline = "past"
  BY <1>1, UploadEnds DEF Loop, Packable
<1>2. CASE /\ ~(s.buffer = <<>> \/ s.deadline = "past")
           /\ s.index >= MaxSegmentsAllowed(s) \/ Exhausted(s, s.index, s.bytes)
  BY <1>2, LimitEnds DEF Loop, Packable
<1>3. CASE /\ ~(s.buffer = <<>> \/ s.deadline = "past")
           /\ ~(s.index >= MaxSegmentsAllowed(s) \/ Exhausted(s, s.index, s.bytes))
  <2>1. s \in Client /\ s.run \in Run /\ s.index \in Nat
    BY DEF Packable, Ready, Loose, Client
  <2>2. count \in Int /\ MaxSegmentsAllowed(s) \in Nat
    BY <2>1, ReplayUploadAssumption DEF Minimum, MaxSegmentsAllowed
  <2>3. <<>> \in Seq(Segment) /\ Len(<<>>) = 0
    BY EmptySeq
  <2>4. Loop(s) = Pack(t)
    BY <1>3 DEF Loop
  <2> HIDE DEF count
  <2>5. t = [s EXCEPT !.run = run]
    BY <2>1 DEF Client, Run
  <2>6. run \in Run /\ run.segs = <<>>
    BY <2>1, <2>2, <2>3 DEF Run
  <2> HIDE DEF t, run
  <2>7. t \in Client
    BY <2>1, <2>5, <2>6 DEF Client
  <2>8. /\ t.buffer = s.buffer /\ t.rid = s.rid /\ t.started = s.started
        /\ t.finished = s.finished /\ t.index = s.index /\ t.linkable = s.linkable
        /\ t.events = s.events /\ t.recorder = s.recorder /\ t.sampled = s.sampled
        /\ t.run.segs = <<>> /\ t.uploading = s.uploading /\ t.bytes = s.bytes
    BY <2>1, <2>5, <2>6 DEF Client
  <2>9. Ready(t, sv, p)
    BY <2>7, <2>8 DEF Packable, Ready, Loose, Pending, Fresh, Believes, Reopens
  <2>10. Len(t.run.segs) = 0 /\ t.index + Len(t.run.segs) = t.index
    BY <2>1, <2>3, <2>8
  <2>11. SegsPending(t, sv) /\ Numbered(t)
    BY <2>10 DEF SegsPending, Numbered
  <2>12. Budgeted(t)
    <3>1. MaxSegmentsAllowed(t) = MaxSegmentsAllowed(s)
      BY <2>8 DEF MaxSegmentsAllowed
    <3> QED BY <1>3, <2>1, <2>2, <2>8, <2>10, <3>1 DEF Budgeted
  <2>13. Packing(t, sv, p)
    BY <2>8, <2>9, <2>11, <2>12 DEF Packing, Packable, Open, PaintFirst
  <2> QED BY <2>4, <2>8, <2>13, PackSettles DEF Packable
<1> QED BY <1>1, <1>2, <1>3

\* trimToFullSnapshot finds the first paint base.
LEMMA Trimmed ==
  ASSUME NEW q \in Seq(Event), HasFull(q)
  PROVE  /\ FromFull(q) \in Seq(Event) /\ StartsWithFull(FromFull(q))
         /\ Numbers(FromFull(q)) \subseteq Numbers(q)
         /\ Increasing(q) => Increasing(FromFull(q))
<1>1. Len(q) \in Nat
  BY LenProperties
<1> DEFINE Fulls == {i \in Nat : i \in 1..Len(q) /\ q[i].full}
           First1(i) == q[i].full /\ \A j \in 1..i-1 : ~q[j].full
<1>2. \E i \in 1..Len(q) : First1(i)
  <2> DEFINE R == OpToRel(<, Nat)
  <2>1. IsWellFoundedOn(R, Nat)
    BY NatLessThanWellFounded
  <2>2. Fulls # {} /\ Fulls \subseteq Nat
    BY <1>1 DEF HasFull
  <2>3. PICK m \in Fulls : \A k \in Fulls : <<k, m>> \notin R
    <3> HIDE DEF R, Fulls
    <3> QED BY <2>1, <2>2, WFMin
  <2>4. \A k \in Fulls : ~(k < m)
    BY <2>3 DEF OpToRel
  <2>5. ASSUME NEW j \in 1..m-1 PROVE ~q[j].full
    <3>1. j \in Nat /\ j \in 1..Len(q) /\ j < m
      BY <1>1
    <3> QED BY <2>4, <3>1
  <2> QED BY <2>5
<1>3. PICK i \in 1..Len(q) : First1(i) /\ FromFull(q) = From(q, i)
  BY <1>2 DEF FromFull
<1> HIDE DEF First1
<1>4. i - 1 \in Nat /\ (i - 1) + 1 = i
  BY <1>1
<1>5. From(q, i) = From(q, (i - 1) + 1)
  BY <1>4
<1>6. /\ From(q, i) \in Seq(Event) /\ Numbers(From(q, i)) \subseteq Numbers(q)
      /\ Increasing(q) => Increasing(From(q, i))
  BY <1>4, <1>5, Cut
<1>7. StartsWithFull(From(q, i))
  <2> DEFINE b == From(q, i)
  <2>1. Len(b) = Len(q) - i + 1 /\ \A j \in 1..Len(q) - i + 1 : b[j] = q[i + j - 1]
    BY <1>1, SubSeqProperties DEF From
  <2> HIDE DEF b
  <2>2. 1 \in 1..Len(q) - i + 1 /\ i + 1 - 1 = i /\ Len(b) # 0
    BY <1>1, <2>1
  <2>3. b[1].full
    BY <1>3, <2>1, <2>2 DEF First1
  <2>4. b # <<>>
    BY <2>2, EmptySeq
  <2> QED BY <2>3, <2>4 DEF StartsWithFull, b
<1> QED BY <1>3, <1>6, <1>7

\* uploadPendingSegments: a replay that has not begun is trimmed to a paint base.
LEMMA UploadPendingSettles ==
  ASSUME NEW s, NEW sv \in Table, NEW p, Ready(s, sv, p),
         p.holds = 0 /\ Unfinished(s) => ~On(sv, s.rid).finished
  PROVE  Settled(UploadPending(s), sv, p)
<1> DEFINE t == IF HasFull(s.buffer) THEN s ELSE Checkout(s)
           u == [t EXCEPT !.buffer = FromFull(t.buffer)]
<1>1. CASE ~Unfinished(s)
  BY <1>1, UploadEnds DEF UploadPending
<1>2. CASE Unfinished(s) /\ s.index # 0
  <2>1. Packable(s, sv, p)
    BY <1>2 DEF Packable, Open, Unfinished
  <2> QED BY <1>2, <2>1, LoopSettles DEF UploadPending
<1>3. CASE Unfinished(s) /\ s.index = 0
  <2>1. Loose(t, sv, p) /\ SameReplay(t, s) /\ t.uploading = s.uploading
    BY CheckoutKeeps DEF Ready, SameReplay
  <2>2. Ready(t, sv, p)
    BY <2>1 DEF Ready, Reopens, SameReplay
  <2>3. CASE ~HasFull(t.buffer)
    BY <1>3, <2>2, <2>3, AbortEnds DEF UploadPending
  <2>4. CASE HasFull(t.buffer)
    <3>1. t \in Client /\ t.buffer \in Seq(Event)
      BY <2>1 DEF Loose, Client
    <3>2. /\ FromFull(t.buffer) \in Seq(Event) /\ StartsWithFull(FromFull(t.buffer))
          /\ Pending(FromFull(t.buffer), t, sv)
      BY <2>1, <2>4, <3>1, Trimmed DEF Loose, Pending
    <3>3. UploadPending(s) = Loop(u)
      BY <1>3, <2>4 DEF UploadPending
    <3> HIDE DEF t
    <3>4. Ready(u, sv, p)
      BY <2>2, <3>2, Rebuffered
    <3>5. /\ u.buffer = FromFull(t.buffer) /\ u.started = t.started
          /\ u.finished = t.finished /\ u.rid = t.rid
      BY <3>1 DEF Client
    <3> HIDE DEF u
    <3>6. Packable(u, sv, p)
      BY <1>3, <2>1, <3>2, <3>4, <3>5 DEF Packable, Open, Unfinished, SameReplay
    <3> QED BY <3>3, <3>6, LoopSettles
  <2> QED BY <2>3, <2>4
<1> QED BY <1>1, <1>2, <1>3

\* What a task does after ensureStarted.
LEMMA AfterStartSettles ==
  ASSUME NEW s, NEW sv \in Table, NEW p, Ready(s, sv, p),
         p.holds = 0 /\ Unfinished(s) => ~On(sv, s.rid).finished
  PROVE  Settled(AfterStart(s), sv, p)
BY DoneSettles, UploadPendingSettles DEF AfterStart

\* ensureStarted: a replay that is not started is unknown to be finished.
LEMMA EnsureStartedGood ==
  ASSUME NEW s, NEW sv \in Table, NEW p, Ready(s, sv, p), s.uploading
  PROVE  Good(EnsureStarted(s), sv, p)
<1>1. CASE s.disabled \/ s.started \/ s.finished
  <2>1. p.holds = 0 /\ Unfinished(s) => ~On(sv, s.rid).finished
    BY DEF Ready, Reopens, Unfinished
  <2>2. EnsureStarted(s) = AfterStart(s)
    BY <1>1 DEF EnsureStarted
  <2> QED BY <2>1, <2>2, AfterStartSettles DEF Settled
<1>2. CASE ~(s.disabled \/ s.started \/ s.finished)
  <2> DEFINE run == [s.run EXCEPT !.step = "starting", !.rid = s.rid]
             t == [s EXCEPT !.run = run]
  <2>1. s \in Client /\ s.run \in Run /\ s.rid \in Nat
    BY DEF Ready, Loose, Client
  <2>2. EnsureStarted(s) = t
    BY <1>2, <2>1 DEF EnsureStarted, Client, Run
  <2>3. run \in Run /\ run.step = "starting" /\ run.rid = s.rid
    BY <2>1 DEF Run, Step
  <2> HIDE DEF run
  <2>4. t \in Client
    BY <2>1, <2>3 DEF Client
  <2>5. /\ t.buffer = s.buffer /\ t.rid = s.rid /\ t.started = s.started
        /\ t.finished = s.finished /\ t.index = s.index /\ t.linkable = s.linkable
        /\ t.events = s.events /\ t.recorder = s.recorder /\ t.sampled = s.sampled
        /\ t.run = run /\ t.uploading = s.uploading
    BY <2>1 DEF Client
  <2> HIDE DEF t
  <2>6. InOrder(t, sv)
    BY <2>3, <2>5 DEF Ready, Loose, InOrder, Pending, Fresh
  <2>7. p.holds = 0 => Sound(t, sv)
    BY <1>2, <2>3, <2>5 DEF Ready, Loose, Believes, Reopens, Sound, AtItsStep
  <2> QED BY <2>2, <2>3, <2>4, <2>5, <2>6, <2>7 DEF Good, Ready, Loose
<1> QED BY <1>1, <1>2

\* What a task checks before its first await.
LEMMA BeginTaskGood ==
  ASSUME NEW s, NEW sv \in Table, NEW p, Ready(s, sv, p)
  PROVE  /\ Good(BeginTask(s), sv, p)
         /\ BeginTask(s).run.step = "starting" => s.uploading
<1> DEFINE past == s.run.kind = "flush" /\ s.deadline = "past"
           kind == IF past THEN IF s.sampled THEN "wall" ELSE "clip" ELSE s.run.kind
           t == [s EXCEPT !.run.kind = kind]
<1>1. s \in Client /\ s.run \in Run
  BY DEF Ready, Loose, Client
<1>2. kind \in Kind
  <2>1. s.run.kind \in Kind
    BY <1>1 DEF Run
  <2> QED BY <2>1 DEF Kind
<1>3. BeginTask(s) = IF kind = "disabled" THEN End(s)
                     ELSE IF ~s.uploading \/ (kind = "clip" /\ s.sampled) THEN Done(s)
                     ELSE EnsureStarted(t)
  BY DEF BeginTask
<1> HIDE DEF kind, past
<1>4. CASE kind = "disabled"
  BY <1>3, <1>4, Ends DEF Settled
<1>5. CASE kind # "disabled" /\ (~s.uploading \/ (kind = "clip" /\ s.sampled))
  BY <1>3, <1>5, DoneSettles DEF Settled
<1>6. CASE kind # "disabled" /\ ~(~s.uploading \/ (kind = "clip" /\ s.sampled))
  <2> DEFINE run == [s.run EXCEPT !.kind = kind]
  <2>1. t = [s EXCEPT !.run = run]
    BY <1>1 DEF Client, Run
  <2>2. run \in Run
    BY <1>1, <1>2 DEF Run
  <2> HIDE DEF run, t
  <2>3. t \in Client
    BY <1>1, <2>1, <2>2 DEF Client
  <2>4. /\ t.buffer = s.buffer /\ t.rid = s.rid /\ t.started = s.started
        /\ t.finished = s.finished /\ t.index = s.index /\ t.linkable = s.linkable
        /\ t.events = s.events /\ t.recorder = s.recorder /\ t.sampled = s.sampled
        /\ t.uploading = s.uploading
    BY <1>1, <2>1 DEF Client
  <2>5. Ready(t, sv, p)
    BY <2>3, <2>4 DEF Ready, Loose, Pending, Fresh, Believes, Reopens
  <2> QED BY <1>3, <1>6, <2>4, <2>5, EnsureStartedGood
<1> QED BY <1>4, <1>5, <1>6

-----------------------------------------------------------------------------
(* What the page does besides, and what the server answers. *)

\* While a task waits, the page records, reports errors and starts clips.
LEMMA KeepsGood ==
  ASSUME NEW s \in Client, NEW t \in Client, NEW sv \in Table, NEW p, Good(s, sv, p),
         SameReplay(t, s), Grows(t, s), t.linkable \in {s.linkable, 0},
         t.recorder = "on" \/ (t.recorder = s.recorder /\ t.events = s.events),
         t.uploading => s.uploading \/ (~p.blocked /\ ~s.sampled)
  PROVE  Good(t, sv, p)
<1>1. t.events \in Nat /\ s.events \in Nat /\ t.events >= s.events
  BY DEF Client, Grows
<1>2. \A r \in DOMAIN sv : sv[r].last \in Nat /\ sv[r].last <= s.events
  BY DEF Good, InOrder, Table, Replay
<1>3. Fresh(s, sv) \subseteq Fresh(t, sv) /\ Fresh(s, sv) \subseteq 1..s.events
  BY <1>1 DEF Fresh
<1>4. Pending(t.buffer, t, sv)
  <2>1. Numbers(s.buffer) \subseteq Fresh(s, sv)
    BY DEF Good, InOrder, Pending
  <2>2. \A n \in s.events + 1..t.events : n \in Fresh(t, sv)
    BY <1>1, <1>2 DEF Fresh
  <2> QED BY <1>3, <2>1, <2>2 DEF Pending, Grows
<1>5. ASSUME NEW A, A \subseteq Fresh(s, sv), Less(A, Numbers(s.buffer))
      PROVE  Less(A, Numbers(t.buffer))
  <2> SUFFICES ASSUME NEW a \in A, NEW b \in Numbers(t.buffer) PROVE a < b
    BY DEF Less
  <2>1. CASE b \in Numbers(s.buffer)
    BY <1>5, <2>1 DEF Less
  <2>2. CASE b \in s.events + 1..t.events
    BY <1>1, <1>3, <1>5, <2>2
  <2> QED BY <2>1, <2>2 DEF Grows
<1>6. s.run.step \in {"packing", "uploading"} => SegsPending(t, sv)
  <2> SUFFICES ASSUME SegsPending(s, sv) PROVE SegsPending(t, sv)
    BY DEF Good, InOrder
  <2>1. t.run = s.run
    BY DEF SameReplay
  <2> QED BY <1>3, <1>5, <2>1 DEF SegsPending, Pending
<1>7. s.run.step = "packing" => ChunkPending(t, sv)
  <2> SUFFICES ASSUME ChunkPending(s, sv) PROVE ChunkPending(t, sv)
    BY DEF Good, InOrder
  <2>1. t.run = s.run
    BY DEF SameReplay
  <2> QED BY <1>3, <1>5, <2>1 DEF ChunkPending, Pending
<1>8. InOrder(t, sv)
  BY <1>1, <1>2, <1>4, <1>6, <1>7 DEF InOrder, SameReplay
<1>9. ASSUME p.holds = 0 PROVE Sound(t, sv)
  <2>1. Believes(t, sv)
    BY <1>9 DEF Good, Sound, Believes, SameReplay
  <2>2. Reopens(t, sv)
    BY <1>9 DEF Good, Sound, Reopens, SameReplay
  <2>3. AtItsStep(t, sv)
    BY <1>9
    DEF Good, Sound, AtItsStep, Open, Packed, Numbered, Painted, Budgeted, ClipMode,
        MaxSegmentsAllowed, SameReplay
  <2> QED BY <2>1, <2>2, <2>3 DEF Sound
<1> QED BY <1>8, <1>9 DEF Good, SameReplay

\* Less than before: a buffer of which the beginning was trimmed.
LEMMA TrimGrows ==
  ASSUME NEW s \in Client, NEW t \in Client, NEW k \in Nat, Grows(t, s)
  PROVE  /\ From(t.buffer, k + 1) \in Seq(Event)
         /\ Grows([t EXCEPT !.buffer = From(t.buffer, k + 1)], s)
<1> DEFINE u == [t EXCEPT !.buffer = From(t.buffer, k + 1)]
<1>1. t.buffer \in Seq(Event)
  BY DEF Client
<1>2. /\ From(t.buffer, k + 1) \in Seq(Event)
      /\ Numbers(From(t.buffer, k + 1)) \subseteq Numbers(t.buffer)
      /\ Increasing(From(t.buffer, k + 1))
  BY <1>1, Cut DEF Grows
<1>3. u.buffer = From(t.buffer, k + 1) /\ u.events = t.events
  BY DEF Client
<1> QED BY <1>2, <1>3 DEF Grows

\* disableIngestAfterPermanentError at most stops uploading.
LEMMA Disabled ==
  ASSUME NEW s \in Client, NEW fault
  PROVE  /\ Disable(s, fault) \in Client /\ SameReplay(Disable(s, fault), s)
         /\ Disable(s, fault).linkable = s.linkable
         /\ Disable(s, fault).recorder = s.recorder
         /\ Disable(s, fault).events = s.events /\ Disable(s, fault).buffer = s.buffer
         /\ Disable(s, fault).uploading => s.uploading
<1> DEFINE t == Disable(s, fault)
           off == [s EXCEPT !.disabled = TRUE, !.killed = s.killed \/ fault = "permanent"]
           task == [kind |-> "disabled", awaited |-> FALSE]
           chain == IF s.uploading THEN Append(s.chain, task) ELSE s.chain
<1>1. off \in Client /\ s.chain \in Seq(Task) /\ task \in Task
  BY DEF Client, Task, Kind
<1>2. chain \in Seq(Task)
  BY <1>1, AppendProperties
<1>3. \/ t = s
      \/ t = [off EXCEPT !.uploading = FALSE]
      \/ t = [off EXCEPT !.timer = FALSE, !.chain = chain]
  BY DEF Disable, Client
<1> HIDE DEF t, chain
<1>4. t \in Client
  <2>1. [off EXCEPT !.uploading = FALSE] \in Client
    BY <1>1 DEF Client
  <2>2. [off EXCEPT !.timer = FALSE, !.chain = chain] \in Client
    BY <1>1, <1>2 DEF Client
  <2> QED BY <1>3, <2>1, <2>2
<1> QED BY <1>3, <1>4, ZenonT(60) DEF Client, SameReplay, t

\* A refusal that disables replay keeps what a task relies on.
LEMMA DisabledReady ==
  ASSUME NEW s, NEW sv, NEW p, NEW fault, Ready(s, sv, p)
  PROVE  Ready(Disable(s, fault), sv, p)
<1>1. s \in Client
  BY DEF Ready, Loose
<1> DEFINE t == Disable(s, fault)
<1>2. /\ t \in Client /\ SameReplay(t, s) /\ t.linkable = s.linkable
      /\ t.recorder = s.recorder /\ t.events = s.events /\ t.buffer = s.buffer
      /\ t.uploading => s.uploading
  BY <1>1, Disabled
<1> HIDE DEF t
<1>3. Ready(t, sv, p)
  BY <1>2 DEF Ready, Loose, Pending, Fresh, Believes, Reopens, SameReplay
<1> QED BY <1>3 DEF t

\* The server's table after an answer about one replay.
Answered(sv, rid, replay) ==
  [r \in DOMAIN sv \union {rid} |-> IF r = rid THEN replay ELSE sv[r]]

\* An answer about one replay leaves the others.
LEMMA AnsweredTable ==
  ASSUME NEW sv \in Table, NEW rid \in Nat, NEW replay \in Replay
  PROVE  /\ Answered(sv, rid, replay) \in Table
         /\ DOMAIN Answered(sv, rid, replay) = DOMAIN sv \union {rid}
         /\ \A r : On(Answered(sv, rid, replay), r) = IF r = rid THEN replay ELSE On(sv, r)
         /\ \A r \in DOMAIN Answered(sv, rid, replay) :
              \/ Answered(sv, rid, replay)[r] = replay
              \/ r \in DOMAIN sv /\ Answered(sv, rid, replay)[r] = sv[r]
<1> DEFINE sv2 == Answered(sv, rid, replay)
<1>1. DOMAIN sv \subseteq Nat /\ \A r \in DOMAIN sv : sv[r] \in Replay
  BY DEF Table
<1>2. sv2 \in [DOMAIN sv \union {rid} -> Replay]
  BY <1>1 DEF Answered
<1>3. sv2 \in Table
  BY <1>1, <1>2 DEF Table
<1> QED BY <1>2, <1>3 DEF Answered, On

\* A replay the server never heard of counts as one without segments.
LEMMA OnReplay ==
  ASSUME NEW sv \in Table, NEW rid
  PROVE  On(sv, rid) \in Replay
BY DEF Table, On, Unknown, Replay

\* An answer that acknowledges no event leaves what may be pending.
LEMMA NoneAcknowledged ==
  ASSUME NEW sv \in Table, NEW rid \in Nat, NEW replay \in Replay,
         replay.last = On(sv, rid).last, NEW c \in Client,
         \A r \in DOMAIN sv : sv[r].last <= c.events
  PROVE  /\ Fresh(c, Answered(sv, rid, replay)) = Fresh(c, sv)
         /\ \A r \in DOMAIN Answered(sv, rid, replay) :
              Answered(sv, rid, replay)[r].last <= c.events
<1> DEFINE sv2 == Answered(sv, rid, replay)
<1>1. /\ DOMAIN sv2 = DOMAIN sv \union {rid}
      /\ \A r \in DOMAIN sv2 : sv2[r] = IF r = rid THEN replay ELSE sv[r]
  BY DEF Answered
<1>2. c.events \in Nat
  BY DEF Client
<1> HIDE DEF sv2
<1>3. rid \notin DOMAIN sv => replay.last = 0
  BY DEF On, Unknown
<1>4. rid \in DOMAIN sv => replay.last = sv[rid].last
  BY DEF On
<1>5. \A r \in DOMAIN sv : sv2[r].last = sv[r].last
  BY <1>1, <1>4
<1>6. \A r \in DOMAIN sv2 : r \in DOMAIN sv \/ sv2[r].last = 0
  BY <1>1, <1>3
<1>7. DOMAIN sv \subseteq DOMAIN sv2
  BY <1>1
<1> QED BY <1>2, <1>5, <1>6, <1>7 DEF Fresh, sv2

-----------------------------------------------------------------------------
(* The steps of an upload task. *)

\* What the steps of a task know of the client and the server.
LEMMA Facts ==
  ASSUME IInv
  PROVE  /\ client \in Client /\ client.run \in Run /\ server \in Table
         /\ client.events \in Nat /\ client.rid \in Nat /\ client.index \in Nat
         /\ client.run.rid \in Nat
         /\ Ready(client, server, page) /\ Good(client, server, page)
<1>1. client \in Client /\ server \in Table
  BY DEF IInv, TypeOK, Table
<1>2. /\ client.run \in Run /\ client.events \in Nat /\ client.rid \in Nat
      /\ client.index \in Nat
  BY <1>1 DEF Client
<1>3. client.run.rid \in Nat
  BY <1>2 DEF Run
<1>4. Good(client, server, page)
  BY DEF IInv
<1> QED BY <1>1, <1>2, <1>3, <1>4 DEF Good, Ready, Loose, InOrder, Sound

\* A step of a task: it leaves the page alone, and nothing that landed is lost.
LEMMA TaskStep ==
  ASSUME IInv, UNCHANGED <<waiting, page, link>>, server' \in Table,
         Good(client', server', page),
         \A r \in Nat : On(server', r).segments >= On(server, r).segments
  PROVE  IInv'
<1>1. server' \in [DOMAIN server' -> Replay] /\ DOMAIN server' \subseteq Nat
  BY DEF Table
<1>2. TypeOK'
  BY <1>1 DEF IInv, TypeOK, Good
<1>3. LinkSound'
  <2> SUFFICES ASSUME page.holds = 0, link.rid # 0 PROVE On(server', link.rid).segments > 0
    BY DEF LinkSound
  <2>1. link.rid \in Nat /\ On(server, link.rid).segments > 0
    BY DEF IInv, LinkSound, TypeOK
  <2>2. On(server, link.rid).segments \in Nat /\ On(server', link.rid).segments \in Nat
    BY Facts, OnReplay DEF Replay
  <2> QED BY <2>1, <2>2
<1> QED BY <1>2, <1>3 DEF IInv, Good

\* A step of a task that waits for no answer.
LEMMA SameServer ==
  ASSUME IInv, UNCHANGED <<waiting, page, server, link>>, Good(client', server, page)
  PROVE  IInv'
<1>1. server \in Table
  BY Facts
<1>2. \A r \in Nat : On(server, r).segments \in Nat
  BY <1>1, OnReplay DEF Replay
<1> QED BY <1>1, <1>2, TaskStep

\* StartTask preserves the invariant, and asks for a start only with consent.
LEMMA StartTaskKeeps == IInv /\ StartTask => IInv' /\ (Awaits("starting")' => ~page.blocked)
<1> SUFFICES ASSUME IInv, StartTask PROVE IInv' /\ (Awaits("starting")' => ~page.blocked)
  OBVIOUS
<1> DEFINE task == Head(client.chain)
           run == [Idle EXCEPT !.step = "begun", !.kind = task.kind, !.awaited = task.awaited]
           s == [client EXCEPT !.chain = Tail(client.chain), !.run = run]
<1>1. client' = BeginTask(s) /\ UNCHANGED <<waiting, page, server, link>>
  BY DEF StartTask
<1>2. /\ client \in Client /\ server \in Table /\ Ready(client, server, page)
      /\ client.chain \in Seq(Task) /\ client.chain # <<>>
  BY Facts DEF Client, StartTask
<1>3. task \in Task /\ Tail(client.chain) \in Seq(Task)
  BY <1>2, HeadTailProperties
<1>4. run \in Run
  <2>1. task.kind \in Kind /\ task.awaited \in BOOLEAN
    BY <1>3 DEF Task
  <2>2. Idle \in Run
    BY EmptySeq DEF Run, Idle, Step, Kind
  <2> HIDE DEF task
  <2> QED BY <2>1, <2>2 DEF Run, Step
<1> HIDE DEF task, run
<1>5. s \in Client
  BY <1>2, <1>3, <1>4 DEF Client
<1>6. /\ s.buffer = client.buffer /\ s.rid = client.rid /\ s.started = client.started
      /\ s.finished = client.finished /\ s.index = client.index
      /\ s.linkable = client.linkable /\ s.events = client.events
      /\ s.recorder = client.recorder /\ s.sampled = client.sampled
      /\ s.uploading = client.uploading
  BY <1>2 DEF Client
<1> HIDE DEF s
<1>7. Ready(s, server, page)
  BY <1>2, <1>5, <1>6 DEF Ready, Loose, Pending, Fresh, Believes, Reopens
<1>8. /\ Good(BeginTask(s), server, page)
      /\ BeginTask(s).run.step = "starting" => s.uploading
  BY <1>2, <1>7, BeginTaskGood
<1>9. page.blocked => ~client.uploading
  BY Facts DEF Good
<1> QED BY <1>1, <1>6, <1>8, <1>9, SameServer DEF Awaits

\* After a start the server may have the replay open, whatever the client was told.
ServerStarted ==
  Answered(server, client.run.rid, [On(server, client.run.rid) EXCEPT !.started = TRUE])

\* Whatever becomes of the start request, the server may have the replay open.
LEMMA Starting ==
  ASSUME IInv, client.run.step = "starting",
         NEW s, s \in Client, SameReplay(s, client) \/ SameReplay(s, [client EXCEPT !.started = TRUE]),
         s.buffer = client.buffer, s.events = client.events, s.linkable = client.linkable,
         s.recorder = client.recorder, s.uploading => client.uploading
  PROVE  /\ Ready(s, ServerStarted, page)
         /\ page.holds = 0 => ~On(ServerStarted, s.rid).finished
         /\ ServerStarted \in Table
         /\ \A r \in Nat : On(ServerStarted, r).segments >= On(server, r).segments
<1> DEFINE rid == client.run.rid
           replay == [On(server, rid) EXCEPT !.started = TRUE]
           sv == Answered(server, rid, replay)
<1>1. /\ client \in Client /\ server \in Table /\ Good(client, server, page) /\ rid \in Nat
      /\ client.rid \in Nat
  BY Facts
<1>2. replay \in Replay /\ replay.started /\ replay.segments = On(server, rid).segments
      /\ replay.last = On(server, rid).last /\ replay.finished = On(server, rid).finished
  <2>1. On(server, rid) \in Replay
    BY <1>1, OnReplay
  <2> QED BY <2>1 DEF Replay
<1> HIDE DEF rid, replay
<1>3. /\ sv \in Table /\ DOMAIN sv = DOMAIN server \union {rid}
      /\ \A r : On(sv, r) = IF r = rid THEN replay ELSE On(server, r)
  BY <1>1, <1>2, AnsweredTable
<1> HIDE DEF sv
<1>4. \A r \in Nat : On(sv, r).segments >= On(server, r).segments
  <2>1. \A r \in Nat : On(server, r).segments \in Nat
    BY <1>1, OnReplay DEF Replay
  <2> QED BY <1>2, <1>3, <2>1
<1>5. Pending(s.buffer, s, sv) /\ \A r \in DOMAIN sv : sv[r].last <= s.events
  <2>1. Pending(client.buffer, client, server)
        /\ \A r \in DOMAIN server : server[r].last <= client.events
    BY <1>1 DEF Good, InOrder
  <2>2. Fresh(client, sv) = Fresh(client, server)
        /\ \A r \in DOMAIN sv : sv[r].last <= client.events
    BY <1>1, <1>2, <2>1, NoneAcknowledged DEF sv
  <2>3. Fresh(s, sv) = Fresh(client, sv)
    BY DEF Fresh
  <2> QED BY <2>1, <2>2, <2>3 DEF Pending
<1>6. /\ s.rid = client.rid /\ s.index = client.index /\ s.finished = client.finished
      /\ s.sampled = client.sampled /\ (s.started \/ s.started = client.started)
  BY <1>1 DEF SameReplay, Client
<1>7. ASSUME page.holds = 0
      PROVE  Believes(s, sv) /\ Reopens(s, sv) /\ ~On(sv, s.rid).finished
  <2>1. rid = client.rid /\ ~client.started /\ Believes(client, server)
    BY <1>1, <1>7 DEF Good, Sound, AtItsStep, rid
  <2>2. ~On(sv, s.rid).finished /\ On(sv, s.rid).started
        /\ On(sv, s.rid).segments = On(server, s.rid).segments
    BY <1>2, <1>3, <1>6, <2>1 DEF Believes
  <2>3. \A r \in DOMAIN sv : r <= s.rid
    BY <1>1, <1>3, <1>6, <2>1 DEF Believes
  <2>4. s.linkable # 0 => On(sv, s.linkable).segments > 0
    BY <1>2, <1>3, <2>1 DEF Believes
  <2> QED BY <1>6, <2>1, <2>2, <2>3, <2>4 DEF Believes, Reopens
<1>8. Ready(s, sv, page)
  BY <1>1, <1>5, <1>7 DEF Ready, Loose, Good
<1> QED BY <1>3, <1>4, <1>7, <1>8 DEF sv, rid, replay, ServerStarted

\* StartResolves preserves the invariant.
LEMMA StartResolvesKeeps == IInv /\ StartResolves => IInv' /\ ~Awaits("starting")'
<1> SUFFICES ASSUME IInv, StartResolves PROVE IInv' /\ ~Awaits("starting")'
  OBVIOUS
<1> DEFINE u == [client EXCEPT !.started = TRUE]
           s == MarkStarted(u)
           sv == ServerStarted
<1>1. /\ client' = AfterStart(s) /\ server' = sv /\ client.run.step = "starting"
      /\ UNCHANGED <<waiting, page, link>>
  BY DEF StartResolves, Awaits, HasNow, Has, On, Answered, ServerStarted
<1>2. client \in Client
  BY Facts
<1>3. s \in Client /\ SameReplay(s, u) /\ s.buffer = client.buffer
      /\ s.events = client.events /\ s.linkable = client.linkable
      /\ s.recorder = client.recorder /\ s.uploading = client.uploading
  BY <1>2 DEF Client, MarkStarted, SameReplay
<1> HIDE DEF s
<1>4. /\ Ready(s, sv, page) /\ sv \in Table
      /\ page.holds = 0 => ~On(sv, s.rid).finished
      /\ \A r \in Nat : On(sv, r).segments >= On(server, r).segments
  BY <1>1, <1>3, Starting
<1> HIDE DEF sv
<1>5. Settled(client', server', page)
  BY <1>1, <1>4, AfterStartSettles DEF Settled
<1> QED BY <1>1, <1>4, <1>5, TaskStep DEF Settled, Awaits

\* StartFails does, although the server may have started the replay.
LEMMA StartFailsKeeps == IInv /\ StartFails => IInv' /\ ~Awaits("starting")'
<1> SUFFICES ASSUME IInv, StartFails PROVE IInv' /\ ~Awaits("starting")'
  OBVIOUS
<1> DEFINE sv == ServerStarted
<1>1. /\ client \in Client /\ server \in Table /\ Ready(client, server, page)
      /\ Good(client, server, page)
  BY Facts
<1>2. PICK fault : /\ client' = AfterStart(IF fault = "transient" THEN client
                                           ELSE Disable(client, fault))
                   /\ \/ UNCHANGED server
                      \/ fault = "transient" /\ server' = sv
  BY DEF StartFails, HasNow, Has, On, Answered, ServerStarted
<1>3. client.run.step = "starting" /\ UNCHANGED <<waiting, page, link>>
  BY DEF StartFails, Awaits
<1>4. page.holds = 0 => ~client.started
  BY <1>1, <1>3 DEF Good, Sound, AtItsStep
<1>5. CASE UNCHANGED server /\ fault # "transient"
  <2>1. Ready(Disable(client, fault), server, page)
    BY <1>1, DisabledReady
  <2>2. page.holds = 0 => ~Unfinished(Disable(client, fault))
    BY <1>1, <1>4, Disabled DEF SameReplay, Unfinished
  <2>3. Settled(client', server, page)
    BY <1>1, <1>2, <1>5, <2>1, <2>2, AfterStartSettles DEF Settled
  <2> QED BY <1>3, <1>5, <2>3, SameServer DEF Settled, Awaits
<1>6. CASE UNCHANGED server /\ fault = "transient"
  <2>1. page.holds = 0 => ~Unfinished(client)
    BY <1>4 DEF Unfinished
  <2>2. Settled(client', server, page)
    BY <1>1, <1>2, <1>6, <2>1, AfterStartSettles DEF Settled
  <2> QED BY <1>3, <1>6, <2>2, SameServer DEF Settled, Awaits
<1>7. CASE fault = "transient" /\ server' = sv
  <2>1. SameReplay(client, client)
    BY DEF SameReplay
  <2>2. /\ Ready(client, sv, page) /\ sv \in Table
        /\ page.holds = 0 => ~On(sv, client.rid).finished
        /\ \A r \in Nat : On(sv, r).segments >= On(server, r).segments
    BY <1>1, <1>3, <2>1, Starting
  <2> HIDE DEF sv
  <2>3. Settled(client', server', page)
    BY <1>2, <1>7, <2>2, AfterStartSettles DEF Settled
  <2> QED BY <1>3, <1>7, <2>2, <2>3, TaskStep DEF Settled, Awaits
<1> QED BY <1>2, <1>5, <1>6, <1>7

\* FinishSettles does: a finish whose answer is lost ends uploading all the same.
LEMMA FinishSettlesKeeps == IInv /\ FinishSettles => IInv' /\ ~Awaits("starting")'
<1> SUFFICES ASSUME IInv, FinishSettles PROVE IInv' /\ ~Awaits("starting")'
  OBVIOUS
<1> DEFINE rid == client.run.rid
           replay == [On(server, rid) EXCEPT !.finished = TRUE]
           sv == Answered(server, rid, replay)
<1>1. /\ client \in Client /\ server \in Table /\ Ready(client, server, page)
      /\ Good(client, server, page) /\ rid \in Nat /\ client.rid \in Nat
      /\ client.run.step \in {"finishing", "aborting"}
  BY Facts DEF FinishSettles
<1>2. PICK ok \in BOOLEAN :
        LET s == [client EXCEPT !.finished = client.finished \/ ok]
        IN /\ client' = IF client.run.step = "aborting" THEN AfterAbort(s)
                        ELSE IF client.run.then = "limit" THEN AfterLimit(s)
                        ELSE AfterEnd(s)
           /\ server' = sv \/ UNCHANGED server
  BY DEF FinishSettles, HasNow, Has, On, Answered
<1> DEFINE s == [client EXCEPT !.finished = client.finished \/ ok]
<1>3. UNCHANGED <<waiting, page, link>>
  BY DEF FinishSettles
<1>4. s \in Client
  BY <1>1 DEF Client
<1>5. /\ s.buffer = client.buffer /\ s.rid = client.rid /\ s.started = client.started
      /\ s.index = client.index /\ s.linkable = client.linkable
      /\ s.events = client.events /\ s.recorder = client.recorder
      /\ s.sampled = client.sampled /\ s.uploading = client.uploading
  BY <1>1 DEF Client
<1>6. /\ replay \in Replay /\ replay.started = On(server, rid).started
      /\ replay.segments = On(server, rid).segments /\ replay.last = On(server, rid).last
  <2>1. On(server, rid) \in Replay
    BY <1>1, OnReplay
  <2> QED BY <2>1 DEF Replay
<1> HIDE DEF s, replay, rid
<1>7. /\ sv \in Table /\ DOMAIN sv = DOMAIN server \union {rid}
      /\ \A r : On(sv, r) = IF r = rid THEN replay ELSE On(server, r)
  BY <1>1, <1>6, AnsweredTable, ZenonT(60)
<1> HIDE DEF sv
<1>8. \A r \in Nat : On(sv, r).segments >= On(server, r).segments
  <2>1. \A r \in Nat : On(server, r).segments \in Nat
    BY <1>1, OnReplay DEF Replay
  <2> QED BY <1>6, <1>7, <2>1
<1>9. Pending(s.buffer, s, sv) /\ \A r \in DOMAIN sv : sv[r].last <= s.events
  <2>1. Pending(client.buffer, client, server)
        /\ \A r \in DOMAIN server : server[r].last <= client.events
    BY <1>1 DEF Good, InOrder
  <2>2. Fresh(client, sv) = Fresh(client, server)
        /\ \A r \in DOMAIN sv : sv[r].last <= client.events
    BY <1>1, <1>6, <2>1, NoneAcknowledged DEF sv
  <2>3. Fresh(s, sv) = Fresh(client, sv)
    BY <1>5 DEF Fresh
  <2> QED BY <1>5, <2>1, <2>2, <2>3 DEF Pending
<1>10. ASSUME page.holds = 0 PROVE Believes(s, sv) /\ Believes(s, server)
  <2>1. rid = client.rid /\ client.started /\ Believes(client, server)
    BY <1>1, <1>10 DEF Good, Sound, AtItsStep, rid
  <2>2. Believes(s, server)
    BY <1>5, <2>1 DEF Believes
  <2>3. \A r \in DOMAIN sv : r <= s.rid
    BY <1>1, <1>5, <1>7, <2>1 DEF Believes
  <2>4. /\ On(sv, s.rid).started = On(server, s.rid).started
        /\ On(sv, s.rid).segments = On(server, s.rid).segments
        /\ On(sv, s.linkable).segments = On(server, s.linkable).segments
    BY <1>6, <1>7
  <2> QED BY <1>5, <2>1, <2>2, <2>3, <2>4 DEF Believes
<1>11. Loose(s, sv, page) /\ Loose(s, server, page)
  BY <1>1, <1>4, <1>5, <1>9, <1>10 DEF Good, Loose, InOrder, Pending, Fresh
<1>12. client' \in {AfterUpload(Stop(s)), AfterEnd(s)} /\ (server' = sv \/ UNCHANGED server)
  BY <1>2 DEF AfterAbort, AfterLimit, s, sv, replay, rid
<1>13. Settled(client', server', page)
  BY <1>1, <1>7, <1>11, <1>12, StopEnds, EndsWithStop DEF Settled
<1>14. CASE server' = sv
  BY <1>3, <1>7, <1>8, <1>13, <1>14, TaskStep DEF Settled, Awaits
<1>15. CASE UNCHANGED server
  BY <1>3, <1>13, <1>15, SameServer DEF Settled, Awaits
<1> QED BY <1>12, <1>14, <1>15

-----------------------------------------------------------------------------
(* gzip resolves. *)

\* A task that was packing goes on, with another buffer or more segments.
LEMMA PackingAgain ==
  ASSUME NEW s \in Client, NEW t \in Client, NEW sv \in Table, NEW p, Good(s, sv, p),
         s.run.step = "packing",
         t.rid = s.rid, t.started = s.started, t.finished = s.finished, t.index = s.index,
         t.sampled = s.sampled, t.events = s.events, t.linkable = s.linkable,
         t.recorder = s.recorder, t.uploading = s.uploading,
         Pending(t.buffer, s, sv), SegsPending(t, sv),
         p.holds = 0 => Numbered(t) /\ PaintFirst(t) /\ Budgeted(t)
  PROVE  Packing(t, sv, p)
<1>1. Loose(t, sv, p)
  BY DEF Good, Loose, InOrder, Pending, Fresh, Sound, Believes
<1>2. p.holds = 0 => Reopens(t, sv) /\ Open(t, sv)
  BY DEF Good, Sound, Reopens, AtItsStep, Open
<1> QED BY <1>1, <1>2 DEF Packing, Ready

\* What gzip took and what goes back to the buffer.
LEMMA Split ==
  ASSUME NEW s \in Client, NEW sv, InOrder(s, sv), s.run.step = "packing",
         NEW k \in 1..Len(s.run.chunk)
  PROVE  LET events == First(s.run.chunk, k)
             back == From(s.run.chunk, k + 1) \o s.buffer
         IN /\ events \in Seq(Event) /\ events # <<>> /\ events[1] = s.run.chunk[1]
            /\ Pending(events, s, sv)
            /\ back \in Seq(Event) /\ Pending(back, s, sv)
            /\ Less(Numbers(events), Numbers(back))
            /\ \A i \in 1..Len(s.run.segs) :
                 /\ Less(Numbers(s.run.segs[i].events), Numbers(events))
                 /\ Less(Numbers(s.run.segs[i].events), Numbers(back))
<1> DEFINE chunk == s.run.chunk
           events == First(chunk, k)
           rest == From(chunk, k + 1)
           back == rest \o s.buffer
<1>1. s.run \in Run /\ s.buffer \in Seq(Event)
  BY DEF Client
<1>2. chunk \in Seq(Event)
  BY <1>1 DEF Run
<1>3. k \in Nat /\ k > 0
  OBVIOUS
<1>4. ChunkPending(s, sv) /\ SegsPending(s, sv) /\ Pending(s.buffer, s, sv)
  BY DEF InOrder
<1> HIDE DEF chunk
<1>5. chunk # <<>> /\ Increasing(chunk) /\ Numbers(chunk) \subseteq Fresh(s, sv)
      /\ Less(Numbers(chunk), Numbers(s.buffer))
  BY <1>4 DEF ChunkPending, Pending, chunk
<1>6. /\ events \in Seq(Event) /\ rest \in Seq(Event)
      /\ Numbers(events) \subseteq Numbers(chunk) /\ Numbers(rest) \subseteq Numbers(chunk)
      /\ Increasing(events) /\ Increasing(rest) /\ Less(Numbers(events), Numbers(rest))
      /\ events # <<>> /\ events[1] = chunk[1]
  BY <1>2, <1>3, <1>5, Cut
<1> HIDE DEF events, rest
<1>7. Less(Numbers(rest), Numbers(s.buffer))
  BY <1>5, <1>6 DEF Less
<1>8. /\ back \in Seq(Event) /\ Numbers(back) = Numbers(rest) \union Numbers(s.buffer)
      /\ Increasing(back)
  BY <1>1, <1>4, <1>6, <1>7, Joined DEF Pending
<1> HIDE DEF back
<1>9. Pending(events, s, sv) /\ Pending(back, s, sv)
  BY <1>4, <1>5, <1>6, <1>8 DEF Pending
<1>10. Less(Numbers(events), Numbers(back))
  BY <1>5, <1>6, <1>8 DEF Less
<1>11. ASSUME NEW i \in 1..Len(s.run.segs)
       PROVE  /\ Less(Numbers(s.run.segs[i].events), Numbers(events))
              /\ Less(Numbers(s.run.segs[i].events), Numbers(back))
  <2>1. /\ Less(Numbers(s.run.segs[i].events), Numbers(chunk))
        /\ Less(Numbers(s.run.segs[i].events), Numbers(s.buffer))
    BY <1>4 DEF ChunkPending, SegsPending, chunk
  <2> QED BY <1>6, <1>8, <2>1 DEF Less
<1> QED BY <1>6, <1>8, <1>9, <1>10, <1>11 DEF events, rest, back, chunk

\* One more segment, after those that are packed.
LEMMA OneMore ==
  ASSUME NEW s \in Client, NEW t \in Client, NEW sv, NEW seg \in Segment,
         SegsPending(s, sv), t.events = s.events,
         t.run.segs = Append(s.run.segs, seg),
         seg.events # <<>>, Pending(seg.events, s, sv),
         Less(Numbers(seg.events), Numbers(t.buffer)),
         \A i \in 1..Len(s.run.segs) :
           /\ Less(Numbers(s.run.segs[i].events), Numbers(seg.events))
           /\ Less(Numbers(s.run.segs[i].events), Numbers(t.buffer))
  PROVE  /\ SegsPending(t, sv) /\ Len(t.run.segs) = Len(s.run.segs) + 1
         /\ t.run.segs[Len(s.run.segs) + 1] = seg
         /\ \A i \in 1..Len(s.run.segs) : t.run.segs[i] = s.run.segs[i]
         /\ Bytes(t.run.segs) = Bytes(s.run.segs) + seg.size
         /\ Bytes(s.run.segs) \in Nat /\ Len(s.run.segs) \in Nat
<1> DEFINE n == Len(s.run.segs)
<1>1. s.run.segs \in Seq(Segment)
  BY DEF Client, Run
<1>2. n \in Nat
  BY <1>1, LenProperties
<1>3. /\ Len(t.run.segs) = n + 1 /\ t.run.segs[n + 1] = seg
      /\ \A i \in 1..n : t.run.segs[i] = s.run.segs[i]
  BY <1>1, AppendProperties
<1>4. Bytes(t.run.segs) = Bytes(s.run.segs) + seg.size /\ Bytes(s.run.segs) \in Nat
  BY <1>1, BytesOfMore
<1>5. Fresh(t, sv) = Fresh(s, sv)
  BY DEF Fresh
<1> HIDE DEF n
<1>6. \A i \in 1..n + 1 : i \in 1..n \/ i = n + 1
  BY <1>2
<1>7. ASSUME NEW i \in 1..n + 1
      PROVE  /\ t.run.segs[i].events # <<>>
             /\ Pending(t.run.segs[i].events, t, sv)
             /\ Less(Numbers(t.run.segs[i].events), Numbers(t.buffer))
             /\ \A j \in 1..n + 1 : i < j =>
                  Less(Numbers(t.run.segs[i].events), Numbers(t.run.segs[j].events))
  <2>1. CASE i = n + 1
    <3>1. \A j \in 1..n + 1 : ~(i < j)
      BY <1>2, <2>1
    <3> QED BY <1>3, <1>5, <2>1, <3>1 DEF Pending
  <2>2. CASE i \in 1..n
    <3>1. /\ s.run.segs[i].events # <<>> /\ Pending(s.run.segs[i].events, s, sv)
          /\ \A j \in 1..n : i < j =>
               Less(Numbers(s.run.segs[i].events), Numbers(s.run.segs[j].events))
      BY <2>2 DEF SegsPending, n
    <3>2. Less(Numbers(s.run.segs[i].events), Numbers(seg.events))
          /\ Less(Numbers(s.run.segs[i].events), Numbers(t.buffer))
      BY <2>2 DEF n
    <3>3. ASSUME NEW j \in 1..n + 1, i < j
          PROVE  Less(Numbers(t.run.segs[i].events), Numbers(t.run.segs[j].events))
      BY <1>3, <1>6, <2>2, <3>1, <3>2, <3>3
    <3> QED BY <1>3, <1>5, <2>2, <3>1, <3>2, <3>3 DEF Pending
  <2> QED BY <1>6, <2>1, <2>2
<1>8. SegsPending(t, sv)
  BY <1>3, <1>7 DEF SegsPending
<1> QED BY <1>2, <1>3, <1>4, <1>8 DEF n

\* GzipFits does: a segment more, the budget used up, or no paint base.
LEMMA GzipFitsKeeps == IInv /\ GzipFits => IInv' /\ ~Awaits("starting")'
<1> SUFFICES ASSUME IInv, GzipFits PROVE IInv' /\ ~Awaits("starting")'
  OBVIOUS
<1>1. /\ client \in Client /\ client.run \in Run /\ server \in Table
      /\ Good(client, server, page) /\ client.run.step = "packing"
      /\ UNCHANGED <<waiting, page, server, link>>
  BY Facts DEF GzipFits, Awaits
<1> DEFINE chunk == client.run.chunk
           segs == client.run.segs
           next == client.run.next
           events(k) == First(chunk, k)
           back(k) == From(chunk, k + 1) \o client.buffer
           s(k) == [client EXCEPT !.buffer = back(k), !.run.chunk = <<>>]
           seg(k, size) == [index |-> next, events |-> events(k), size |-> size]
           over(k) == [s(k) EXCEPT !.buffer = <<>>, !.run.over = TRUE]
           more(k, size) == [s(k) EXCEPT !.run.segs = Append(@, seg(k, size))]
<1>2. PICK k \in 1..Len(chunk), size \in Sizes :
        client' = CASE next = 0 /\ ~HasFull(events(k)) -> Abort(s(k))
                    [] OverBudget(s(k), size) /\ next > 0 -> Post(over(k))
                    [] OTHER -> Pack(more(k, size))
  BY DEF GzipFits
<1>3. size \in Nat /\ next \in Nat /\ segs \in Seq(Segment) /\ client.index \in Nat
      /\ client.bytes \in Nat /\ chunk \in Seq(Event)
  BY <1>1, ReplayUploadAssumption DEF Client, Run
<1>4. /\ events(k) \in Seq(Event) /\ events(k) # <<>> /\ events(k)[1] = chunk[1]
      /\ Pending(events(k), client, server)
      /\ back(k) \in Seq(Event) /\ Pending(back(k), client, server)
      /\ Less(Numbers(events(k)), Numbers(back(k)))
      /\ \A i \in 1..Len(segs) :
           /\ Less(Numbers(segs[i].events), Numbers(events(k)))
           /\ Less(Numbers(segs[i].events), Numbers(back(k)))
  BY <1>1, Split DEF Good
<1>5. InOrder(client, server) /\ SegsPending(client, server)
  BY <1>1 DEF Good, InOrder
<1>6. page.holds = 0 =>
        /\ Numbered(client) /\ Painted(client) /\ Budgeted(client)
        /\ next = client.index + Len(segs) /\ next < MaxSegmentsAllowed(client)
  BY <1>1 DEF Good, Sound, AtItsStep, Packed
<1> DEFINE run0 == [client.run EXCEPT !.chunk = <<>>]
           run1 == [run0 EXCEPT !.over = TRUE]
           run2 == [run0 EXCEPT !.segs = Append(segs, seg(k, size))]
<1>7. run0 \in Run /\ run1 \in Run /\ run1.segs = segs
  BY <1>1, NoEvents DEF Run
<1>8. seg(k, size) \in Segment
  BY <1>3, <1>4 DEF Segment
<1>9. run2 \in Run /\ run2.segs = Append(segs, seg(k, size))
  <2>1. Append(segs, seg(k, size)) \in Seq(Segment)
    BY <1>3, <1>8, AppendProperties
  <2> HIDE DEF seg
  <2> QED BY <1>1, <1>7, <2>1 DEF Run
<1> DEFINE c0 == [client EXCEPT !.buffer = back(k), !.run = run0]
           c1 == [client EXCEPT !.buffer = <<>>, !.run = run1]
           c2 == [client EXCEPT !.buffer = back(k), !.run = run2]
<1> HIDE DEF events, back
<1>10. s(k) = c0 /\ over(k) = c1 /\ more(k, size) = c2
  BY <1>1, <1>3 DEF Client, Run
<1>11. CASE next = 0 /\ ~HasFull(events(k))
  <2>1. client' = Abort(c0)
    BY <1>2, <1>10, <1>11
  <2> HIDE DEF run0
  <2>2. c0 \in Client
    BY <1>1, <1>4, <1>7 DEF Client
  <2>3. /\ c0.buffer = back(k) /\ c0.rid = client.rid /\ c0.started = client.started
        /\ c0.finished = client.finished /\ c0.index = client.index
        /\ c0.linkable = client.linkable /\ c0.events = client.events
        /\ c0.recorder = client.recorder /\ c0.sampled = client.sampled
        /\ c0.uploading = client.uploading
    BY <1>1 DEF Client
  <2> HIDE DEF c0
  <2>4. Ready(c0, server, page)
    BY <1>1, <1>4, <2>2, <2>3
    DEF Good, Ready, Loose, InOrder, Pending, Fresh, Sound, Believes, Reopens
  <2>5. Settled(client', server, page)
    BY <1>1, <2>1, <2>4, AbortEnds DEF Settled
  <2> QED BY <1>1, <2>5, SameServer DEF Settled, Awaits
<1>12. CASE OverBudget(s(k), size) /\ next > 0
  <2>1. client' = Post(c1)
    BY <1>2, <1>3, <1>10, <1>12
  <2> HIDE DEF run1
  <2>2. c1 \in Client
    BY <1>1, <1>7, NoEvents DEF Client
  <2>3. /\ c1.buffer = <<>> /\ c1.rid = client.rid /\ c1.started = client.started
        /\ c1.finished = client.finished /\ c1.index = client.index
        /\ c1.linkable = client.linkable /\ c1.events = client.events
        /\ c1.recorder = client.recorder /\ c1.sampled = client.sampled
        /\ c1.uploading = client.uploading /\ c1.run.segs = segs /\ c1.bytes = client.bytes
    BY <1>1, <1>7 DEF Client
  <2> HIDE DEF c1
  <2>4. Pending(c1.buffer, client, server) /\ Less(Numbers(segs), Numbers(c1.buffer))
    BY <2>3, NoEvents DEF Pending, Less
  <2>5. SegsPending(c1, server)
    BY <1>5, <2>3, NoEvents DEF SegsPending, Pending, Fresh, Less
  <2>6. page.holds = 0 => Numbered(c1) /\ PaintFirst(c1) /\ Budgeted(c1)
    BY <1>6, <2>3
    DEF Numbered, Painted, PaintFirst, Budgeted, ClipMode, MaxSegmentsAllowed
  <2>7. Packing(c1, server, page)
    BY <1>1, <2>2, <2>3, <2>4, <2>5, <2>6, PackingAgain
  <2>8. Settled(client', server, page)
    BY <1>1, <2>1, <2>7, PostSettles DEF Settled
  <2> QED BY <1>1, <2>8, SameServer DEF Settled, Awaits
<1>13. CASE ~(next = 0 /\ ~HasFull(events(k))) /\ ~(OverBudget(s(k), size) /\ next > 0)
  <2>1. client' = Pack(c2)
    BY <1>2, <1>10, <1>13
  <2>2. next = 0 \/ ~OverBudget(s(k), size)
    BY <1>3, <1>13
  <2>3. next = 0 \/ ~ClipMode(client)
        \/ ~(client.bytes + Bytes(segs) + size > ClipBytes)
    <3>1. s(k).run.segs = segs /\ s(k).bytes = client.bytes /\ s(k).sampled = client.sampled
      BY <1>1 DEF Client, Run
    <3> HIDE DEF s
    <3> QED BY <2>2, <3>1 DEF OverBudget, ClipMode
  <2> DEFINE sg == seg(k, size)
  <2>4. sg.index = next /\ sg.events = events(k) /\ sg.size = size /\ sg \in Segment
    BY <1>8
  <2>5. run2.segs = Append(segs, sg)
    BY <1>9
  <2> HIDE DEF run2, sg
  <2>6. c2 \in Client
    BY <1>1, <1>4, <1>9 DEF Client
  <2>7. /\ c2.buffer = back(k) /\ c2.rid = client.rid /\ c2.started = client.started
        /\ c2.finished = client.finished /\ c2.index = client.index
        /\ c2.linkable = client.linkable /\ c2.events = client.events
        /\ c2.recorder = client.recorder /\ c2.sampled = client.sampled
        /\ c2.uploading = client.uploading /\ c2.bytes = client.bytes
        /\ c2.run.segs = Append(segs, sg)
    BY <1>1, <2>5 DEF Client
  <2> HIDE DEF c2
  <2>8. /\ SegsPending(c2, server) /\ Len(c2.run.segs) = Len(segs) + 1
        /\ c2.run.segs[Len(segs) + 1] = sg
        /\ \A i \in 1..Len(segs) : c2.run.segs[i] = segs[i]
        /\ Bytes(c2.run.segs) = Bytes(segs) + size
        /\ Bytes(segs) \in Nat /\ Len(segs) \in Nat
    <3>1. /\ sg.events # <<>> /\ Pending(sg.events, client, server)
          /\ Less(Numbers(sg.events), Numbers(c2.buffer))
          /\ \A i \in 1..Len(client.run.segs) :
               /\ Less(Numbers(client.run.segs[i].events), Numbers(sg.events))
               /\ Less(Numbers(client.run.segs[i].events), Numbers(c2.buffer))
      BY <1>4, <2>4, <2>7
    <3>2. sg \in Segment /\ c2.events = client.events
          /\ c2.run.segs = Append(client.run.segs, sg)
      BY <2>4, <2>7
    <3>3. client \in Client /\ SegsPending(client, server)
      BY <1>1, <1>5
    <3> HIDE DEF segs
    <3>4. /\ SegsPending(c2, server) /\ Len(c2.run.segs) = Len(client.run.segs) + 1
          /\ c2.run.segs[Len(client.run.segs) + 1] = sg
          /\ \A i \in 1..Len(client.run.segs) : c2.run.segs[i] = client.run.segs[i]
          /\ Bytes(c2.run.segs) = Bytes(client.run.segs) + sg.size
          /\ Bytes(client.run.segs) \in Nat /\ Len(client.run.segs) \in Nat
      BY <2>6, <3>1, <3>2, <3>3, OneMore
    <3> QED BY <2>4, <3>4 DEF segs
  <2>9. c2.run.segs # <<>>
    BY <1>3, <2>4, <2>7, AppendProperties
  <2> HIDE DEF segs, next, chunk
  <2>10. ASSUME page.holds = 0 PROVE Numbered(c2) /\ PaintFirst(c2) /\ Budgeted(c2)
    <3> DEFINE n == Len(segs)
    <3>1. n \in Nat /\ \A i \in 1..n + 1 : i \in 1..n \/ i = n + 1
      BY <2>8
    <3>2. \A i \in 1..n : segs[i].index = client.index + i - 1
      BY <1>6, <2>10 DEF Numbered, segs
    <3> HIDE DEF n
    <3>3. next = client.index + n /\ sg.index = client.index + (n + 1) - 1
      BY <1>3, <1>6, <2>4, <2>10, <3>1 DEF n
    <3>4. Numbered(c2)
      BY <2>7, <2>8, <3>1, <3>2, <3>3 DEF Numbered, n
    <3>5. PaintFirst(c2)
      <4> SUFFICES ASSUME client.index = 0 PROVE StartsWithFull(c2.run.segs[1].events)
        BY <2>7 DEF PaintFirst
      <4>1. CASE segs = <<>>
        <5>1. n = 0
          BY <4>1, EmptySeq DEF n
        <5>2. c2.run.segs[1].events = events(k)
          BY <2>4, <2>8, <5>1 DEF n
        <5>3. StartsWithFull(chunk)
          BY <1>1, <1>6, <2>10, <4>1 DEF Painted, segs, chunk
        <5> QED BY <1>4, <5>2, <5>3 DEF StartsWithFull
      <4>2. CASE segs # <<>>
        <5>1. n # 0
          BY <1>3, <4>2, EmptySeq DEF n
        <5>2. c2.run.segs[1] = segs[1]
          BY <2>8, <3>1, <5>1 DEF n
        <5> QED BY <1>6, <2>10, <4>2, <5>2 DEF Painted, segs
      <4> QED BY <4>1, <4>2
    <3>6. Budgeted(c2)
      <4>1. c2.index + Len(c2.run.segs) = next + 1
        BY <1>3, <2>7, <2>8, <3>1, <3>3 DEF n
      <4>2. MaxSegmentsAllowed(c2) = MaxSegmentsAllowed(client)
            /\ MaxSegmentsAllowed(client) \in Nat
        BY <2>7, ReplayUploadAssumption DEF MaxSegmentsAllowed
      <4>3. c2.index + Len(c2.run.segs) <= MaxSegmentsAllowed(c2)
        BY <1>3, <1>6, <2>10, <4>1, <4>2
      <4>4. ClipMode(c2) => c2.bytes + Bytes(c2.run.segs) <= ClipBytes \/ next = 0
        BY <1>3, <2>3, <2>7, <2>8, ReplayUploadAssumption, SMTT(30) DEF ClipMode
      <4> QED BY <4>1, <4>3, <4>4 DEF Budgeted
    <3> QED BY <3>4, <3>5, <3>6
  <2>11. Packing(c2, server, page)
    BY <1>1, <1>4, <2>6, <2>7, <2>8, <2>10, PackingAgain
  <2>12. Settled(client', server, page)
    BY <1>1, <2>1, <2>9, <2>11, PackSettles DEF Settled
  <2> QED BY <1>1, <2>12, SameServer DEF Settled, Awaits
<1> QED BY <1>3, <1>11, <1>12, <1>13

\* GzipTooLarge does: the chunk is shortened, replaced or given up.
LEMMA GzipTooLargeKeeps == IInv /\ GzipTooLarge => IInv' /\ ~Awaits("starting")'
<1> SUFFICES ASSUME IInv, GzipTooLarge PROVE IInv' /\ ~Awaits("starting")'
  OBVIOUS
<1> DEFINE chunk == client.run.chunk
           rest == From(chunk, 2)
           next == client.run.next
           shorter == [client EXCEPT !.run.chunk = rest]
           further == [client EXCEPT !.run.chunk = First(client.buffer, ChunkLen),
                                     !.buffer = From(client.buffer, ChunkLen + 1)]
<1>1. /\ client \in Client /\ client.run \in Run /\ server \in Table
      /\ Good(client, server, page) /\ Ready(client, server, page)
      /\ client.run.step = "packing"
      /\ UNCHANGED <<waiting, page, server, link>>
  BY Facts DEF GzipTooLarge, Awaits
<1>2. client' = IF next = 0 /\ StartsWithFull(chunk) THEN Abort(client)
                ELSE IF rest # <<>> THEN shorter
                ELSE IF client.buffer = <<>> THEN Post(client)
                ELSE further
  BY DEF GzipTooLarge
<1>3. next \in Nat /\ chunk \in Seq(Event) /\ client.index \in Nat
  BY <1>1 DEF Client, Run
<1>4. /\ ChunkPending(client, server) /\ SegsPending(client, server)
      /\ Pending(client.buffer, client, server)
  BY <1>1 DEF Good, InOrder
<1>5. page.holds = 0 =>
        /\ Numbered(client) /\ Painted(client) /\ Budgeted(client)
        /\ next = client.index + Len(client.run.segs)
        /\ next < MaxSegmentsAllowed(client)
  BY <1>1 DEF Good, Sound, AtItsStep, Packed
<1>6. CASE next = 0 /\ StartsWithFull(chunk)
  <2>1. Settled(client', server, page)
    BY <1>1, <1>2, <1>6, AbortEnds DEF Settled
  <2> QED BY <1>1, <2>1, SameServer DEF Settled, Awaits
<1>7. ASSUME ~(next = 0 /\ StartsWithFull(chunk)), page.holds = 0
      PROVE  client.index = 0 => client.run.segs # <<>>
  <2> SUFFICES ASSUME client.index = 0, client.run.segs = <<>> PROVE FALSE
    OBVIOUS
  <2>1. StartsWithFull(chunk)
    BY <1>1, <1>5, <1>7 DEF Painted
  <2>2. Len(client.run.segs) = 0
    BY EmptySeq
  <2> QED BY <1>5, <1>7, <2>1, <2>2
<1> HIDE DEF next
<1>8. CASE ~(next = 0 /\ StartsWithFull(chunk)) /\ rest # <<>>
  <2> DEFINE run == [client.run EXCEPT !.chunk = rest]
             t == [client EXCEPT !.run = run]
  <2>1. /\ rest \in Seq(Event) /\ Numbers(rest) \subseteq Numbers(chunk)
        /\ Increasing(rest)
    <3>1. From(chunk, 2) = From(chunk, 1 + 1) /\ Increasing(chunk)
      BY <1>4 DEF ChunkPending, Pending
    <3> QED BY <1>3, <3>1, Cut
  <2>2. client' = t
    BY <1>1, <1>2, <1>8 DEF Client, Run
  <2> HIDE DEF rest
  <2>3. /\ run \in Run /\ run.chunk = rest /\ run.segs = client.run.segs
        /\ run.step = "packing" /\ run.next = next
    BY <1>1, <2>1 DEF Run, next
  <2> HIDE DEF run
  <2>4. t \in Client
    BY <1>1, <2>3 DEF Client
  <2>5. /\ t.buffer = client.buffer /\ t.rid = client.rid /\ t.started = client.started
        /\ t.finished = client.finished /\ t.index = client.index
        /\ t.linkable = client.linkable /\ t.events = client.events
        /\ t.recorder = client.recorder /\ t.sampled = client.sampled
        /\ t.uploading = client.uploading /\ t.bytes = client.bytes /\ t.run = run
    BY <1>1 DEF Client
  <2> HIDE DEF t
  <2>6. InOrder(t, server)
    <3>1. Fresh(t, server) = Fresh(client, server)
      BY <2>5 DEF Fresh
    <3>2. Pending(t.buffer, t, server) /\ SegsPending(t, server)
      BY <1>4, <2>3, <2>5, <3>1 DEF Pending, SegsPending
    <3>3. ChunkPending(t, server)
      BY <1>4, <1>8, <2>1, <2>3, <2>5, <3>1 DEF ChunkPending, Pending, Less
    <3> QED BY <1>1, <2>5, <3>2, <3>3 DEF Good, InOrder
  <2>7. ASSUME page.holds = 0 PROVE Sound(t, server)
    <3>1. Believes(t, server) /\ Reopens(t, server) /\ Open(t, server)
      BY <1>1, <2>5, <2>7 DEF Good, Sound, AtItsStep, Believes, Reopens, Open
    <3>2. Numbered(t) /\ Budgeted(t)
      BY <1>5, <2>3, <2>5, <2>7 DEF Numbered, Budgeted, ClipMode, MaxSegmentsAllowed
    <3>3. Painted(t)
      BY <1>5, <1>7, <1>8, <2>3, <2>5, <2>7 DEF Painted
    <3>4. t.run.next = t.index + Len(t.run.segs) /\ t.run.next < MaxSegmentsAllowed(t)
      BY <1>5, <2>3, <2>5, <2>7 DEF MaxSegmentsAllowed
    <3> QED BY <2>3, <2>5, <3>1, <3>2, <3>3, <3>4 DEF Sound, AtItsStep, Packed
  <2>8. Good(t, server, page)
    BY <1>1, <2>3, <2>4, <2>5, <2>6, <2>7 DEF Good
  <2> QED BY <1>1, <2>2, <2>3, <2>5, <2>8, SameServer DEF Awaits
<1>9. page.holds = 0 /\ ~(next = 0 /\ StartsWithFull(chunk)) => PaintFirst(client)
  BY <1>5 DEF Painted, PaintFirst
<1>10. CASE ~(next = 0 /\ StartsWithFull(chunk)) /\ rest = <<>>
  <2>1. Packing(client, server, page)
    BY <1>1, <1>4, <1>5, <1>9, <1>10, PackingAgain
  <2>2. CASE client.buffer = <<>>
    <3>1. Settled(client', server, page)
      BY <1>1, <1>2, <1>10, <2>1, <2>2, PostSettles DEF Settled
    <3> QED BY <1>1, <3>1, SameServer DEF Settled, Awaits
  <2>3. CASE client.buffer # <<>>
    <3> DEFINE t == [client EXCEPT !.run.step = "packing",
                                   !.run.chunk = First(client.buffer, ChunkLen),
                                   !.run.next = next,
                                   !.buffer = From(client.buffer, ChunkLen + 1)]
    <3>1. client' = further
      BY <1>2, <1>10, <2>3
    <3>2. further = t
      BY <1>1, ZenonT(60) DEF Client, Run, next
    <3> HIDE DEF t, further
    <3>3. page.holds = 0 =>
            /\ next = client.index + Len(client.run.segs)
            /\ next < MaxSegmentsAllowed(client)
            /\ client.index = 0 /\ client.run.segs = <<>> => StartsWithFull(client.buffer)
      BY <1>5, <1>7, <1>10
    <3>4. Settled(t, server, page)
      BY <1>1, <1>3, <2>1, <2>3, <3>3, TakesChunk DEF t
    <3>5. Settled(client', server, page)
      BY <3>1, <3>2, <3>4 DEF Settled
    <3> QED BY <1>1, <3>5, SameServer DEF Settled, Awaits
  <2> QED BY <2>2, <2>3
<1> QED BY <1>6, <1>8, <1>10

-----------------------------------------------------------------------------
(* A batch settles. *)

\* What follows the segments of which the answer is in.
After(q, k) ==
  k > 0 => Less(Numbers(client.run.segs[k].events), Numbers(q))

\* The server's table once a part of the batch has landed.
Landed(sv, landed, k) ==
  \/ landed = 0 /\ sv = server
  \/ /\ landed > 0
     /\ LET has == On(server, client.run.rid)
            acked == client.run.segs[k].events
        IN sv = Answered(server, client.run.rid, [has EXCEPT
             !.segments = IF @ > client.run.segs[landed].index THEN @
                          ELSE client.run.segs[landed].index + 1,
             !.last = IF k = 0 THEN @ ELSE acked[Len(acked)].n])

\* Land changes the table as Landed says.
LEMMA LandIs ==
  ASSUME NEW landed \in Nat, NEW k \in Nat, Land(landed, k)
  PROVE  Landed(server', landed, k)
BY DEF Land, Landed, HasNow, Has, On, Answered

\* The last event of a segment is one of those that were pending.
LEMMA LastAcknowledged ==
  ASSUME IInv, client.run.step = "uploading", NEW k \in 1..Len(client.run.segs)
  PROVE  LET acked == client.run.segs[k].events
         IN /\ acked[Len(acked)].n \in Numbers(acked)
            /\ acked[Len(acked)].n \in Fresh(client, server)
            /\ acked[Len(acked)].n \in Nat
<1> DEFINE acked == client.run.segs[k].events
<1>1. client.run.segs \in Seq(Segment) /\ client.events \in Nat
  BY Facts DEF Run
<1>2. client.run.segs[k] \in Segment
  BY <1>1, ElementOfSeq
<1>3. acked \in Seq(Event) /\ acked # <<>> /\ Pending(acked, client, server)
  BY <1>2, Facts DEF Segment, Good, InOrder, SegsPending
<1> HIDE DEF acked
<1>4. Len(acked) \in Nat /\ Len(acked) # 0
  BY <1>3, LenProperties, EmptySeq
<1>5. Len(acked) \in 1..Len(acked)
  BY <1>4
<1>6. acked[Len(acked)].n \in Numbers(acked)
  BY <1>5 DEF Numbers
<1> QED BY <1>1, <1>3, <1>6 DEF Pending, Fresh, acked

\* The first k segments are marked as uploaded, with another buffer: what is in it is
\* newer than all the server has acknowledged, and the index is what it knows.
LEMMA Marked ==
  ASSUME IInv, client.run.step = "uploading",
         NEW landed \in 0..Len(client.run.segs), NEW k \in 0..landed,
         NEW sv, Landed(sv, landed, k),
         NEW b \in Seq(Event), Pending(b, client, server), After(b, k)
  PROVE  LET s == Mark([client EXCEPT !.buffer = b], k)
         IN /\ Ready(s, sv, page) /\ sv \in Table
            /\ \A r \in Nat : On(sv, r).segments >= On(server, r).segments
            /\ page.holds = 0 => Open(s, sv) /\ s.index = client.index + k
            /\ \A q : Pending(q, client, server) /\ After(q, k) => Pending(q, s, sv)
            /\ s.buffer = b /\ s.run = client.run
<1> DEFINE segs == client.run.segs
           rid == client.run.rid
           acked == segs[k].events
           last == acked[Len(acked)].n
           s == Mark([client EXCEPT !.buffer = b], k)
<1>1. /\ client \in Client /\ server \in Table /\ rid \in Nat /\ client.rid \in Nat
      /\ client.events \in Nat /\ client.index \in Nat /\ client.run \in Run
      /\ Good(client, server, page)
  BY Facts
<1>2. segs \in Seq(Segment) /\ Len(segs) \in Nat /\ landed \in Nat /\ k \in Nat
  <2>1. segs \in Seq(Segment)
    BY <1>1 DEF Run
  <2>2. Len(segs) \in Nat
    BY <2>1, LenProperties
  <2> QED BY <2>1, <2>2
<1>3. \A i \in 1..Len(segs) : segs[i].index \in Nat
  <2>1. \A i \in 1..Len(segs) : segs[i] \in Segment
    BY <1>2, ElementOfSeq
  <2> QED BY <2>1 DEF Segment
<1>4. k > 0 => k \in 1..Len(segs) /\ last \in Numbers(acked)
               /\ last \in Fresh(client, server) /\ last \in Nat
  BY <1>2, LastAcknowledged
<1>5. /\ s \in Client /\ s.buffer = b /\ s.rid = client.rid /\ s.started = client.started
      /\ s.finished = client.finished /\ s.linkable = client.linkable
      /\ s.events = client.events /\ s.recorder = client.recorder
      /\ s.sampled = client.sampled /\ s.uploading = client.uploading
      /\ s.run = client.run
      /\ s.index = IF k = 0 THEN client.index ELSE segs[k].index + 1
  <2> DEFINE c == [client EXCEPT !.buffer = b]
  <2>1. c \in Client
    BY <1>1 DEF Client
  <2>2. /\ c.buffer = b /\ c.rid = client.rid /\ c.started = client.started
        /\ c.finished = client.finished /\ c.linkable = client.linkable
        /\ c.events = client.events /\ c.recorder = client.recorder
        /\ c.sampled = client.sampled /\ c.uploading = client.uploading
        /\ c.run = client.run /\ c.index = client.index
    BY <1>1 DEF Client
  <2>3. CASE k = 0
    BY <2>1, <2>2, <2>3 DEF Mark
  <2>4. CASE k # 0
    <3> HIDE DEF c
    <3> DEFINE bytes == c.bytes + Bytes(First(c.run.segs, k))
               failed == c.failed /\ c.run.segs[1].index # 0
               index == c.run.segs[k].index + 1
    <3>1. k \in 1..Len(segs)
      BY <1>2, <2>4
    <3>2. First(segs, k) \in Seq(Segment)
      <4>1. Minimum(k, Len(segs)) = k
        BY <1>2, <3>1 DEF Minimum
      <4> QED BY <1>2, <3>1, <4>1, SubSeqProperties DEF First
    <3>3. Bytes(First(segs, k)) \in Nat
      <4>1. [index |-> 0, events |-> <<>>, size |-> 0] \in Segment
        BY NoEvents DEF Segment
      <4> QED BY <3>2, <4>1, BytesOfMore
    <3>4. bytes \in Nat /\ index \in Nat /\ failed \in BOOLEAN
      BY <1>3, <2>1, <2>2, <3>1, <3>3, SMTT(30) DEF Client
    <3>5. s = [c EXCEPT !.index = index, !.bytes = bytes, !.failed = failed]
      BY <2>4 DEF Mark, c
    <3>6. index = segs[k].index + 1
      BY <2>2
    <3> HIDE DEF bytes, index, failed, s
    <3>7. s \in Client /\ s.index = index
      BY <2>1, <3>4, <3>5 DEF Client
    <3> QED BY <2>1, <2>2, <2>4, <3>5, <3>6, <3>7 DEF Client
  <2> QED BY <2>3, <2>4
<1> HIDE DEF s
<1>6. k > 0 => landed > 0
  BY <1>2
<1>7. CASE landed = 0
  <2>1. k = 0 /\ sv = server
    BY <1>2, <1>7 DEF Landed
  <2>2. \A q : Pending(q, client, server) => Pending(q, s, sv)
    BY <1>5, <2>1 DEF Pending, Fresh
  <2>3. Ready(s, sv, page)
    BY <1>1, <1>5, <2>1, <2>2
    DEF Good, InOrder, Ready, Loose, Sound, Believes, Reopens
  <2>4. page.holds = 0 => Open(s, sv) /\ s.index = client.index + k
    BY <1>1, <1>5, <2>1 DEF Good, Sound, AtItsStep, Open
  <2>5. \A r \in Nat : On(sv, r).segments >= On(server, r).segments
    <3>1. \A r \in Nat : On(server, r).segments \in Nat
      BY <1>1, OnReplay DEF Replay
    <3> QED BY <2>1, <3>1
  <2> QED BY <1>1, <1>5, <2>1, <2>2, <2>3, <2>4, <2>5 DEF s
<1>8. CASE landed > 0
  <2> DEFINE has == On(server, rid)
             index == segs[landed].index
             replay == [has EXCEPT
               !.segments = IF has.segments > index THEN has.segments ELSE index + 1,
               !.last = IF k = 0 THEN has.last ELSE last]
  <2>1. sv = Answered(server, rid, replay)
    BY <1>2, <1>8 DEF Landed
  <2>2. has \in Replay /\ index \in Nat
    <3>1. landed \in 1..Len(segs)
      BY <1>2, <1>8
    <3> QED BY <1>1, <1>3, <3>1, OnReplay
  <2> HIDE DEF last, has, index
  <2>3. /\ replay \in Replay /\ replay.started = has.started
        /\ replay.finished = has.finished
        /\ replay.segments >= has.segments /\ replay.segments >= index + 1
        /\ replay.last = IF k = 0 THEN has.last ELSE last
    <3> DEFINE m == IF has.segments > index THEN has.segments ELSE index + 1
               l == IF k = 0 THEN has.last ELSE last
    <3>1. has.segments \in Nat /\ has.last \in Nat
      BY <2>2 DEF Replay
    <3>2. m \in Nat /\ m >= has.segments /\ m >= index + 1
      BY <2>2, <3>1
    <3>3. l \in Nat
      BY <1>2, <1>4, <3>1
    <3>4. replay = [has EXCEPT !.segments = m, !.last = l]
      OBVIOUS
    <3> HIDE DEF m, l, replay
    <3>5. replay \in Replay /\ replay.segments = m /\ replay.last = l
          /\ replay.started = has.started /\ replay.finished = has.finished
      BY <2>2, <3>2, <3>3, <3>4 DEF Replay
    <3> QED BY <3>2, <3>5 DEF l
  <2> HIDE DEF replay, rid
  <2>4. /\ sv \in Table /\ DOMAIN sv = DOMAIN server \union {rid}
        /\ \A r : On(sv, r) = IF r = rid THEN replay ELSE On(server, r)
        /\ \A r \in DOMAIN sv : sv[r] = replay \/ (r \in DOMAIN server /\ sv[r] = server[r])
    <3>1. server \in Table /\ rid \in Nat /\ replay \in Replay
      BY <1>1, <2>3 DEF rid
    <3> DEFINE answered == Answered(server, rid, replay)
    <3>2. /\ answered \in Table /\ DOMAIN answered = DOMAIN server \union {rid}
          /\ \A r : On(answered, r) = IF r = rid THEN replay ELSE On(server, r)
          /\ \A r \in DOMAIN answered :
               answered[r] = replay \/ (r \in DOMAIN server /\ answered[r] = server[r])
      BY <3>1, AnsweredTable, ZenonT(60)
    <3>3. sv = answered
      BY <2>1
    <3> HIDE DEF answered
    <3> QED BY <3>2, <3>3
  <2>5. \A r \in Nat : On(sv, r).segments >= On(server, r).segments
    <3>1. \A r \in Nat : On(server, r).segments \in Nat
      BY <1>1, OnReplay DEF Replay
    <3> QED BY <2>3, <2>4, <3>1 DEF has
  <2>6. /\ \A r \in DOMAIN sv : sv[r].last <= client.events
        /\ \A q : Pending(q, client, server) /\ After(q, k) => Pending(q, s, sv)
    <3>1. \A r \in DOMAIN server : server[r].last <= client.events
      BY <1>1 DEF Good, InOrder
    <3>2. CASE k = 0
      <4>1. Fresh(client, sv) = Fresh(client, server)
            /\ \A r \in DOMAIN sv : sv[r].last <= client.events
        BY <1>1, <2>1, <2>3, <3>1, <3>2, NoneAcknowledged DEF has
      <4>2. Fresh(s, sv) = Fresh(client, sv)
        BY <1>5 DEF Fresh
      <4> QED BY <4>1, <4>2 DEF Pending
    <3>3. CASE k > 0
      <4>1. last \in Numbers(acked) /\ last \in Fresh(client, server) /\ last \in Nat
            /\ replay.last = last
        BY <1>2, <1>4, <2>3, <3>3
      <4>2. \A r \in DOMAIN sv : sv[r].last <= client.events
        BY <2>4, <3>1, <4>1 DEF Fresh
      <4>3. ASSUME NEW q, Pending(q, client, server), After(q, k)
            PROVE  Pending(q, s, sv)
        <5>1. \A n \in Numbers(q) : last < n
          BY <3>3, <4>1, <4>3 DEF After, Less
        <5>2. \A n \in Numbers(q) : n \in Fresh(s, sv)
          BY <1>5, <2>4, <4>1, <4>3, <5>1 DEF Pending, Fresh
        <5> QED BY <4>3, <5>2 DEF Pending
      <4> QED BY <4>2, <4>3
    <3> QED BY <1>2, <3>2, <3>3
  <2>7. ASSUME page.holds = 0
        PROVE  /\ Believes(s, sv) /\ Reopens(s, sv) /\ Open(s, sv)
               /\ s.index = client.index + k
    <3>1. /\ rid = client.rid /\ Believes(client, server) /\ Reopens(client, server)
          /\ Open(client, server) /\ Numbered(client)
      BY <1>1, <2>7 DEF Good, Sound, AtItsStep, Packed, rid
    <3>2. s.index = client.index + k
      <4>1. CASE k = 0
        BY <1>1, <1>5, <4>1
      <4>2. CASE k # 0
        <5>1. segs[k].index = client.index + k - 1
          BY <1>2, <1>4, <3>1, <4>2 DEF Numbered
        <5> QED BY <1>1, <1>2, <1>5, <4>2, <5>1
      <4> QED BY <4>1, <4>2
    <3>3. On(sv, s.rid) = replay /\ replay.segments >= s.index
      <4>1. landed \in 1..Len(segs)
        BY <1>2, <1>8
      <4>2. index = client.index + landed - 1
        BY <3>1, <4>1 DEF Numbered, index
      <4>3. replay.segments \in Nat
        BY <2>3 DEF Replay
      <4> QED BY <1>1, <1>2, <1>5, <2>3, <2>4, <3>1, <3>2, <4>2, <4>3
    <3>4. \A r \in DOMAIN sv : r <= s.rid
      BY <1>1, <1>5, <2>4, <3>1 DEF Believes
    <3>5. Open(s, sv) /\ Reopens(s, sv)
      BY <1>5, <2>3, <3>1, <3>3 DEF Open, Reopens, has
    <3>6. s.linkable # 0 => On(sv, s.linkable).segments > 0
      <4> SUFFICES ASSUME s.linkable # 0 PROVE On(sv, s.linkable).segments > 0
        OBVIOUS
      <4>1. s.linkable \in Nat
        BY <1>5 DEF Client
      <4>2. On(server, s.linkable).segments > 0
        BY <1>5, <3>1 DEF Believes
      <4>3. On(sv, s.linkable).segments \in Nat /\ On(server, s.linkable).segments \in Nat
        BY <1>1, <2>4, OnReplay DEF Replay
      <4> QED BY <2>5, <4>1, <4>2, <4>3
    <3>7. Believes(s, sv)
      <4>1. /\ s.started => On(sv, s.rid).started
            /\ ~s.started => ~On(sv, s.rid).finished /\ s.index = 0
        BY <1>5, <2>3, <3>1, <3>3 DEF Open, Believes, has
      <4>2. s.index <= On(sv, s.rid).segments
        <5>1. s.index \in Nat /\ replay.segments \in Nat
          BY <1>5, <2>3 DEF Client, Replay
        <5> QED BY <3>3, <5>1
      <4>3. (s.recorder = "off" => ~s.sampled) /\ (s.recorder # "on" => s.events = 0)
        BY <1>5, <3>1 DEF Believes
      <4> QED BY <3>4, <3>6, <4>1, <4>2, <4>3 DEF Believes
    <3> QED BY <3>2, <3>5, <3>7
  <2>8. Ready(s, sv, page)
    BY <1>1, <1>5, <2>6, <2>7 DEF Good, Ready, Loose
  <2> QED BY <1>5, <2>4, <2>5, <2>6, <2>7, <2>8 DEF s
<1> QED BY <1>2, <1>7, <1>8

\* What a batch that was not all accepted puts back precedes the buffer.
LEMMA Requeued ==
  ASSUME NEW c \in Client, NEW sv, SegsPending(c, sv), Pending(c.buffer, c, sv),
         NEW k \in 1..Len(c.run.segs)
  PROVE  LET segs == c.run.segs
             rest == EventsOf(From(segs, k + 1)) \o c.buffer
             back == segs[k].events \o rest
         IN /\ rest \in Seq(Event) /\ Pending(rest, c, sv)
            /\ back \in Seq(Event) /\ Pending(back, c, sv)
            /\ segs[k].events \in Seq(Event)
            /\ \A i \in 1..k - 1 : /\ Less(Numbers(segs[i].events), Numbers(rest))
                                   /\ Less(Numbers(segs[i].events), Numbers(back))
<1> DEFINE segs == c.run.segs
           later == From(segs, k + 1)
           events == EventsOf(later)
           rest == events \o c.buffer
           back == segs[k].events \o rest
<1>1. segs \in Seq(Segment) /\ c.buffer \in Seq(Event) /\ Len(segs) \in Nat
  <2>1. c.run \in Run /\ c.buffer \in Seq(Event)
    BY DEF Client
  <2>2. segs \in Seq(Segment)
    BY <2>1 DEF Run
  <2> QED BY <2>1, <2>2, LenProperties
<1>2. ASSUME NEW i \in 1..Len(segs)
      PROVE  /\ segs[i].events \in Seq(Event) /\ Pending(segs[i].events, c, sv)
             /\ Less(Numbers(segs[i].events), Numbers(c.buffer))
             /\ \A j \in 1..Len(segs) :
                  i < j => Less(Numbers(segs[i].events), Numbers(segs[j].events))
  <2>1. segs[i] \in Segment
    BY <1>1, ElementOfSeq
  <2> QED BY <2>1 DEF Segment, SegsPending
<1> HIDE DEF segs
<1>3. /\ later \in Seq(Segment) /\ Len(later) \in Nat
      /\ \A i \in 1..Len(later) : later[i] = segs[k + i] /\ k + i \in k + 1..Len(segs)
  <2>1. k \in 1..Len(segs) /\ k \in Nat
    BY DEF segs
  <2>2. CASE k = Len(segs)
    <3>1. later = <<>>
      BY <1>1, <2>1, <2>2, SubSeqEmpty DEF From
    <3>2. later \in Seq(Segment) /\ Len(later) = 0
      BY <3>1, EmptySeq
    <3> HIDE DEF later
    <3> QED BY <3>2
  <2>3. CASE k < Len(segs)
    <3>1. k + 1 \in 1..Len(segs)
      BY <1>1, <2>1, <2>3
    <3>2. /\ later \in Seq(Segment) /\ Len(later) = Len(segs) - (k + 1) + 1
          /\ \A i \in 1..Len(segs) - (k + 1) + 1 : later[i] = segs[(k + 1) + i - 1]
      BY <1>1, <3>1, SubSeqProperties DEF From
    <3> HIDE DEF later
    <3>3. Len(later) = Len(segs) - k
      BY <1>1, <2>1, <3>2
    <3>4. ASSUME NEW i \in 1..Len(later)
          PROVE  later[i] = segs[k + i] /\ k + i \in k + 1..Len(segs)
      <4>1. i \in 1..Len(segs) - (k + 1) + 1 /\ (k + 1) + i - 1 = k + i
            /\ k + i \in k + 1..Len(segs)
        BY <1>1, <2>1, <3>3
      <4> QED BY <3>2, <4>1
    <3> QED BY <1>1, <2>1, <2>3, <3>2, <3>3, <3>4
  <2> QED BY <1>1, <2>1, <2>2, <2>3
<1>4. k \in 1..Len(segs) /\ k \in Nat /\ k + 1..Len(segs) \subseteq 1..Len(segs)
  BY <1>1 DEF segs
<1> HIDE DEF later
<1>5. /\ events \in Seq(Event) /\ Increasing(events)
      /\ \A n \in Numbers(events) :
           \E i \in 1..Len(later) : n \in Numbers(later[i].events)
  <2>1. \A i \in 1..Len(later) : Increasing(later[i].events)
    BY <1>2, <1>3, <1>4 DEF Pending
  <2>2. ASSUME NEW i \in 1..Len(later), NEW j \in 1..Len(later), i < j
        PROVE  Less(Numbers(later[i].events), Numbers(later[j].events))
    <3>1. k + i < k + j
      BY <1>4, <2>2
    <3> QED BY <1>2, <1>3, <1>4, <3>1
  <2> QED BY <1>3, <2>1, <2>2, EventsOfSegments
<1> HIDE DEF events
<1>6. \A n \in Numbers(events) : \E j \in k + 1..Len(segs) : n \in Numbers(segs[j].events)
  BY <1>3, <1>5
<1>7. /\ Numbers(events) \subseteq Fresh(c, sv)
      /\ Less(Numbers(events), Numbers(c.buffer))
      /\ \A i \in 1..k : Less(Numbers(segs[i].events), Numbers(events))
  <2>1. Numbers(events) \subseteq Fresh(c, sv)
    BY <1>2, <1>4, <1>6 DEF Pending
  <2>2. Less(Numbers(events), Numbers(c.buffer))
    BY <1>2, <1>4, <1>6 DEF Less
  <2>3. ASSUME NEW i \in 1..k PROVE Less(Numbers(segs[i].events), Numbers(events))
    <3>1. i \in 1..Len(segs) /\ \A j \in k + 1..Len(segs) : i < j
      BY <1>1, <1>4
    <3> QED BY <1>2, <1>4, <1>6, <3>1 DEF Less
  <2> QED BY <2>1, <2>2, <2>3
<1>8. /\ rest \in Seq(Event) /\ Numbers(rest) = Numbers(events) \union Numbers(c.buffer)
      /\ Increasing(rest)
  BY <1>1, <1>5, <1>7, Joined DEF Pending
<1> HIDE DEF rest
<1>9. \A i \in 1..k : Less(Numbers(segs[i].events), Numbers(rest))
  BY <1>1, <1>2, <1>4, <1>7, <1>8 DEF Less
<1>10. segs[k].events \in Seq(Event) /\ Increasing(segs[k].events)
       /\ Numbers(segs[k].events) \subseteq Fresh(c, sv)
       /\ Less(Numbers(segs[k].events), Numbers(rest))
  <2>1. k \in 1..k
    BY <1>4
  <2> QED BY <1>2, <1>4, <1>9, <2>1 DEF Pending
<1>11. /\ back \in Seq(Event) /\ Numbers(back) = Numbers(segs[k].events) \union Numbers(rest)
       /\ Increasing(back)
  BY <1>8, <1>10, Joined
<1> HIDE DEF back
<1>12. Pending(rest, c, sv) /\ Pending(back, c, sv)
  BY <1>7, <1>8, <1>10, <1>11 DEF Pending
<1>13. ASSUME NEW i \in 1..k - 1
       PROVE  /\ Less(Numbers(segs[i].events), Numbers(rest))
              /\ Less(Numbers(segs[i].events), Numbers(back))
  <2>1. i \in 1..k /\ i \in 1..Len(segs) /\ i < k
    BY <1>1, <1>4
  <2>2. Less(Numbers(segs[i].events), Numbers(rest))
        /\ Less(Numbers(segs[i].events), Numbers(segs[k].events))
    BY <1>2, <1>4, <1>9, <2>1
  <2> QED BY <1>11, <2>2 DEF Less
<1> QED BY <1>8, <1>10, <1>11, <1>12, <1>13 DEF rest, back, events, later, segs

\* The upload goes on once a segment has landed.
LEMMA AfterBatchSettles ==
  ASSUME NEW s, NEW sv \in Table, NEW p, Ready(s, sv, p),
         p.holds = 0 => Open(s, sv) /\ s.index # 0
  PROVE  Settled(AfterBatch(s), sv, p)
BY LimitEnds, UploadEnds, LoopSettles DEF AfterBatch, Packable

\* What is known while a batch is posted.
LEMMA Uploading ==
  ASSUME IInv, client.run.step = "uploading"
  PROVE  /\ SegsPending(client, server) /\ Pending(client.buffer, client, server)
         /\ client.run.segs \in Seq(Segment) /\ client.run.segs # <<>>
         /\ Len(client.run.segs) \in Nat /\ Len(client.run.segs) > 0
         /\ client.buffer \in Seq(Event)
         /\ page.holds = 0 => Packed(client)
<1>1. client.run.segs \in Seq(Segment)
  BY Facts DEF Run
<1>2. client.run.segs # <<>>
  BY Facts DEF Good
<1>3. Len(client.run.segs) \in Nat /\ Len(client.run.segs) # 0
  BY <1>1, <1>2, LenProperties, EmptySeq
<1>4. SegsPending(client, server) /\ Pending(client.buffer, client, server)
  BY Facts DEF Good, InOrder
<1>5. client.buffer \in Seq(Event)
  BY Facts DEF Client
<1>6. page.holds = 0 => Packed(client)
  BY Facts DEF Good, Sound, AtItsStep
<1> QED BY <1>1, <1>2, <1>3, <1>4, <1>5, <1>6

\* UploadResolves does: all segments are marked, and packing goes on.
LEMMA UploadResolvesKeeps == IInv /\ UploadResolves => IInv' /\ ~Awaits("starting")'
<1> SUFFICES ASSUME IInv, UploadResolves PROVE IInv' /\ ~Awaits("starting")'
  OBVIOUS
<1> DEFINE n == Len(client.run.segs)
           s == Mark([client EXCEPT !.buffer = client.buffer], n)
<1>1. /\ client.run.step = "uploading" /\ Land(n, n)
      /\ client' = AfterBatch(Mark(client, n)) /\ UNCHANGED <<waiting, page, link>>
  BY DEF UploadResolves, Awaits
<1>2. /\ SegsPending(client, server) /\ Pending(client.buffer, client, server)
      /\ n \in Nat /\ n > 0 /\ client.buffer \in Seq(Event)
  BY <1>1, Uploading
<1>3. client = [client EXCEPT !.buffer = client.buffer]
  BY Facts DEF Client
<1>4. client' = AfterBatch(s)
  BY <1>1, <1>3
<1> HIDE DEF n, s
<1>5. n \in 1..Len(client.run.segs) /\ n \in 0..Len(client.run.segs) /\ n \in 0..n
  BY <1>2 DEF n
<1>6. After(client.buffer, n)
  BY <1>2, <1>5 DEF After, SegsPending
<1>7. Landed(server', n, n)
  BY <1>1, <1>2, LandIs
<1>8. /\ Ready(s, server', page) /\ server' \in Table
      /\ \A r \in Nat : On(server', r).segments >= On(server, r).segments
      /\ page.holds = 0 => Open(s, server') /\ s.index = client.index + n
  BY <1>1, <1>2, <1>5, <1>6, <1>7, Marked DEF s
<1>9. page.holds = 0 => s.index # 0
  <2>1. client.index \in Nat
    BY Facts
  <2> QED BY <1>2, <1>8, <2>1
<1>10. Settled(client', server', page)
  BY <1>4, <1>8, <1>9, AfterBatchSettles DEF Settled
<1> QED BY <1>1, <1>8, <1>10, TaskStep DEF Settled, Awaits

\* UploadFails does: what landed is marked, the rest is in order in the buffer.
LEMMA UploadFailsKeeps == IInv /\ UploadFails => IInv' /\ ~Awaits("starting")'
<1> SUFFICES ASSUME IInv, UploadFails PROVE IInv' /\ ~Awaits("starting")'
  OBVIOUS
<1> DEFINE segs == client.run.segs
           rest(k) == EventsOf(From(segs, k + 1)) \o client.buffer
           s(k) == Mark([client EXCEPT !.buffer = rest(k)], k - 1)
<1>1. client.run.step = "uploading" /\ UNCHANGED <<waiting, page, link>>
  BY DEF UploadFails, Awaits
<1>2. PICK k \in 1..Len(segs), fault \in Faults :
        /\ client' = SegmentFails(s(k), k, fault)
        /\ \E landed \in MayHaveLanded(k, fault) : Land(landed, k - 1)
  BY DEF UploadFails
<1>3. /\ SegsPending(client, server) /\ Pending(client.buffer, client, server)
      /\ client \in Client /\ Len(segs) \in Nat
      /\ client.index \in Nat /\ client.run.segs # <<>>
      /\ page.holds = 0 => Packed(client)
  BY <1>1, Uploading, Facts
<1>4. k \in Nat /\ k - 1 \in Nat /\ (k - 1 > 0 => k - 1 \in 1..k - 1)
  BY <1>3
<1>5. PICK landed \in 0..Len(segs) : Land(landed, k - 1) /\ k - 1 \in 0..landed
  BY <1>2, <1>3, <1>4 DEF MayHaveLanded
<1> DEFINE seg == segs[k]
           b == rest(k)
           back == seg.events \o b
<1>6. /\ b \in Seq(Event) /\ Pending(b, client, server)
      /\ back \in Seq(Event) /\ Pending(back, client, server)
      /\ \A i \in 1..k - 1 : /\ Less(Numbers(segs[i].events), Numbers(b))
                             /\ Less(Numbers(segs[i].events), Numbers(back))
  <2> DEFINE r == EventsOf(From(client.run.segs, k + 1)) \o client.buffer
             q == client.run.segs[k].events \o r
  <2>1. /\ r \in Seq(Event) /\ Pending(r, client, server)
        /\ q \in Seq(Event) /\ Pending(q, client, server)
        /\ \A i \in 1..k - 1 : /\ Less(Numbers(client.run.segs[i].events), Numbers(r))
                               /\ Less(Numbers(client.run.segs[i].events), Numbers(q))
    BY <1>3, Requeued
  <2>2. b = r /\ back = q
    OBVIOUS
  <2> HIDE DEF b, back, r, q
  <2> QED BY <2>1, <2>2
<1> HIDE DEF rest
<1>7. After(b, k - 1) /\ After(back, k - 1)
  BY <1>4, <1>6 DEF After
<1>8. Landed(server', landed, k - 1)
  BY <1>4, <1>5, LandIs
<1> DEFINE t == s(k)
<1> HIDE DEF b, back
<1>9. /\ Ready(t, server', page) /\ server' \in Table
      /\ \A r \in Nat : On(server', r).segments >= On(server, r).segments
      /\ page.holds = 0 => Open(t, server') /\ t.index = client.index + (k - 1)
      /\ Pending(back, t, server') /\ t.buffer = b /\ t.run = client.run
  <2>1. t = Mark([client EXCEPT !.buffer = b], k - 1)
    BY DEF b
  <2> HIDE DEF t
  <2> QED BY <1>1, <1>5, <1>6, <1>7, <1>8, <2>1, Marked
<1> DEFINE u == [t EXCEPT !.buffer = back]
           paint == seg.index = 0 /\ StartsWithFull(seg.events)
           single == Len(seg.events) = 1
<1>10. client' = CASE fault = "limit" -> FinishAtLimit(t)
                   [] fault = "oversized" ->
                        IF paint \/ (single /\ HasFull(seg.events)) THEN Abort(t)
                        ELSE AfterBatch(IF single THEN t ELSE u)
                   [] fault = "transient" ->
                        IF t.index = 0 THEN Abort(u) ELSE AfterUpload(u)
                   [] OTHER -> AfterUpload(Disable(u, fault))
  <2>1. client' = SegmentFails(t, k, fault)
    BY <1>2
  <2>2. t.run.segs[k] = seg /\ seg.events \o t.buffer = back
    BY <1>9 DEF back
  <2> HIDE DEF t, seg
  <2> QED BY <2>1, <2>2 DEF SegmentFails
<1> HIDE DEF t
<1>11. Ready(u, server', page)
  BY <1>6, <1>9, Rebuffered
<1>12. u.index = t.index /\ u.started = t.started /\ u.finished = t.finished
       /\ u.rid = t.rid
  BY <1>9 DEF Ready, Loose, Client
<1>13. ASSUME page.holds = 0, ~paint PROVE t.index # 0
  <2> SUFFICES ASSUME t.index = 0 PROVE FALSE
    OBVIOUS
  <2>1. k = 1 /\ client.index = 0
    BY <1>3, <1>4, <1>9, <1>13
  <2>2. 1 \in 1..Len(segs)
    BY <2>1
  <2>3. segs[1].index = 0
    <3>1. segs[1].index = client.index + 1 - 1
      BY <1>3, <1>13, <2>2 DEF Packed, Numbered
    <3> QED BY <2>1, <3>1
  <2>4. StartsWithFull(segs[1].events)
    BY <1>3, <1>13, <2>1 DEF Packed, Painted
  <2> QED BY <1>13, <2>1, <2>3, <2>4
<1> HIDE DEF u
<1>14. Settled(client', server', page)
  <2>1. CASE fault = "limit"
    BY <1>9, <1>10, <2>1, LimitEnds
  <2>2. CASE fault = "oversized"
    <3>1. CASE paint \/ (single /\ HasFull(seg.events))
      BY <1>9, <1>10, <2>2, <3>1, AbortEnds
    <3>2. CASE ~(paint \/ (single /\ HasFull(seg.events)))
      <4>1. page.holds = 0 => t.index # 0 /\ u.index # 0
        BY <1>12, <1>13, <3>2
      <4>2. page.holds = 0 => Open(t, server') /\ Open(u, server')
        BY <1>9, <1>12 DEF Open
      <4>3. Settled(AfterBatch(t), server', page) /\ Settled(AfterBatch(u), server', page)
        BY <1>9, <1>11, <4>1, <4>2, AfterBatchSettles
      <4> QED BY <1>10, <2>2, <3>2, <4>3
    <3> QED BY <3>1, <3>2
  <2>3. CASE fault = "transient"
    BY <1>9, <1>10, <1>11, <2>3, AbortEnds, UploadEnds
  <2>4. CASE fault \notin {"limit", "oversized", "transient"}
    <3>1. Ready(Disable(u, fault), server', page)
      BY <1>11, DisabledReady
    <3> QED BY <1>9, <1>10, <2>4, <3>1, UploadEnds
  <2> QED BY <2>1, <2>2, <2>3, <2>4
<1> QED BY <1>1, <1>9, <1>14, TaskStep DEF Settled, Awaits

-----------------------------------------------------------------------------
(* The steps of the page. *)

Page == [allowed : BOOLEAN, policy : {"pending", "settled"}, blocked : BOOLEAN,
         recorded : Nat, captures : Nat, clips : Nat, holds : Nat]

\* A step of the page that neither withdraws nor gives consent.
LEMMA PageStep ==
  ASSUME IInv, UNCHANGED server, page' \in Page, page'.holds = page.holds,
         page'.blocked = page.blocked, waiting' \in Seq(Task),
         link' \in [rid : Nat, reported : Nat], LinkSound',
         Good(client', server, page)
  PROVE  IInv'
<1>1. TypeOK'
  BY DEF IInv, TypeOK, Page, Good
<1>2. Good(client', server', page')
  BY DEF Good
<1> QED BY <1>1, <1>2 DEF IInv

\* What the steps of the page know.
LEMMA PageFacts ==
  ASSUME IInv
  PROVE  /\ page \in Page /\ waiting \in Seq(Task) /\ link \in [rid : Nat, reported : Nat]
         /\ client \in Client /\ client.chain \in Seq(Task) /\ client.buffer \in Seq(Event)
         /\ client.events \in Nat /\ client.linking \in Nat
         /\ server \in Table /\ Good(client, server, page) /\ LinkSound
         /\ Increasing(client.buffer) /\ Numbers(client.buffer) \subseteq 1..client.events
BY Facts DEF IInv, TypeOK, Page, Client, Good, InOrder, Pending, Fresh

\* A flush call waits like the others.
LEMMA Called ==
  ASSUME IInv, NEW kind \in Kind, NEW awaited \in BOOLEAN, Call(kind, awaited)
  PROVE  waiting' \in Seq(Task)
<1>1. waiting \in Seq(Task) /\ [kind |-> kind, awaited |-> awaited] \in Task
  BY PageFacts DEF Task
<1> QED BY <1>1, AppendProperties DEF Call

\* onRrwebEvent
LEMMA Recorded ==
  ASSUME IInv, NEW full \in BOOLEAN, OnRrwebEvent(full)
  PROVE  Good(client', server, page) /\ waiting' \in Seq(Task) /\ client'.run = client.run
<1> DEFINE s == Push(client, full)
<1>1. /\ client \in Client /\ server \in Table /\ Good(client, server, page)
      /\ waiting \in Seq(Task)
  BY PageFacts
<1>2. /\ s \in Client /\ Grows(s, client) /\ SameReplay(s, client)
      /\ s.linkable = client.linkable /\ s.uploading = client.uploading
  BY PageFacts, Pushed
<1>3. waiting' \in Seq(Task)
  BY <1>1, Called DEF OnRrwebEvent, Kind
<1>4. \/ client' = [s EXCEPT !.recorder = "on"]
      \/ \E k \in 1..Len(s.buffer) :
           client' = [s EXCEPT !.recorder = "on", !.buffer = From(s.buffer, k)]
  BY <1>1 DEF OnRrwebEvent, Push
<1> HIDE DEF s
<1>5. CASE client' = [s EXCEPT !.recorder = "on"]
  <2> DEFINE t == [s EXCEPT !.recorder = "on"]
  <2>1. t \in Client
    BY <1>2 DEF Client
  <2>2. /\ Grows(t, client) /\ SameReplay(t, client) /\ t.linkable = client.linkable
        /\ t.uploading = client.uploading /\ t.recorder = "on"
    BY <1>2 DEF Client, Grows, SameReplay
  <2> HIDE DEF t
  <2>3. Good(t, server, page)
    BY <1>1, <2>1, <2>2, KeepsGood
  <2> QED BY <1>3, <1>5, <2>2, <2>3 DEF t, SameReplay
<1>6. ASSUME NEW k \in 1..Len(s.buffer),
             client' = [s EXCEPT !.recorder = "on", !.buffer = From(s.buffer, k)]
      PROVE  Good(client', server, page) /\ client'.run = client.run
  <2> DEFINE u == [s EXCEPT !.buffer = From(s.buffer, (k - 1) + 1)]
             t == [s EXCEPT !.recorder = "on", !.buffer = From(s.buffer, k)]
  <2>1. k - 1 \in Nat /\ (k - 1) + 1 = k
    <3>1. s.buffer \in Seq(Event)
      BY <1>2 DEF Client
    <3>2. Len(s.buffer) \in Nat
      BY <3>1, LenProperties
    <3> QED BY <3>2
  <2>2. From(s.buffer, k) \in Seq(Event) /\ Grows(u, client)
    BY <1>1, <1>2, <2>1, TrimGrows
  <2>3. t \in Client
    BY <1>2, <2>2 DEF Client
  <2>4. t.buffer = u.buffer /\ t.events = u.events
    BY <1>2, <2>1 DEF Client
  <2>5. /\ SameReplay(t, client) /\ t.linkable = client.linkable
        /\ t.uploading = client.uploading /\ t.recorder = "on"
    BY <1>2 DEF Client, SameReplay
  <2>6. Grows(t, client)
    BY <2>2, <2>4 DEF Grows
  <2> HIDE DEF t
  <2>7. Good(t, server, page)
    BY <1>1, <2>3, <2>5, <2>6, KeepsGood
  <2> QED BY <1>6, <2>5, <2>7 DEF t, SameReplay
<1> QED BY <1>3, <1>4, <1>5, <1>6

\* RecorderLoads preserves the invariant.
LEMMA RecorderLoadsKeeps == IInv /\ RecorderLoads => IInv'
<1> SUFFICES ASSUME IInv, RecorderLoads PROVE IInv'
  OBVIOUS
<1>1. Good(client', server, page) /\ waiting' \in Seq(Task)
  BY Recorded DEF RecorderLoads
<1>2. LinkSound' /\ UNCHANGED <<page, server, link>>
  BY PageFacts DEF RecorderLoads, LinkSound
<1> QED BY <1>1, <1>2, PageFacts, PageStep

\* Record does: an event is newer than all before it.
LEMMA RecordKeeps == IInv /\ Record => IInv'
<1> SUFFICES ASSUME IInv, Record PROVE IInv'
  OBVIOUS
<1>1. Good(client', server, page) /\ waiting' \in Seq(Task)
  BY Recorded DEF Record
<1>2. /\ page' \in Page /\ page'.holds = page.holds /\ page'.blocked = page.blocked
      /\ UNCHANGED <<server, link>>
  BY PageFacts, SMTT(30) DEF Record, Page
<1>3. LinkSound'
  BY <1>2, PageFacts DEF LinkSound
<1> QED BY <1>1, <1>2, <1>3, PageFacts, PageStep

\* FlushCall does.
LEMMA FlushCallKeeps == IInv /\ FlushCall => IInv'
<1> SUFFICES ASSUME IInv, FlushCall PROVE IInv'
  OBVIOUS
<1>1. waiting' \in Seq(Task)
  BY Called DEF FlushCall, Kind
<1>2. LinkSound' /\ UNCHANGED <<client, page, server, link>>
  BY PageFacts DEF FlushCall, LinkSound
<1> QED BY <1>1, <1>2, PageFacts, PageStep

\* EventsFlushed does: the buffer is at most trimmed.
LEMMA EventsFlushedKeeps == IInv /\ EventsFlushed => IInv'
<1> SUFFICES ASSUME IInv, EventsFlushed PROVE IInv'
  OBVIOUS
<1> DEFINE call == Head(waiting)
           chained == [client EXCEPT !.chain = Append(client.chain, call)]
           linking == IF call.awaited THEN client.linking + 1 ELSE client.linking
           trimmed(k) == [client EXCEPT !.buffer = From(client.buffer, k),
                                        !.linking = linking]
<1>1. /\ client \in Client /\ server \in Table /\ Good(client, server, page)
      /\ client.chain \in Seq(Task) /\ client.buffer \in Seq(Event)
      /\ client.linking \in Nat /\ waiting \in Seq(Task) /\ waiting # <<>>
      /\ client.events \in Nat /\ Increasing(client.buffer)
  BY PageFacts DEF EventsFlushed
<1>2. call \in Task /\ Tail(waiting) \in Seq(Task)
  BY <1>1, HeadTailProperties
<1>3. /\ waiting' \in Seq(Task) /\ UNCHANGED <<page, server, link>> /\ LinkSound'
      /\ \/ client' = chained
         \/ \E k \in 1..Len(client.buffer) + 1 : client' = trimmed(k)
  BY <1>2, PageFacts DEF EventsFlushed, LinkSound
<1>4. linking \in Nat
  BY <1>1
<1> HIDE DEF call, linking
<1>5. Good(chained, server, page)
  <2>1. Append(client.chain, call) \in Seq(Task)
    BY <1>1, <1>2, AppendProperties
  <2>2. chained \in Client
    BY <1>1, <2>1 DEF Client
  <2>3. /\ SameReplay(chained, client) /\ chained.linkable = client.linkable
        /\ chained.recorder = client.recorder /\ chained.events = client.events
        /\ chained.uploading = client.uploading /\ chained.buffer = client.buffer
    BY <1>1 DEF Client, SameReplay
  <2>4. Grows(chained, client)
    BY <1>1, <2>3 DEF Grows
  <2> HIDE DEF chained
  <2> QED BY <1>1, <2>2, <2>3, <2>4, KeepsGood
<1>6. ASSUME NEW k \in 1..Len(client.buffer) + 1 PROVE Good(trimmed(k), server, page)
  <2> DEFINE t == trimmed(k)
             u == [client EXCEPT !.buffer = From(client.buffer, (k - 1) + 1)]
  <2>1. k - 1 \in Nat /\ (k - 1) + 1 = k
    <3>1. Len(client.buffer) \in Nat
      BY <1>1, LenProperties
    <3> QED BY <3>1
  <2>2. Grows(client, client)
    BY <1>1 DEF Grows
  <2>3. From(client.buffer, k) \in Seq(Event) /\ Grows(u, client)
    BY <1>1, <2>1, <2>2, TrimGrows
  <2>4. t \in Client
    BY <1>1, <1>4, <2>3 DEF Client
  <2>5. t.buffer = u.buffer /\ t.events = u.events
    BY <1>1, <2>1 DEF Client
  <2>6. /\ SameReplay(t, client) /\ t.linkable = client.linkable
        /\ t.recorder = client.recorder /\ t.events = client.events
        /\ t.uploading = client.uploading
    BY <1>1 DEF Client, SameReplay
  <2>7. Grows(t, client)
    BY <2>3, <2>5 DEF Grows
  <2> HIDE DEF t
  <2>8. Good(t, server, page)
    BY <1>1, <2>4, <2>6, <2>7, KeepsGood
  <2> QED BY <2>8 DEF t
<1>7. Good(client', server, page)
  BY <1>3, <1>5, <1>6
<1> QED BY <1>3, <1>7, PageFacts, PageStep

\* What changes of the client only what no replay depends on.
LEMMA Untouched ==
  ASSUME IInv, NEW t \in Client, SameReplay(t, client),
         t.buffer = client.buffer, t.events = client.events,
         t.recorder = client.recorder, t.linkable \in {client.linkable, 0},
         t.uploading => client.uploading
  PROVE  Good(t, server, page)
<1>1. Grows(t, client)
  BY PageFacts DEF Grows
<1> QED BY <1>1, PageFacts, KeepsGood

\* An error is linked to a replay of which segments have landed.
LEMMA Linked ==
  ASSUME IInv, NEW s \in Client, SameReplay(s, client), s.buffer = client.buffer,
         s.events = client.events, s.recorder = client.recorder,
         s.linkable = client.linkable, s.uploading = client.uploading,
         LinkAndEnqueue(s), page'.holds = page.holds, UNCHANGED server
  PROVE  /\ Good(client', server, page) /\ LinkSound'
         /\ link' \in [rid : Nat, reported : Nat]
<1> DEFINE failed == s.failed /\ (s.sampled \/ LinkOf(s) = 0)
           linkable == IF s.linkable = LinkOf(s) THEN 0 ELSE s.linkable
           t == [s EXCEPT !.failed = failed, !.linkable = linkable]
<1>1. /\ client' = t
      /\ link' = IF s.killed THEN link
                 ELSE [rid |-> LinkOf(s), reported |-> link.reported + 1]
  BY DEF LinkAndEnqueue
<1>2. s.rid \in Nat /\ s.linkable \in Nat /\ s.index \in Nat
  BY DEF Client
<1>3. LinkOf(s) \in {0, s.linkable} \/ (LinkOf(s) = s.rid /\ s.index > 0)
  BY DEF LinkOf
<1>4. link' \in [rid : Nat, reported : Nat]
  BY <1>1, <1>2, <1>3, PageFacts
<1>5. linkable \in Nat /\ linkable \in {s.linkable, 0} /\ failed \in BOOLEAN
  BY <1>2
<1> HIDE DEF linkable, failed
<1>6. t \in Client
  BY <1>5 DEF Client
<1>7. /\ SameReplay(t, client) /\ t.buffer = client.buffer /\ t.events = client.events
      /\ t.recorder = client.recorder /\ t.linkable \in {client.linkable, 0}
      /\ t.uploading = client.uploading
  BY <1>5 DEF Client, SameReplay
<1> HIDE DEF t
<1>8. Good(t, server, page)
  BY <1>6, <1>7, Untouched
<1>9. LinkSound'
  <2>4. CASE s.killed
    BY <1>1, <2>4, PageFacts DEF LinkSound
  <2> SUFFICES ASSUME ~s.killed, page.holds = 0, LinkOf(s) # 0
               PROVE  On(server, LinkOf(s)).segments > 0
    BY <1>1, <2>4 DEF LinkSound
  <2>1. Believes(client, server)
    BY PageFacts DEF Good, Sound
  <2>2. CASE LinkOf(s) = s.linkable
    BY <2>1, <2>2 DEF Believes
  <2>3. CASE LinkOf(s) = s.rid /\ s.index > 0
    <3>1. On(server, s.rid).segments \in Nat
      BY PageFacts, OnReplay DEF Replay
    <3>2. s.index <= On(server, s.rid).segments
      BY <2>1 DEF Believes, SameReplay
    <3> QED BY <1>2, <2>3, <3>1, <3>2
  <2> QED BY <1>3, <2>2, <2>3
<1> QED BY <1>1, <1>4, <1>8, <1>9

\* An error starts a clip.
LEMMA ClipStarts ==
  ASSUME IInv, Eligible(client)
  PROVE  Good(StartClip(client), server, page) /\ StartClip(client).run = client.run
<1> DEFINE u == [client EXCEPT !.uploading = TRUE, !.failed = FALSE]
           v == Checkout(u)
           t == StartClip(client)
<1>1. /\ client \in Client /\ server \in Table /\ Good(client, server, page)
      /\ ~client.sampled /\ ~page.blocked
  BY PageFacts DEF Eligible
<1>2. u \in Client
  BY <1>1 DEF Client
<1>3. /\ SameReplay(u, client) /\ u.buffer = client.buffer /\ u.events = client.events
      /\ u.recorder = client.recorder /\ u.linkable = client.linkable
  BY <1>1 DEF Client, SameReplay
<1> HIDE DEF u
<1>4. Loose(u, server, page)
  BY <1>1, <1>2, <1>3
  DEF Good, Loose, InOrder, Pending, Fresh, Sound, Believes, SameReplay
<1>5. /\ v \in Client /\ Grows(v, u) /\ SameReplay(v, u) /\ v.linkable = u.linkable
      /\ v.recorder = u.recorder /\ (u.recorder # "on" => v = u)
  BY <1>1, <1>4, CheckoutKeeps DEF Loose
<1> HIDE DEF v
<1> DEFINE deadline == IF v.deadline = "none" THEN "running" ELSE v.deadline
<1>6. t = [MarkStarted(v) EXCEPT !.timer = TRUE]
  BY DEF StartClip, u, v
<1>7. MarkStarted(v) = [v EXCEPT !.deadline = deadline, !.timer = v.timer \/ v.sampled]
  BY <1>5 DEF MarkStarted
<1>8. deadline \in {"none", "running", "past"} /\ (v.timer \/ v.sampled) \in BOOLEAN
  BY <1>5 DEF Client
<1> HIDE DEF deadline, t
<1>9. MarkStarted(v) \in Client
  BY <1>5, <1>7, <1>8 DEF Client
<1>10. /\ MarkStarted(v).buffer = v.buffer /\ MarkStarted(v).events = v.events
       /\ MarkStarted(v).recorder = v.recorder /\ MarkStarted(v).linkable = v.linkable
       /\ SameReplay(MarkStarted(v), v)
  BY <1>5, <1>7 DEF Client, SameReplay
<1>11. /\ t \in Client /\ t.buffer = v.buffer /\ t.events = v.events
       /\ t.recorder = v.recorder /\ t.linkable = v.linkable /\ SameReplay(t, v)
  BY <1>6, <1>9, <1>10 DEF Client, SameReplay
<1>12. /\ Grows(t, client) /\ SameReplay(t, client) /\ t.linkable = client.linkable
       /\ t.recorder = "on" \/ (t.recorder = client.recorder /\ t.events = client.events)
  BY <1>3, <1>5, <1>11 DEF Grows, SameReplay
<1>13. Good(t, server, page)
  BY <1>1, <1>11, <1>12, KeepsGood
<1> QED BY <1>12, <1>13 DEF t, SameReplay

\* CaptureError does, and links to nothing that has not landed.
LEMMA CaptureErrorKeeps == IInv /\ CaptureError => IInv'
<1> SUFFICES ASSUME IInv, CaptureError PROVE IInv'
  OBVIOUS
<1>1. client \in Client /\ page \in Page
  BY PageFacts
<1>2. UNCHANGED server
  BY DEF CaptureError
<1>3. CASE /\ Eligible(client)
           /\ client' = StartClip(client)
           /\ Call("flush", TRUE)
           /\ page' = [page EXCEPT !.captures = @ + 1, !.clips = @ + 1]
           /\ UNCHANGED link
  <2>1. Good(client', server, page)
    BY <1>3, ClipStarts
  <2>2. waiting' \in Seq(Task)
    BY <1>3, Called DEF Kind
  <2>3. page' \in Page /\ page'.holds = page.holds /\ page'.blocked = page.blocked
    <3>1. page.captures + 1 \in Nat /\ page.clips + 1 \in Nat
      BY <1>1 DEF Page
    <3>2. page' = [page EXCEPT !.captures = page.captures + 1, !.clips = page.clips + 1]
      BY <1>3
    <3> QED BY <1>1, <3>1, <3>2 DEF Page
  <2>4. LinkSound'
    BY <1>2, <1>3, <2>3, PageFacts DEF LinkSound
  <2> QED BY <1>2, <1>3, <2>1, <2>2, <2>3, <2>4, PageFacts, PageStep
<1>4. CASE /\ client' = [client EXCEPT !.timer = client.timer \/ Eligible(client)]
           /\ Call("flush", TRUE)
           /\ page' = [page EXCEPT !.captures = @ + 1]
           /\ UNCHANGED link
  <2>1. client' \in Client
    BY <1>1, <1>4 DEF Client, Eligible
  <2>2. /\ SameReplay(client', client) /\ client'.buffer = client.buffer
        /\ client'.events = client.events /\ client'.recorder = client.recorder
        /\ client'.linkable = client.linkable /\ client'.uploading = client.uploading
    BY <1>1, <1>4 DEF Client, SameReplay
  <2>3. Good(client', server, page)
    BY <2>1, <2>2, Untouched
  <2>4. waiting' \in Seq(Task)
    BY <1>4, Called DEF Kind
  <2>5. page' \in Page /\ page'.holds = page.holds /\ page'.blocked = page.blocked
    BY <1>1, <1>4 DEF Page
  <2>6. LinkSound'
    BY <1>2, <1>4, <2>5, PageFacts DEF LinkSound
  <2> QED BY <1>2, <1>4, <2>3, <2>4, <2>5, <2>6, PageFacts, PageStep
<1>5. CASE /\ LinkAndEnqueue(client)
           /\ page' = [page EXCEPT !.captures = @ + 1]
           /\ UNCHANGED waiting
  <2>1. SameReplay(client, client)
    BY DEF SameReplay
  <2>2. page' \in Page /\ page'.holds = page.holds /\ page'.blocked = page.blocked
    BY <1>1, <1>5 DEF Page
  <2>3. Good(client', server, page) /\ link' \in [rid : Nat, reported : Nat]
    BY <1>1, <1>2, <1>5, <2>1, Linked
  <2>4. LinkSound'
    BY <1>1, <1>2, <1>5, <2>1, <2>2, Linked
  <2> QED BY <1>2, <1>5, <2>2, <2>3, <2>4, PageFacts, PageStep
<1> QED BY <1>3, <1>4, <1>5 DEF CaptureError

\* Report does, and links to nothing that has not landed.
LEMMA ReportKeeps == IInv /\ Report => IInv'
<1> SUFFICES ASSUME IInv, Report PROVE IInv'
  OBVIOUS
<1> DEFINE s == [client EXCEPT !.linking = client.linking - 1]
<1>1. /\ client \in Client /\ client.linking \in Nat /\ client.linking > 0
      /\ UNCHANGED <<waiting, page, server>>
  BY PageFacts DEF Report
<1>2. LinkAndEnqueue(s)
  BY DEF Report
<1>3. s \in Client
  <2>1. client.linking - 1 \in Nat
    BY <1>1
  <2> QED BY <1>1, <2>1 DEF Client
<1>4. /\ SameReplay(s, client) /\ s.buffer = client.buffer /\ s.events = client.events
      /\ s.recorder = client.recorder /\ s.linkable = client.linkable
      /\ s.uploading = client.uploading
  BY <1>1 DEF Client, SameReplay
<1> HIDE DEF s
<1>5. Good(client', server, page) /\ LinkSound' /\ link' \in [rid : Nat, reported : Nat]
  BY <1>1, <1>2, <1>3, <1>4, Linked
<1> QED BY <1>1, <1>5, PageFacts, PageStep

\* DeadlinePasses does.
LEMMA DeadlinePassesKeeps == IInv /\ DeadlinePasses => IInv'
<1> SUFFICES ASSUME IInv, DeadlinePasses PROVE IInv'
  OBVIOUS
<1>1. client \in Client /\ client' = [client EXCEPT !.deadline = "past"]
      /\ UNCHANGED <<waiting, page, server, link>>
  BY PageFacts DEF DeadlinePasses
<1>2. client' \in Client
  BY <1>1 DEF Client
<1>3. /\ SameReplay(client', client) /\ client'.buffer = client.buffer
      /\ client'.events = client.events /\ client'.recorder = client.recorder
      /\ client'.linkable = client.linkable /\ client'.uploading = client.uploading
  BY <1>1 DEF Client, SameReplay
<1> QED BY <1>1, <1>2, <1>3, Untouched, SameServer

\* TimerFires does.
LEMMA TimerFiresKeeps == IInv /\ TimerFires => IInv'
<1> SUFFICES ASSUME IInv, TimerFires PROVE IInv'
  OBVIOUS
<1> DEFINE kind == IF client.sampled THEN "wall" ELSE "clip"
           task == [kind |-> kind, awaited |-> FALSE]
           chain == IF client.uploading THEN Append(client.chain, task) ELSE client.chain
<1>1. client \in Client /\ client.chain \in Seq(Task)
      /\ client' = [client EXCEPT !.timer = FALSE, !.chain = chain]
      /\ UNCHANGED <<waiting, page, server, link>>
  BY PageFacts DEF TimerFires
<1>2. chain \in Seq(Task)
  <2>1. task \in Task
    BY DEF Task, Kind
  <2> QED BY <1>1, <2>1, AppendProperties
<1> HIDE DEF chain
<1>3. client' \in Client
  BY <1>1, <1>2 DEF Client
<1>4. /\ SameReplay(client', client) /\ client'.buffer = client.buffer
      /\ client'.events = client.events /\ client'.recorder = client.recorder
      /\ client'.linkable = client.linkable /\ client'.uploading = client.uploading
  BY <1>1 DEF Client, SameReplay
<1> QED BY <1>1, <1>3, <1>4, Untouched, SameServer

\* KillSwitch does.
LEMMA KillSwitchKeeps == IInv /\ KillSwitch => IInv'
<1> SUFFICES ASSUME IInv, KillSwitch PROVE IInv'
  OBVIOUS
<1>1. client \in Client /\ client' = Disable(client, "permanent")
      /\ UNCHANGED <<waiting, page, server, link>>
  BY PageFacts DEF KillSwitch
<1> QED BY <1>1, Disabled, Untouched, SameServer

\* EventsRefused does: the events' switch is no replay's.
LEMMA EventsRefusedKeeps == IInv /\ EventsRefused => IInv'
<1> SUFFICES ASSUME IInv, EventsRefused PROVE IInv'
  OBVIOUS
<1>1. client \in Client /\ client' = [client EXCEPT !.killed = TRUE]
      /\ UNCHANGED <<waiting, page, server, link>>
  BY PageFacts DEF EventsRefused
<1>2. client' \in Client
  BY <1>1 DEF Client
<1>3. /\ SameReplay(client', client) /\ client'.buffer = client.buffer
      /\ client'.events = client.events /\ client'.recorder = client.recorder
      /\ client'.linkable = client.linkable /\ client'.uploading = client.uploading
  BY <1>1 DEF Client, SameReplay
<1> QED BY <1>1, <1>2, <1>3, Untouched, SameServer

\* maybeStartReplay draws the sample when the recorder starts: nothing has been
\* recorded yet, so no task has packed anything.
LEMMA MaybeStarted ==
  ASSUME NEW s \in Client, NEW sv \in Table, NEW p, Good(s, sv, p), ~p.blocked,
         NEW sampled \in BOOLEAN, NEW allowed
  PROVE  Good(MaybeStart(s, sampled, allowed), sv, p)
<1>1. CASE s.disabled \/ s.recorder # "off" \/ ~allowed
  BY <1>1 DEF MaybeStart
<1>2. CASE ~(s.disabled \/ s.recorder # "off" \/ ~allowed)
  <2> DEFINE t == MaybeStart(s, sampled, allowed)
             u == [s EXCEPT !.sampled = sampled, !.uploading = sampled,
                            !.recorder = "loading"]
             deadline == IF u.deadline = "none" THEN "running" ELSE u.deadline
             v == [u EXCEPT !.deadline = deadline, !.timer = u.timer \/ u.sampled]
             chain == Append(v.chain, [kind |-> "ensure", awaited |-> FALSE])
             w == [v EXCEPT !.chain = chain]
  <2>1. t = IF sampled THEN w ELSE u
    BY <1>2 DEF MaybeStart, MarkStarted
  <2>2. /\ u \in Client /\ u.deadline \in {"none", "running", "past"}
        /\ u.timer \in BOOLEAN /\ u.sampled = sampled
    BY DEF Client
  <2>3. /\ u.buffer = s.buffer /\ u.rid = s.rid /\ u.started = s.started
        /\ u.finished = s.finished /\ u.index = s.index /\ u.linkable = s.linkable
        /\ u.events = s.events /\ u.run = s.run /\ u.recorder = "loading"
    BY DEF Client
  <2> HIDE DEF u
  <2>4. deadline \in {"none", "running", "past"} /\ (u.timer \/ u.sampled) \in BOOLEAN
    BY <2>2
  <2> HIDE DEF deadline
  <2>5. v \in Client /\ v.chain \in Seq(Task)
    BY <2>2, <2>4 DEF Client
  <2>6. /\ v.buffer = u.buffer /\ v.rid = u.rid /\ v.started = u.started
        /\ v.finished = u.finished /\ v.index = u.index /\ v.linkable = u.linkable
        /\ v.events = u.events /\ v.run = u.run /\ v.recorder = u.recorder
    BY <2>2 DEF Client
  <2> HIDE DEF v
  <2>7. chain \in Seq(Task)
    <3>1. [kind |-> "ensure", awaited |-> FALSE] \in Task
      BY DEF Task, Kind
    <3> QED BY <2>5, <3>1, AppendProperties
  <2> HIDE DEF chain
  <2>8. w \in Client
    BY <2>5, <2>7 DEF Client
  <2>9. /\ w.buffer = v.buffer /\ w.rid = v.rid /\ w.started = v.started
        /\ w.finished = v.finished /\ w.index = v.index /\ w.linkable = v.linkable
        /\ w.events = v.events /\ w.run = v.run /\ w.recorder = v.recorder
    BY <2>5 DEF Client
  <2> HIDE DEF w, t
  <2>10. /\ t \in Client /\ t.buffer = s.buffer /\ t.rid = s.rid /\ t.started = s.started
         /\ t.finished = s.finished /\ t.index = s.index /\ t.linkable = s.linkable
         /\ t.events = s.events /\ t.run = s.run /\ t.recorder = "loading"
    BY <2>1, <2>2, <2>3, <2>6, <2>8, <2>9
  <2>11. InOrder(t, sv)
    BY <2>10 DEF Good, InOrder, Pending, Fresh, SegsPending, ChunkPending
  <2>12. ASSUME p.holds = 0 PROVE Sound(t, sv)
    <3>1. Believes(s, sv) /\ Reopens(s, sv) /\ ~s.sampled /\ s.events = 0
      BY <1>2, <2>12 DEF Good, Sound, Believes
    <3>2. Believes(t, sv)
      BY <2>10, <3>1 DEF Believes
    <3>3. Reopens(t, sv)
      BY <2>10, <3>1 DEF Reopens
    <3>4. Fresh(s, sv) = {}
      BY <3>1 DEF Fresh
    <3>5. \A q \in Seq(Event) : Pending(q, s, sv) => q = <<>>
      <4> SUFFICES ASSUME NEW q \in Seq(Event), Pending(q, s, sv) PROVE q = <<>>
        OBVIOUS
      <4>1. Len(q) \in Nat
        BY LenProperties
      <4>2. \A i \in 1..Len(q) : q[i].n \in Fresh(s, sv)
        BY DEF Pending, Numbers
      <4>3. Len(q) = 0
        BY <3>4, <4>1, <4>2
      <4> QED BY <4>3, EmptySeq
    <3>6. s.run \in Run
      BY DEF Client
    <3>7. s.run.step # "packing"
      <4> SUFFICES ASSUME s.run.step = "packing" PROVE FALSE
        OBVIOUS
      <4>1. s.run.chunk \in Seq(Event)
        BY <3>6 DEF Run
      <4>2. s.run.chunk # <<>> /\ Pending(s.run.chunk, s, sv)
        BY DEF Good, InOrder, ChunkPending
      <4> QED BY <3>5, <4>1, <4>2
    <3>8. s.run.step # "uploading"
      <4> SUFFICES ASSUME s.run.step = "uploading" PROVE FALSE
        OBVIOUS
      <4>1. s.run.segs \in Seq(Segment) /\ s.run.segs # <<>>
        BY <3>6 DEF Run, Good
      <4>2. Len(s.run.segs) \in Nat /\ Len(s.run.segs) # 0
        BY <4>1, LenProperties, EmptySeq
      <4>3. 1 \in 1..Len(s.run.segs)
        BY <4>2
      <4>4. s.run.segs[1] \in Segment
        BY <4>1, <4>3, ElementOfSeq
      <4>5. s.run.segs[1].events \in Seq(Event)
        BY <4>4 DEF Segment
      <4>6. s.run.segs[1].events # <<>> /\ Pending(s.run.segs[1].events, s, sv)
        BY <4>3 DEF Good, InOrder, SegsPending
      <4> QED BY <3>5, <4>5, <4>6
    <3>9. AtItsStep(t, sv)
      BY <2>10, <2>12, <3>7, <3>8 DEF Good, Sound, AtItsStep
    <3> QED BY <3>2, <3>3, <3>9 DEF Sound
  <2>13. Good(t, sv, p)
    BY <2>10, <2>11, <2>12 DEF Good
  <2> QED BY <2>13 DEF t
<1> QED BY <1>1, <1>2

\* PolicyArrives does, although the recorder may start with it.
LEMMA PolicyArrivesKeeps == IInv /\ PolicyArrives => IInv'
<1> SUFFICES ASSUME IInv, PolicyArrives PROVE IInv'
  OBVIOUS
<1> DEFINE off == [client EXCEPT !.uploading = FALSE, !.disabled = TRUE]
           s == [client EXCEPT !.disabled = FALSE]
<1>1. /\ client \in Client /\ server \in Table /\ page \in Page
      /\ Good(client, server, page) /\ UNCHANGED <<waiting, server, link>>
  BY PageFacts DEF PolicyArrives
<1>2. PICK enabled \in BOOLEAN, sampled \in BOOLEAN :
        /\ page' = [page EXCEPT !.policy = "settled", !.allowed = enabled]
        /\ client' = IF ~enabled THEN off
                     ELSE IF page.blocked THEN s ELSE MaybeStart(s, sampled, TRUE)
  BY DEF PolicyArrives
<1>3. page' \in Page /\ page'.holds = page.holds /\ page'.blocked = page.blocked
  BY <1>1, <1>2 DEF Page
<1>4. off \in Client /\ s \in Client
  BY <1>1 DEF Client
<1>5. /\ SameReplay(off, client) /\ off.buffer = client.buffer /\ off.events = client.events
      /\ off.recorder = client.recorder /\ off.linkable = client.linkable /\ ~off.uploading
  BY <1>1 DEF Client, SameReplay
<1>6. /\ SameReplay(s, client) /\ s.buffer = client.buffer /\ s.events = client.events
      /\ s.recorder = client.recorder /\ s.linkable = client.linkable
      /\ s.uploading = client.uploading
  BY <1>1 DEF Client, SameReplay
<1> HIDE DEF off, s
<1>7. Good(off, server, page) /\ Good(s, server, page)
  BY <1>4, <1>5, <1>6, Untouched
<1>8. ~page.blocked => Good(MaybeStart(s, sampled, TRUE), server, page)
  BY <1>1, <1>4, <1>7, MaybeStarted
<1>9. Good(client', server, page)
  BY <1>2, <1>7, <1>8
<1>10. LinkSound'
  BY <1>1, <1>3, PageFacts DEF LinkSound
<1> QED BY <1>1, <1>3, <1>9, <1>10, PageFacts, PageStep

\* holdReplay: what was pending stays so, and no more is said of this page.
LEMMA WithdrawKeeps == IInv /\ Withdraw => IInv'
<1> SUFFICES ASSUME IInv, Withdraw PROVE IInv'
  OBVIOUS
<1>1. /\ client \in Client /\ server \in Table /\ page \in Page /\ client.rid \in Nat
      /\ Good(client, server, page) /\ UNCHANGED <<waiting, server, link>>
  BY PageFacts, Facts DEF Withdraw
<1>2. client' = [client EXCEPT
       !.uploading = FALSE, !.sampled = FALSE, !.timer = FALSE,
       !.recorder = "off", !.buffer = <<>>, !.started = FALSE,
       !.finished = FALSE, !.index = 0, !.bytes = 0, !.deadline = "none",
       !.rid = client.rid + 1]
  BY DEF Withdraw
<1>3. page' \in Page /\ page'.holds = page.holds + 1 /\ page'.holds # 0 /\ page'.holds > 0
  <2> DEFINE more == page.holds + 1
  <2>1. page.holds \in Nat /\ page' = [page EXCEPT !.blocked = TRUE, !.holds = more]
    BY <1>1 DEF Withdraw, Page
  <2>2. more \in Nat /\ more # 0 /\ more > 0
    BY <2>1
  <2> HIDE DEF more
  <2>3. page' \in Page /\ page'.holds = more
    BY <1>1, <2>1, <2>2 DEF Page
  <2> QED BY <2>2, <2>3 DEF more
<1>4. client' \in Client
  <2>1. client.rid + 1 \in Nat /\ <<>> \in Seq(Event)
    BY <1>1, NoEvents
  <2> QED BY <1>1, <1>2, <2>1 DEF Client
<1>5. client'.buffer = <<>> /\ client'.events = client.events /\ client'.run = client.run
      /\ ~client'.uploading
  BY <1>1, <1>2 DEF Client
<1>6. InOrder(client', server)
  BY <1>1, <1>5, NoEvents
  DEF Good, InOrder, Pending, Fresh, SegsPending, ChunkPending, Less
<1>7. Good(client', server', page')
  BY <1>1, <1>3, <1>4, <1>5, <1>6 DEF Good
<1>8. TypeOK'
  BY <1>1, <1>3, <1>4, PageFacts DEF IInv, TypeOK, Page
<1> QED BY <1>3, <1>7, <1>8 DEF IInv, LinkSound

\* Grant does: the replay that begins is one the server has not heard of.
LEMMA GrantKeeps == IInv /\ Grant => IInv'
<1> SUFFICES ASSUME IInv, Grant PROVE IInv'
  OBVIOUS
<1>1. /\ client \in Client /\ server \in Table /\ page \in Page
      /\ Good(client, server, page) /\ UNCHANGED <<waiting, server, link>>
  BY PageFacts DEF Grant
<1>2. page' = [page EXCEPT !.blocked = FALSE] /\ page.holds # 0
  <2>1. page.holds \in Nat /\ page.holds > 0
    BY <1>1 DEF IInv, Grant, Page
  <2> QED BY <2>1 DEF Grant
<1>3. page' \in Page /\ ~page'.blocked /\ page'.holds = page.holds
  BY <1>1, <1>2 DEF Page
<1>4. Good(client, server, page')
  BY <1>1, <1>2, <1>3 DEF Good
<1>5. Good(client', server, page')
  BY <1>1, <1>3, <1>4, MaybeStarted DEF Grant
<1>6. TypeOK'
  BY <1>1, <1>3, <1>5, PageFacts DEF IInv, TypeOK, Page, Good
<1>7. Good(client', server', page') /\ LinkSound'
  BY <1>1, <1>2, <1>3, <1>5 DEF LinkSound
<1> QED BY <1>3, <1>6, <1>7 DEF IInv

-----------------------------------------------------------------------------
(* The theorems. *)

\* A page starts with nothing recorded, and the server knows of no replay.
LEMMA InitInv == Init => IInv
<1> SUFFICES ASSUME Init PROVE IInv
  OBVIOUS
<1>1. Idle \in Run /\ Idle.step = "idle"
  BY EmptySeq DEF Run, Idle, Step, Kind
<1>2. /\ client \in Client /\ client.buffer = <<>> /\ client.run = Idle
      /\ client.rid = 1 /\ ~client.started /\ ~client.finished /\ client.index = 0
      /\ client.linkable = 0 /\ client.events = 0
      /\ client.recorder = "off" => ~client.sampled
  <2>1. PICK cached \in {"none", "on", "off"}, sampled \in BOOLEAN :
          LET on == cached = "on"
              uploads == on /\ sampled
          IN client =
              [uploading |-> uploads, sampled |-> uploads,
               disabled |-> cached = "off", killed |-> FALSE,
               recorder |-> IF on THEN "loading" ELSE "off",
               rid |-> 1, started |-> FALSE, finished |-> FALSE, index |-> 0,
               bytes |-> 0, linkable |-> 0, failed |-> FALSE, buffer |-> <<>>,
               events |-> 0, linking |-> 0, run |-> Idle,
               deadline |-> IF uploads THEN "running" ELSE "none",
               timer |-> uploads,
               chain |-> IF uploads THEN <<[kind |-> "ensure", awaited |-> FALSE]>>
                                    ELSE <<>>]
    BY ZenonT(60) DEF Init
  <2>2. <<[kind |-> "ensure", awaited |-> FALSE]>> \in Seq(Task) /\ <<>> \in Seq(Task)
        /\ <<>> \in Seq(Event)
    <3>1. [kind |-> "ensure", awaited |-> FALSE] \in Task
      BY DEF Task, Kind
    <3> HIDE DEF Task
    <3> QED BY <3>1, EmptySeq
  <2> HIDE DEF Idle
  <2> QED BY <1>1, <2>1, <2>2 DEF Client
<1>3. page \in Page /\ ~page.blocked /\ page.holds = 0
  BY DEF Init, Page
<1>4. server = <<>> /\ DOMAIN server = {} /\ waiting \in Seq(Task)
  <2>1. DOMAIN server = 1..0
    BY DEF Init
  <2> QED BY <2>1, EmptySeq DEF Init
<1>5. link \in [rid : Nat, reported : Nat] /\ link.rid = 0
  BY DEF Init
<1>6. TypeOK
  <2>1. server = [r \in {} |-> Unknown]
    BY <1>4
  <2>2. server \in [DOMAIN server -> Replay]
    BY <1>4
  <2> QED BY <1>2, <1>3, <1>4, <1>5, <2>2 DEF TypeOK, Page
<1>7. InOrder(client, server)
  BY <1>1, <1>2, <1>4, NoEvents DEF InOrder, Pending, Fresh
<1>8. Sound(client, server)
  BY <1>1, <1>2, <1>4 DEF Sound, Believes, Reopens, AtItsStep, On, Unknown
<1>9. Good(client, server, page)
  BY <1>1, <1>2, <1>3, <1>7, <1>8 DEF Good
<1> QED BY <1>3, <1>5, <1>6, <1>9 DEF IInv, LinkSound

\* Every step preserves the invariant.
LEMMA NextInv == IInv /\ [Next]_vars => IInv'
<1> SUFFICES ASSUME IInv, [Next]_vars PROVE IInv'
  OBVIOUS
<1>1. CASE UNCHANGED vars
  BY <1>1 DEF vars, IInv, TypeOK, LinkSound
<1>2. CASE StartTask
  BY <1>2, StartTaskKeeps
<1>3. CASE StartResolves
  BY <1>3, StartResolvesKeeps
<1>4. CASE StartFails
  BY <1>4, StartFailsKeeps
<1>5. CASE GzipFits
  BY <1>5, GzipFitsKeeps
<1>6. CASE GzipTooLarge
  BY <1>6, GzipTooLargeKeeps
<1>7. CASE UploadResolves
  BY <1>7, UploadResolvesKeeps
<1>8. CASE UploadFails
  BY <1>8, UploadFailsKeeps
<1>9. CASE FinishSettles
  BY <1>9, FinishSettlesKeeps
<1>10. CASE RecorderLoads
  BY <1>10, RecorderLoadsKeeps
<1>11. CASE Record
  BY <1>11, RecordKeeps
<1>12. CASE FlushCall
  BY <1>12, FlushCallKeeps
<1>13. CASE EventsFlushed
  BY <1>13, EventsFlushedKeeps
<1>14. CASE CaptureError
  BY <1>14, CaptureErrorKeeps
<1>15. CASE Report
  BY <1>15, ReportKeeps
<1>16. CASE DeadlinePasses
  BY <1>16, DeadlinePassesKeeps
<1>17. CASE TimerFires
  BY <1>17, TimerFiresKeeps
<1>18. CASE PolicyArrives
  BY <1>18, PolicyArrivesKeeps
<1>19. CASE KillSwitch
  BY <1>19, KillSwitchKeeps
<1>20. CASE Withdraw
  BY <1>20, WithdrawKeeps
<1>21. CASE Grant
  BY <1>21, GrantKeeps
<1>22. CASE EventsRefused
  BY <1>22, EventsRefusedKeeps
<1> QED
  BY <1>1, <1>2, <1>3, <1>4, <1>5, <1>6, <1>7, <1>8, <1>9, <1>10, <1>11, <1>12,
     <1>13, <1>14, <1>15, <1>16, <1>17, <1>18, <1>19, <1>20, <1>21, <1>22 DEF Next

\* IInv holds in every reachable state.
THEOREM Invariance == SafeSpec => []IInv
BY InitInv, NextInv, PTL DEF SafeSpec

\* Every variable keeps its type.
THEOREM TypeCorrect == SafeSpec => []TypeOK
<1>1. IInv => TypeOK
  BY DEF IInv
<1> QED BY <1>1, Invariance, PTL

\* As long as consent was never withdrawn, what the client posts goes to a replay that
\* the server has open, although a start, a segment or a finish may have arrived
\* without its answer.
THEOREM PostsWhileOpen == SafeSpec => [](page.holds = 0 => PostedWhileOpen)
<1>1. IInv => (page.holds = 0 => PostedWhileOpen)
  <2> SUFFICES ASSUME IInv, page.holds = 0, Posting
               PROVE  On(server, client.run.rid).started
                      /\ ~On(server, client.run.rid).finished
    BY DEF PostedWhileOpen, Has, On
  <2>1. Sound(client, server) /\ client.run.step = "uploading"
    BY DEF IInv, Good, Posting, Awaits
  <2> QED BY <2>1 DEF Sound, AtItsStep, Believes, Open
<1> QED BY <1>1, Invariance, PTL

\* The events of a batch are in order and none of them was acknowledged before,
\* whatever was refused, cut, packed again or withdrawn in between: this part of
\* SegmentsContinueTheReplay needs nothing of consent.
NoEventTwice ==
  Posting =>
    LET events == EventsOf(Requested)
    IN /\ events # <<>>
       /\ events[1].n > Has(client.run.rid).last
       /\ \A i \in 1..Len(events) - 1 : events[i].n < events[i + 1].n

\* The invariant orders the events of a batch after all that was acknowledged.
LEMMA InvNoEventTwice == IInv => NoEventTwice
<1> DEFINE events == EventsOf(client.run.segs)
<1> SUFFICES ASSUME IInv, client.run.step = "uploading"
             PROVE  /\ events # <<>> /\ events[1].n > On(server, client.run.rid).last
                    /\ \A i \in 1..Len(events) - 1 : events[i].n < events[i + 1].n
  BY DEF NoEventTwice, Posting, Awaits, Requested, Has, On
<1>1. /\ SegsPending(client, server) /\ client.run.segs \in Seq(Segment)
      /\ 1 \in 1..Len(client.run.segs) /\ client.run.segs # <<>>
  BY Uploading
<1>2. /\ events \in Seq(Event) /\ Increasing(events) /\ events # <<>>
      /\ \A n \in Numbers(events) :
           \E i \in 1..Len(client.run.segs) : n \in Numbers(client.run.segs[i].events)
  <2>1. \A i \in 1..Len(client.run.segs) : Increasing(client.run.segs[i].events)
    BY <1>1 DEF SegsPending, Pending
  <2>2. \A i, j \in 1..Len(client.run.segs) :
          i < j => Less(Numbers(client.run.segs[i].events), Numbers(client.run.segs[j].events))
    BY <1>1 DEF SegsPending
  <2>3. client.run.segs[1].events # <<>>
    BY <1>1 DEF SegsPending
  <2> HIDE DEF events
  <2> QED BY <1>1, <2>1, <2>2, <2>3, EventsOfSegments DEF events
<1> HIDE DEF events
<1>3. Len(events) \in Nat /\ Len(events) # 0
  BY <1>2, LenProperties, EmptySeq
<1>4. \A i \in 1..Len(events) - 1 : events[i].n < events[i + 1].n
  <2> SUFFICES ASSUME NEW i \in 1..Len(events) - 1 PROVE events[i].n < events[i + 1].n
    OBVIOUS
  <2>1. i \in 1..Len(events) /\ i + 1 \in 1..Len(events) /\ i < i + 1
    BY <1>3
  <2> QED BY <1>2, <2>1 DEF Increasing
<1>5. events[1].n > On(server, client.run.rid).last
  <2>1. events[1].n \in Numbers(events)
    BY <1>3 DEF Numbers
  <2>2. PICK i \in 1..Len(client.run.segs) : events[1].n \in Numbers(client.run.segs[i].events)
    BY <1>2, <2>1
  <2>3. events[1].n \in Fresh(client, server)
    BY <1>1, <2>2 DEF SegsPending, Pending
  <2>4. \A r \in DOMAIN server : server[r].last \in Nat
    BY Facts, SMTT(30) DEF Table, Replay
  <2> QED BY <2>3, <2>4 DEF Fresh, On, Unknown
<1> QED BY <1>2, <1>4, <1>5

\* What is posted is in order and new, with consent withdrawn or not.
THEOREM NoEventIsPostedTwice == SafeSpec => []NoEventTwice
BY InvNoEventTwice, Invariance, PTL

\* Nor do the segments leave a gap, as long as consent was never withdrawn.
THEOREM SegmentsContinue == SafeSpec => [](page.holds = 0 => SegmentsContinueTheReplay)
<1>1. IInv => (page.holds = 0 => SegmentsContinueTheReplay)
  <2> SUFFICES ASSUME IInv, page.holds = 0, client.run.step = "uploading"
               PROVE  /\ client.run.segs[1].index <= Has(client.run.rid).segments
                      /\ \A i \in 1..Len(client.run.segs) :
                           client.run.segs[i].index = client.run.segs[1].index + i - 1
    BY InvNoEventTwice
    DEF SegmentsContinueTheReplay, NoEventTwice, Posting, Awaits, Requested
  <2>1. /\ Numbered(client) /\ client.run.rid = client.rid
        /\ client.index <= On(server, client.rid).segments
        /\ client.index \in Nat /\ 1 \in 1..Len(client.run.segs)
    BY Uploading, Facts DEF Good, Sound, AtItsStep, Believes, Packed
  <2>2. client.run.segs[1].index = client.index
    <3>1. client.run.segs[1].index = client.index + 1 - 1
      BY <2>1 DEF Numbered
    <3> QED BY <2>1, <3>1
  <2>3. \A i \in 1..Len(client.run.segs) :
          client.run.segs[i].index = client.run.segs[1].index + i - 1
    BY <2>1, <2>2 DEF Numbered
  <2> QED BY <2>1, <2>2, <2>3 DEF Has, On
<1> QED BY <1>1, Invariance, PTL

\* The first segment of a replay begins with a paint base, whatever was trimmed,
\* refused or packed again before, as long as consent was never withdrawn.
THEOREM SegmentZeroIsPainted == SafeSpec => [](page.holds = 0 => SegmentZeroPaints)
<1>1. IInv => (page.holds = 0 => SegmentZeroPaints)
  <2> SUFFICES ASSUME IInv, page.holds = 0, client.run.step = "uploading",
                      client.run.segs[1].index = 0
               PROVE  StartsWithFull(client.run.segs[1].events)
    BY DEF SegmentZeroPaints, Posting, Awaits, Requested
  <2>1. /\ Numbered(client) /\ Painted(client) /\ client.run.segs # <<>>
        /\ client.index \in Nat /\ 1 \in 1..Len(client.run.segs)
    BY Uploading, Facts DEF Packed
  <2>2. client.run.segs[1].index = client.index + 1 - 1
    BY <2>1 DEF Numbered
  <2>3. client.index = 0
    BY <2>1, <2>2
  <2> QED BY <2>1, <2>3 DEF Painted
<1> QED BY <1>1, Invariance, PTL

\* An error clip stays within its segments and bytes, whatever was packed, refused
\* and packed again, as long as consent was never withdrawn.
THEOREM ClipStaysWithinBudget == SafeSpec => [](page.holds = 0 => ClipWithinBudget)
<1>1. IInv => (page.holds = 0 => ClipWithinBudget)
  <2> DEFINE n == Len(client.run.segs)
  <2> SUFFICES ASSUME IInv, page.holds = 0, client.run.step = "uploading", ClipMode(client)
               PROVE  /\ client.run.segs[n].index < ClipSegments
                      /\ \/ client.bytes + Bytes(client.run.segs) <= ClipBytes
                         \/ client.index + n = 1
    BY DEF ClipWithinBudget, Posting, Awaits, Requested
  <2>1. /\ Numbered(client) /\ Budgeted(client) /\ client.run.segs # <<>>
        /\ client.index \in Nat /\ n \in Nat /\ n > 0
    BY Uploading, Facts DEF Packed
  <2>2. client.run.segs[n].index = client.index + n - 1
    <3>1. n \in 1..n
      BY <2>1
    <3> QED BY <2>1, <3>1 DEF Numbered
  <2>3. client.index + n <= ClipSegments /\ ClipSegments \in Nat
    BY <2>1, ReplayUploadAssumption DEF Budgeted, MaxSegmentsAllowed, ClipMode
  <2>4. client.run.segs[n].index < ClipSegments
    BY <2>1, <2>2, <2>3
  <2> QED BY <2>1, <2>4 DEF Budgeted
<1> QED BY <1>1, Invariance, PTL

\* An error names a replay only if segments of it have landed, as long as consent was
\* never withdrawn.
THEOREM LinksHaveLanded == SafeSpec => [](page.holds = 0 => LinkLanded)
<1>1. IInv => (page.holds = 0 => LinkLanded)
  BY DEF IInv, LinkSound, LinkLanded, Has, On
<1> QED BY <1>1, Invariance, PTL

\* Whatever the page does, a task that runs stays where it is.
LEMMA PageLeavesTheTask ==
  ASSUME IInv,
         \/ RecorderLoads \/ Record \/ FlushCall \/ EventsFlushed \/ CaptureError \/ Report
         \/ DeadlinePasses \/ TimerFires \/ PolicyArrives \/ KillSwitch
         \/ Withdraw \/ Grant \/ EventsRefused
  PROVE  client'.run = client.run
<1>1. client \in Client
  BY Facts
<1>2. \A full \in BOOLEAN : OnRrwebEvent(full) => client'.run = client.run
  BY Recorded
<1>3. CASE RecorderLoads \/ Record
  BY <1>2, <1>3 DEF RecorderLoads, Record
<1>4. CASE FlushCall \/ EventsFlushed \/ DeadlinePasses \/ TimerFires
  BY <1>1, <1>4 DEF FlushCall, EventsFlushed, DeadlinePasses, TimerFires, Client
<1>5. CASE Report
  BY <1>1, <1>5 DEF Report, LinkAndEnqueue, Client
<1>6. CASE CaptureError
  <2>1. Eligible(client) => StartClip(client).run = client.run
    BY ClipStarts
  <2>2. \/ Eligible(client) /\ client' = StartClip(client)
        \/ client' = [client EXCEPT !.timer = client.timer \/ Eligible(client)]
        \/ LinkAndEnqueue(client)
    BY <1>6 DEF CaptureError
  <2> QED BY <1>1, <2>1, <2>2 DEF LinkAndEnqueue, Client
<1>7. CASE PolicyArrives \/ Grant
  BY <1>1, <1>7 DEF PolicyArrives, Grant, MaybeStart, MarkStarted, Client
<1>8. CASE KillSwitch \/ EventsRefused
  BY <1>1, <1>8 DEF KillSwitch, Disable, EventsRefused, Client
<1>9. CASE Withdraw
  BY <1>1, <1>9 DEF Withdraw, Client
<1> QED BY <1>3, <1>4, <1>5, <1>6, <1>7, <1>8, <1>9

\* No step asks the server for a replay while consent is withdrawn: the tasks that were
\* waiting find uploading off.
THEOREM StartsWithConsent == SafeSpec => StartedWithConsent
<1> DEFINE Consents == Awaits("starting")' /\ ~Awaits("starting") => ~page.blocked
<1>1. IInv /\ [Next]_vars => [Consents]_vars
  <2> SUFFICES ASSUME IInv, Next, Awaits("starting")', ~Awaits("starting")
               PROVE  ~page.blocked
    BY DEF vars
  <2>1. CASE StartTask
    BY <2>1, StartTaskKeeps
  <2>2. CASE \/ StartResolves \/ StartFails \/ GzipFits \/ GzipTooLarge
             \/ UploadResolves \/ UploadFails \/ FinishSettles
    BY <2>2, StartResolvesKeeps, StartFailsKeeps, GzipFitsKeeps, GzipTooLargeKeeps,
       UploadResolvesKeeps, UploadFailsKeeps, FinishSettlesKeeps
  <2>3. CASE \/ RecorderLoads \/ Record \/ FlushCall \/ EventsFlushed \/ CaptureError
             \/ Report \/ DeadlinePasses \/ TimerFires \/ PolicyArrives \/ KillSwitch
             \/ Withdraw \/ Grant \/ EventsRefused
    BY <2>3, PageLeavesTheTask DEF Awaits
  <2> QED BY <2>1, <2>2, <2>3 DEF Next
<1> QED BY <1>1, Invariance, PTL DEF SafeSpec, StartedWithConsent

=============================================================================
