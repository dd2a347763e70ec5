------------------------- MODULE RegisterBus_proofs -------------------------
(* Proofs about RegisterBus, for any number of serial numbers, retries and   *)
(* chunks: what a caller of read and write is told is true, as long as an    *)
(* answer is late by less than a whole turn of the serial numbers; and then  *)
(* the bus implements Registers.                                             *)
EXTENDS RegisterBus, Integers, TLAPS, SequenceTheorems, WellFoundedInduction

-----------------------------------------------------------------------------
(* The inductive invariant.                                                  *)

Serial == 0..(SerialNumbers - 1)
Request == [serno : Serial, io : {"read", "write"}, age : Nat, value : Nat,
            register : Register]
Response == [serno : Serial, age : Nat, ok : BOOLEAN, value : Nat, damaged : BOOLEAN]

Requests == ToSet(requests)
Responses == ToSet(stream) \cup ToSet(buffer) \cup ToSet(pending)
Waiting == transfer.pc = "receive"
Chunk == Len(transfer.data) + 1

\* The queues hold frames, the registers numbers of writes.
Queues ==
    /\ requests \in Seq(Request)
    /\ stream \in Seq(Response) /\ buffer \in Seq(Response) /\ pending \in Seq(Response)
    /\ \A f \in Requests \cup Responses : f.value <= writes

Tables ==
    /\ serno \in Serial
    /\ transfer \in [pc : {"idle", "send", "receive"}, io : {"read", "write"},
                     data : Seq(Nat), skips : 0..Retries,
                     result : {"done", "failed"}, answered : BOOLEAN]
    /\ Len(transfer.data) <= Chunks
    /\ transfer.pc # "idle" => Len(transfer.data) < Chunks
    /\ \A i \in 1..Len(transfer.data) : transfer.data[i] <= writes
    /\ registers \in [Register -> 0..writes]
    /\ healthy \in BOOLEAN
    /\ writes \in 0..MaxWrites
    /\ held \in [Register -> SUBSET Nat]

Typed == Tables /\ Queues

\* From the oldest to the newest: pending, buffer, stream, requests.
Falling(s) == \A i, j \in 1..Len(s) : i < j => s[i].age > s[j].age
Above(s, t) == \A f \in ToSet(s), g \in ToSet(t) : f.age > g.age

Ordered ==
    /\ Falling(pending) /\ Falling(buffer) /\ Falling(stream) /\ Falling(requests)
    /\ Above(pending, stream) /\ Above(pending, requests)
    /\ Above(buffer, stream) /\ Above(buffer, requests)
    /\ Above(stream, requests)
    /\ pending = <<>> \/ buffer = <<>>

\* A frame's serial number says how old it is, as long as that is not a turn.
Numbered ==
    \A f \in Requests \cup Responses :
        /\ f.age <= MaxAge
        /\ ~Waiting => f.age < MaxAge
        /\ f.serno = serno - f.age \/ f.serno = serno - f.age + SerialNumbers

\* Between two requests something older is consumed, or nothing is overdue.
Consumed ==
    Waiting =>
        /\ \A f \in ToSet(buffer) : f.age > 0
        /\ \/ \A f \in Requests \cup Responses : f.age < MaxAge
           \/ \E f \in Requests \cup ToSet(stream) \cup ToSet(pending) : f.age = 0

\* What the newest request asks for, and what its response says.
Current ==
    Waiting =>
        /\ \A f \in Requests : f.age = 0 =>
              f.register = Chunk /\ f.io = transfer.io /\ f.value = writes
        /\ \A f \in Responses : f.age = 0 /\ f.ok =>
              IF transfer.io = "read" THEN f.value \in held[Chunk]
              ELSE registers[Chunk] = writes

\* What was read, what was acknowledged, and what may still change it.
Told ==
    /\ \A r \in Register : registers[r] \in held[r]
    /\ transfer.io = "read" =>
          \A r \in 1..Len(transfer.data) : transfer.data[r] \in held[r]
    /\ transfer.io = "write" =>
          \A r \in 1..Len(transfer.data) :
              registers[r] = writes /\ \A f \in Requests : f.value = writes

\* The writes under way are later than what is written, and in their order.
InOrder ==
    /\ \A r \in 2..Chunks : registers[r] <= registers[r - 1]
    /\ \A i, j \in 1..Len(requests) : i < j => requests[i].value <= requests[j].value
    /\ \A f \in Requests : f.io = "write" =>
          /\ \A r \in Register : registers[r] <= f.value
          /\ f.register > 1 => registers[f.register - 1] >= f.value

IInv == Typed /\ Ordered /\ Numbered /\ Consumed /\ Current /\ Told /\ InOrder

-----------------------------------------------------------------------------
(* Queues of frames: what their operations keep of ages and elements.        *)

\* The elements of a sequence, by their places.
LEMMA Elements ==
    ASSUME NEW S, NEW s \in Seq(S)
    PROVE  /\ ToSet(s) = {s[i] : i \in 1..Len(s)}
           /\ ToSet(s) \subseteq S
           /\ Len(s) \in Nat
           /\ \A i \in 1..Len(s) : s[i] \in S /\ s[i] \in ToSet(s)
BY LenProperties DEF ToSet

LEMMA NoElements == ToSet(<<>>) = {} /\ Falling(<<>>) /\ Len(<<>>) = 0
<1>1. <<>> \in Seq({}) /\ Len(<<>>) = 0
  BY EmptySeq
<1>2. ToSet(<<>>) = {<<>>[i] : i \in 1..Len(<<>>)}
  BY <1>1, Elements
<1> QED
  BY <1>1, <1>2 DEF Falling

\* Taking the head leaves the rest, which is younger than it.
LEMMA TailFacts ==
    ASSUME NEW S, NEW s \in Seq(S), s # <<>>
    PROVE  /\ Tail(s) \in Seq(S) /\ Head(s) \in ToSet(s) /\ Head(s) \in S
           /\ ToSet(s) = {Head(s)} \cup ToSet(Tail(s))
           /\ Falling(s) => Falling(Tail(s)) /\ \A f \in ToSet(Tail(s)) : Head(s).age > f.age
<1>1. /\ Tail(s) \in Seq(S) /\ Head(s) \in S /\ Len(Tail(s)) = Len(s) - 1
      /\ \A i \in 1..Len(Tail(s)) : Tail(s)[i] = s[i+1]
  BY HeadTailProperties
<1>2. Len(s) \in Nat \ {0} /\ Head(s) = s[1]
  BY EmptySeq
<1>3. /\ ToSet(s) = {s[i] : i \in 1..Len(s)}
      /\ ToSet(Tail(s)) = {Tail(s)[i] : i \in 1..Len(Tail(s))}
  BY <1>1, Elements
<1>4. ToSet(s) = {Head(s)} \cup ToSet(Tail(s))
  <2>1. ASSUME NEW i \in 1..Len(s)
        PROVE  s[i] = Head(s) \/ s[i] \in ToSet(Tail(s))
    <3>1. CASE i = 1
      BY <3>1, <1>2
    <3>2. CASE i # 1
      <4>1. i - 1 \in 1..Len(Tail(s)) /\ Tail(s)[i - 1] = s[i]
        BY <1>1, <1>2, <3>2
      <4> QED
        BY <4>1, <1>3
    <3> QED
      BY <3>1, <3>2
  <2>2. ASSUME NEW i \in 1..Len(Tail(s))
        PROVE  Tail(s)[i] \in ToSet(s)
    BY <1>1, <1>2, <1>3
  <2>3. Head(s) \in ToSet(s)
    BY <1>2, <1>3
  <2> QED
    BY <2>1, <2>2, <2>3, <1>3
<1>5. ASSUME Falling(s)
      PROVE  Falling(Tail(s)) /\ \A f \in ToSet(Tail(s)) : Head(s).age > f.age
  <2>1. ASSUME NEW i \in 1..Len(Tail(s)), NEW j \in 1..Len(Tail(s)), i < j
        PROVE  Tail(s)[i].age > Tail(s)[j].age
    <3>1. i + 1 \in 1..Len(s) /\ j + 1 \in 1..Len(s) /\ i + 1 < j + 1
      BY <1>1, <1>2, <2>1
    <3>2. Tail(s)[i] = s[i+1] /\ Tail(s)[j] = s[j+1]
      BY <1>1
    <3> QED
      BY <3>1, <3>2, <1>5 DEF Falling
  <2>2. ASSUME NEW i \in 1..Len(Tail(s))
        PROVE  Head(s).age > Tail(s)[i].age
    <3>1. i + 1 \in 1..Len(s) /\ 1 \in 1..Len(s) /\ 1 < i + 1
      BY <1>1, <1>2
    <3>2. Tail(s)[i] = s[i+1] /\ Head(s) = s[1]
      BY <1>1, <1>2
    <3> QED
      BY <3>1, <3>2, <1>5 DEF Falling
  <2> QED
    BY <2>1, <2>2, <1>3 DEF Falling
<1> QED
  BY <1>1, <1>4, <1>5

\* A frame put at the end.
LEMMA AppendFacts ==
    ASSUME NEW S, NEW s \in Seq(S), NEW x \in S
    PROVE  /\ Append(s, x) \in Seq(S) /\ Append(s, x) # <<>>
           /\ ToSet(Append(s, x)) = ToSet(s) \cup {x}
           /\ Falling(s) /\ (\A f \in ToSet(s) : f.age > x.age) => Falling(Append(s, x))
<1>1. /\ Append(s, x) \in Seq(S) /\ Len(Append(s, x)) = Len(s) + 1
      /\ \A i \in 1..Len(s) : Append(s, x)[i] = s[i]
      /\ Append(s, x)[Len(s) + 1] = x
  BY AppendProperties
<1>2. Len(s) \in Nat /\ ToSet(s) = {s[i] : i \in 1..Len(s)}
      /\ ToSet(Append(s, x)) = {Append(s, x)[i] : i \in 1..(Len(s) + 1)}
  BY <1>1, Elements
<1>3. \A i \in 1..(Len(s) + 1) : i \in 1..Len(s) \/ i = Len(s) + 1
  BY <1>2
<1>4. ToSet(Append(s, x)) = ToSet(s) \cup {x}
  <2>1. ToSet(Append(s, x)) \subseteq ToSet(s) \cup {x}
    BY <1>1, <1>2, <1>3
  <2>2. ToSet(s) \cup {x} \subseteq ToSet(Append(s, x))
    <3>1. ASSUME NEW i \in 1..Len(s) PROVE s[i] \in ToSet(Append(s, x))
      BY <1>1, <1>2
    <3>2. x \in ToSet(Append(s, x))
      BY <1>1, <1>2
    <3> QED
      BY <3>1, <3>2, <1>2
  <2> QED
    BY <2>1, <2>2
<1>5. ASSUME Falling(s), \A f \in ToSet(s) : f.age > x.age
      PROVE  Falling(Append(s, x))
  <2>1. ASSUME NEW i \in 1..(Len(s) + 1), NEW j \in 1..(Len(s) + 1), i < j
        PROVE  Append(s, x)[i].age > Append(s, x)[j].age
    <3>1. i \in 1..Len(s)
      BY <1>2, <2>1
    <3>2. CASE j \in 1..Len(s)
      BY <3>1, <3>2, <1>1, <1>5, <2>1 DEF Falling
    <3>3. CASE j = Len(s) + 1
      <4>1. s[i] \in ToSet(s)
        BY <3>1, <1>2
      <4> QED
        BY <3>1, <3>3, <4>1, <1>1, <1>5
    <3> QED
      BY <3>2, <3>3, <1>3
  <2> QED
    BY <2>1, <1>1 DEF Falling
<1>6. Append(s, x) # <<>>
  BY <1>1, <1>2, EmptySeq
<1> QED
  BY <1>1, <1>4, <1>5, <1>6

\* One queue after another.
LEMMA ConcatFacts ==
    ASSUME NEW S, NEW s \in Seq(S), NEW t \in Seq(S)
    PROVE  /\ s \o t \in Seq(S)
           /\ ToSet(s \o t) = ToSet(s) \cup ToSet(t)
           /\ Falling(s) /\ Falling(t) /\ Above(s, t) => Falling(s \o t)
<1>1. /\ s \o t \in Seq(S) /\ Len(s \o t) = Len(s) + Len(t)
      /\ \A i \in 1..(Len(s) + Len(t)) :
            (s \o t)[i] = IF i <= Len(s) THEN s[i] ELSE t[i - Len(s)]
  BY ConcatProperties
<1>2. /\ Len(s) \in Nat /\ Len(t) \in Nat
      /\ ToSet(s) = {s[i] : i \in 1..Len(s)} /\ ToSet(t) = {t[i] : i \in 1..Len(t)}
      /\ ToSet(s \o t) = {(s \o t)[i] : i \in 1..(Len(s) + Len(t))}
  BY <1>1, Elements
<1>3. ASSUME NEW i \in 1..(Len(s) + Len(t))
      PROVE  \/ i \in 1..Len(s) /\ (s \o t)[i] = s[i]
             \/ i - Len(s) \in 1..Len(t) /\ (s \o t)[i] = t[i - Len(s)]
  BY <1>1, <1>2
<1>4. ToSet(s \o t) = ToSet(s) \cup ToSet(t)
  <2>1. ASSUME NEW i \in 1..(Len(s) + Len(t))
        PROVE  (s \o t)[i] \in ToSet(s) \cup ToSet(t)
    BY <1>3, <1>2
  <2>2. ASSUME NEW i \in 1..Len(s) PROVE s[i] \in ToSet(s \o t)
    <3>1. i \in 1..(Len(s) + Len(t)) /\ (s \o t)[i] = s[i]
      BY <1>1, <1>2
    <3> QED
      BY <3>1, <1>2
  <2>3. ASSUME NEW i \in 1..Len(t) PROVE t[i] \in ToSet(s \o t)
    <3>1. i + Len(s) \in 1..(Len(s) + Len(t)) /\ ~(i + Len(s) <= Len(s))
          /\ (i + Len(s)) - Len(s) = i
      BY <1>2
    <3>2. (s \o t)[i + Len(s)] = t[i]
      BY <3>1, <1>1
    <3> QED
      BY <3>1, <3>2, <1>2
  <2> QED
    BY <2>1, <2>2, <2>3, <1>2
<1>5. ASSUME Falling(s), Falling(t), Above(s, t)
      PROVE  Falling(s \o t)
  <2>1. ASSUME NEW i \in 1..(Len(s) + Len(t)), NEW j \in 1..(Len(s) + Len(t)), i < j
        PROVE  (s \o t)[i].age > (s \o t)[j].age
    <3>1. CASE i \in 1..Len(s) /\ j \in 1..Len(s)
      BY <3>1, <1>1, <1>2, <1>5, <2>1 DEF Falling
    <3>2. CASE i \in 1..Len(s) /\ j \notin 1..Len(s)
      <4>1. (s \o t)[i] = s[i] /\ (s \o t)[j] = t[j - Len(s)] /\ j - Len(s) \in 1..Len(t)
        BY <3>2, <1>1, <1>2
      <4>2. s[i] \in ToSet(s) /\ t[j - Len(s)] \in ToSet(t)
        BY <3>2, <4>1, <1>2
      <4> QED
        BY <4>1, <4>2, <1>5 DEF Above
    <3>3. CASE i \notin 1..Len(s)
      <4>1. /\ i - Len(s) \in 1..Len(t) /\ j - Len(s) \in 1..Len(t)
            /\ i - Len(s) < j - Len(s)
            /\ (s \o t)[i] = t[i - Len(s)] /\ (s \o t)[j] = t[j - Len(s)]
        BY <3>3, <1>1, <1>2, <2>1
      <4> QED
        BY <4>1, <1>5 DEF Falling
    <3> QED
      BY <3>1, <3>2, <3>3
  <2> QED
    BY <2>1, <1>1 DEF Falling
<1> QED
  BY <1>1, <1>4, <1>5

\* A queue cut in two.
LEMMA CutFacts ==
    ASSUME NEW S, NEW s \in Seq(S), NEW n \in 0..Len(s)
    PROVE  LET p == SubSeq(s, 1, n)
               q == SubSeq(s, n + 1, Len(s))
           IN  /\ p \in Seq(S) /\ q \in Seq(S)
               /\ n = Len(s) => q = <<>>
               /\ ToSet(s) = ToSet(p) \cup ToSet(q)
               /\ n > 0 => s[n] \in ToSet(p)
               /\ Falling(s) => Falling(p) /\ Falling(q) /\ Above(p, q)
<1> DEFINE p == SubSeq(s, 1, n)
           q == SubSeq(s, n + 1, Len(s))
<1>1. Len(s) \in Nat /\ ToSet(s) = {s[i] : i \in 1..Len(s)} /\ \A i \in 1..Len(s) : s[i] \in S
  BY Elements
<1>2. /\ p \in Seq(S) /\ Len(p) = n
      /\ \A i \in 1..n : p[i] = s[i]
  <2>1. \A i \in 1..n : s[i] \in S
    BY <1>1
  <2>2. /\ p \in Seq(S) /\ Len(p) = IF 1 <= n THEN n - 1 + 1 ELSE 0
        /\ \A i \in 1..n-1+1 : p[i] = s[1+i-1]
    BY <2>1, <1>1, SubSeqProperties
  <2> QED
    BY <2>2, <1>1
<1>3. /\ q \in Seq(S) /\ Len(q) = Len(s) - n
      /\ \A i \in 1..(Len(s) - n) : q[i] = s[n + i]
  <2>1. \A i \in (n + 1)..Len(s) : s[i] \in S
    BY <1>1
  <2>2. /\ q \in Seq(S)
        /\ Len(q) = IF n + 1 <= Len(s) THEN Len(s) - (n + 1) + 1 ELSE 0
        /\ \A i \in 1..Len(s) - (n + 1) + 1 : q[i] = s[(n + 1) + i - 1]
    BY <2>1, <1>1, SubSeqProperties
  <2> QED
    BY <2>2, <1>1
<1> HIDE DEF p, q
<1>4. ToSet(p) = {p[i] : i \in 1..n} /\ ToSet(q) = {q[i] : i \in 1..(Len(s) - n)}
  <2>1. ToSet(p) = {p[i] : i \in 1..Len(p)} /\ ToSet(q) = {q[i] : i \in 1..Len(q)}
    BY <1>2, <1>3, Elements
  <2> QED
    BY <2>1, <1>2, <1>3
<1>5. ToSet(s) = ToSet(p) \cup ToSet(q)
  <2>1. ASSUME NEW i \in 1..Len(s) PROVE s[i] \in ToSet(p) \cup ToSet(q)
    <3>1. CASE i <= n
      BY <3>1, <1>1, <1>2, <1>4
    <3>2. CASE ~(i <= n)
      <4>1. i - n \in 1..(Len(s) - n) /\ n + (i - n) = i
        BY <3>2, <1>1
      <4>2. q[i - n] = s[i]
        BY <4>1, <1>3
      <4> QED
        BY <4>1, <4>2, <1>4
    <3> QED
      BY <3>1, <3>2
  <2>2. ASSUME NEW i \in 1..n PROVE p[i] \in ToSet(s)
    BY <1>1, <1>2
  <2>3. ASSUME NEW i \in 1..(Len(s) - n) PROVE q[i] \in ToSet(s)
    <3>1. n + i \in 1..Len(s)
      BY <1>1
    <3> QED
      BY <3>1, <1>1, <1>3
  <2> QED
    BY <2>1, <2>2, <2>3, <1>1, <1>4
<1>6. n > 0 => s[n] \in ToSet(p)
  BY <1>1, <1>2, <1>4
<1>7. n = Len(s) => q = <<>>
  BY <1>1, <1>3, EmptySeq
<1>8. ASSUME Falling(s) PROVE Falling(p) /\ Falling(q) /\ Above(p, q)
  <2>1. Falling(p)
    BY <1>1, <1>2, <1>8 DEF Falling
  <2>2. Falling(q)
    <3>1. ASSUME NEW i \in 1..(Len(s) - n), NEW j \in 1..(Len(s) - n), i < j
          PROVE  q[i].age > q[j].age
      <4>1. n + i \in 1..Len(s) /\ n + j \in 1..Len(s) /\ n + i < n + j
        BY <1>1, <3>1
      <4> QED
        BY <4>1, <1>3, <1>8 DEF Falling
    <3> QED
      BY <3>1, <1>3 DEF Falling
  <2>3. ASSUME NEW i \in 1..n, NEW j \in 1..(Len(s) - n)
        PROVE  p[i].age > q[j].age
    <3>1. i \in 1..Len(s) /\ n + j \in 1..Len(s) /\ i < n + j
      BY <1>1
    <3> QED
      BY <3>1, <1>2, <1>3, <1>8 DEF Falling
  <2> QED
    BY <2>1, <2>2, <2>3, <1>4 DEF Above
<1> QED
  BY <1>2, <1>3, <1>5, <1>6, <1>7, <1>8 DEF p, q

\* A set of numbers has a least one.
LEMMA Least ==
    ASSUME NEW I \in SUBSET Nat, I # {}
    PROVE  \E x \in I : \A y \in I : x <= y
<1> DEFINE R == {ss \in Nat \X Nat : ss[1] < ss[2]}
<1>1. IsWellFoundedOn(R, Nat)
  BY NatLessThanWellFounded DEF OpToRel
<1>2. \A x, y \in Nat : x < y => <<x, y>> \in R
  OBVIOUS
<1> HIDE DEF R
<1>3. \E x \in I : \A y \in I : ~(<<y, x>> \in R)
  BY <1>1, WFMin, Zenon
<1>4. PICK x \in I : \A y \in I : ~(<<y, x>> \in R)
  BY <1>3
<1>5. ASSUME NEW y \in I PROVE x <= y
  <2>1. ~(y < x)
    BY <1>2, <1>4
  <2> QED
    BY <2>1
<1> QED
  BY <1>5

\* The first damaged frame is one of the frames, if there is any.
LEMMA FirstBadIsThere ==
    ASSUME NEW S, NEW s \in Seq(S)
    PROVE  FirstBad(s) \in 0..Len(s)
<1> DEFINE I == {i \in 1..Len(s) : s[i].damaged}
           least == CHOOSE x \in I : \A y \in I : x <= y
<1>1. Len(s) \in Nat
  BY LenProperties
<1>2. FirstBad(s) = IF I # {} THEN least ELSE 0
  BY DEF FirstBad, SelectInSeq, Min
<1>3. I \in SUBSET (1..Len(s)) /\ I \in SUBSET Nat
  BY <1>1
<1> HIDE DEF I
<1>4. CASE I # {}
  <2>1. \E x \in I : \A y \in I : x <= y
    BY <1>3, <1>4, Least
  <2>2. least \in I
    BY <2>1, Zenon
  <2> HIDE DEF least
  <2> QED
    BY <2>2, <1>1, <1>2, <1>3, <1>4
<1>5. CASE I = {}
  <2> HIDE DEF least
  <2> QED
    BY <1>1, <1>2, <1>5
<1> QED
  BY <1>4, <1>5

\* One frame grows older.
LEMMA OneOlder ==
    /\ \A f \in Request : LET g == [f EXCEPT !.age = @ + 1] IN
          /\ g \in Request /\ g.age = f.age + 1 /\ g.serno = f.serno /\ g.io = f.io
          /\ g.value = f.value /\ g.register = f.register
    /\ \A f \in Response : LET g == [f EXCEPT !.age = @ + 1] IN
          /\ g \in Response /\ g.age = f.age + 1 /\ g.serno = f.serno
          /\ g.ok = f.ok /\ g.value = f.value /\ g.damaged = f.damaged
BY DEF Request, Response

\* Every frame in a queue grows older.
LEMMA OlderFacts ==
    ASSUME NEW s, s \in Seq(Request) \/ s \in Seq(Response)
    PROVE  /\ s \in Seq(Request) => Older(s) \in Seq(Request)
           /\ s \in Seq(Response) => Older(s) \in Seq(Response)
           /\ ToSet(Older(s)) = {[f EXCEPT !.age = @ + 1] : f \in ToSet(s)}
           /\ Len(Older(s)) = Len(s) /\ Len(s) \in Nat
           /\ \A i \in 1..Len(s) : Older(s)[i] = [s[i] EXCEPT !.age = @ + 1]
           /\ Falling(s) => Falling(Older(s))
           /\ s = <<>> => Older(s) = <<>>
<1>1. Len(s) \in Nat /\ DOMAIN s = 1..Len(s) /\ ToSet(s) = {s[i] : i \in 1..Len(s)}
      /\ \A i \in 1..Len(s) : s[i] \in Request \/ s[i] \in Response
  BY LenProperties, Elements
<1>2. Older(s) = [i \in 1..Len(s) |-> [s[i] EXCEPT !.age = @ + 1]]
  BY <1>1 DEF Older
<1>3. ASSUME s \in Seq(Request) PROVE Older(s) \in Seq(Request)
  <2>1. \A i \in 1..Len(s) : s[i] \in Request
    BY <1>3, LenProperties
  <2>2. \A i \in 1..Len(s) : [s[i] EXCEPT !.age = @ + 1] \in Request
    BY <2>1, OneOlder
  <2> QED
    BY <1>1, <1>2, <2>2, SeqDef
<1>4. ASSUME s \in Seq(Response) PROVE Older(s) \in Seq(Response)
  <2>1. \A i \in 1..Len(s) : s[i] \in Response
    BY <1>4, LenProperties
  <2>2. \A i \in 1..Len(s) : [s[i] EXCEPT !.age = @ + 1] \in Response
    BY <2>1, OneOlder
  <2> QED
    BY <1>1, <1>2, <2>2, SeqDef
<1>5. Len(Older(s)) = Len(s) /\ DOMAIN Older(s) = 1..Len(s)
  <2>1. CASE s \in Seq(Request)
    <3>1. DOMAIN Older(s) = 1..Len(Older(s)) /\ Len(Older(s)) \in Nat
      BY <1>3, <2>1, LenProperties
    <3> QED
      BY <3>1, <1>1, <1>2
  <2>2. CASE s \in Seq(Response)
    <3>1. DOMAIN Older(s) = 1..Len(Older(s)) /\ Len(Older(s)) \in Nat
      BY <1>4, <2>2, LenProperties
    <3> QED
      BY <3>1, <1>1, <1>2
  <2> QED
    BY <2>1, <2>2
<1>6. ToSet(Older(s)) = {[f EXCEPT !.age = @ + 1] : f \in ToSet(s)}
  <2>1. ToSet(Older(s)) = {Older(s)[i] : i \in 1..Len(s)}
    BY <1>5 DEF ToSet
  <2> QED
    BY <2>1, <1>1, <1>2
<1>7. ASSUME Falling(s) PROVE Falling(Older(s))
  <2>1. ASSUME NEW i \in 1..Len(s), NEW j \in 1..Len(s), i < j
        PROVE  Older(s)[i].age > Older(s)[j].age
    <3>1. s[i].age > s[j].age
      BY <1>7, <2>1 DEF Falling
    <3>2. s[i].age \in Nat /\ s[j].age \in Nat
      BY <1>1 DEF Request, Response
    <3>3. Older(s)[i].age = s[i].age + 1 /\ Older(s)[j].age = s[j].age + 1
      BY <1>1, <1>2, OneOlder
    <3> QED
      BY <3>1, <3>2, <3>3
  <2> QED
    BY <2>1, <1>5 DEF Falling
<1>8. s = <<>> => Older(s) = <<>>
  BY <1>3, <1>5, EmptySeq
<1> QED
  BY <1>1, <1>2, <1>3, <1>4, <1>5, <1>6, <1>7, <1>8

-----------------------------------------------------------------------------
(* Every variable keeps its type.                                            *)

\* The frames of the queues, by where they are.
LEMMA FrameTypes ==
    Queues => /\ Requests \subseteq Request /\ Responses \subseteq Response
              /\ ToSet(stream) \subseteq Responses /\ ToSet(buffer) \subseteq Responses
              /\ ToSet(pending) \subseteq Responses
BY Elements DEF Queues, Requests, Responses

\* The device takes the oldest request and puts a response at the end.
LEMMA RespondFacts ==
    ASSUME Typed, requests # <<>>, NEW ok \in BOOLEAN, NEW value \in 0..writes,
           Respond(ok, value)
    PROVE  /\ requests' = Tail(requests)
           /\ UNCHANGED <<serno, transfer, buffer, pending, healthy, writes>>
           /\ \E g \in Response :
                 /\ stream' = Append(stream, g)
                 /\ g.serno = Head(requests).serno /\ g.age = Head(requests).age
                 /\ g.ok = ok /\ g.value = value
<1> DEFINE response(damaged) ==
              [serno |-> Head(requests).serno, age |-> Head(requests).age, ok |-> ok,
               value |-> value, damaged |-> damaged]
<1>1. Head(requests) \in Request
  BY TailFacts DEF Typed, Queues
<1>2. ASSUME NEW damaged \in BOOLEAN
      PROVE  /\ response(damaged) \in Response
             /\ response(damaged).serno = Head(requests).serno
             /\ response(damaged).age = Head(requests).age
             /\ response(damaged).ok = ok /\ response(damaged).value = value
  <2>1. value \in Nat
    BY DEF Typed, Tables
  <2> QED
    BY <1>1, <2>1 DEF Request, Response
<1>3. \E damaged \in BOOLEAN : stream' = Append(stream, response(damaged))
  BY DEF Respond
<1> HIDE DEF response
<1> QED
  BY <1>2, <1>3 DEF Respond

\* The first request is one of the requests.
LEMMA FirstRequest ==
    ASSUME Typed, requests # <<>>
    PROVE  /\ Head(requests) \in Requests /\ Head(requests) \in Request
           /\ Head(requests).register \in Register
           /\ Head(requests).io \in {"read", "write"}
           /\ Head(requests).value \in 0..writes /\ Head(requests).age \in Nat
           /\ registers[Head(requests).register] \in 0..writes
           /\ Tail(requests) \in Seq(Request)
           /\ ToSet(Tail(requests)) \subseteq Requests
<1>1. /\ Head(requests) \in Requests /\ Head(requests) \in Request
      /\ Tail(requests) \in Seq(Request)
      /\ ToSet(Tail(requests)) \subseteq Requests
  BY TailFacts DEF Typed, Queues, Requests
<1> QED
  BY <1>1 DEF Typed, Queues, Tables, Request

\* What a handled or lost request leaves in the queues.
LEMMA QueuesAfterRespond ==
    ASSUME Typed, requests # <<>>, NEW g \in Response, g.value <= writes,
           requests' = Tail(requests), stream' = Append(stream, g),
           UNCHANGED <<buffer, pending, writes>>
    PROVE  Queues'
<1>1. Append(stream, g) \in Seq(Response) /\ ToSet(Append(stream, g)) = ToSet(stream) \cup {g}
  BY AppendFacts DEF Typed, Queues
<1>2. requests' \in Seq(Request) /\ Requests' \subseteq Requests
  BY FirstRequest DEF Requests
<1>3. Responses' = Responses \cup {g}
  BY <1>1 DEF Responses
<1> QED
  BY <1>1, <1>2, <1>3 DEF Queues, Typed

\* The registers and what they held take in a number that was written.
LEMMA TablesAfterWrite ==
    ASSUME Typed, NEW r \in Register, NEW value \in 0..writes,
           registers' = [registers EXCEPT ![r] = value],
           held' = [held EXCEPT ![r] = @ \cup {value}],
           UNCHANGED <<serno, transfer, healthy, writes>>
    PROVE  Tables'
BY DEF Typed, Tables

LEMMA TablesUnchanged ==
    ASSUME Typed, UNCHANGED <<serno, transfer, registers, healthy, writes, held>>
    PROVE  Tables'
BY DEF Typed, Tables

LEMMA QueuesUnchanged ==
    ASSUME Typed, UNCHANGED <<wire, writes>>
    PROVE  Queues'
BY DEF Typed, Queues, wire, Requests, Responses

\* An exchange that fails ends the transfer.
LEMMA FailFacts ==
    ASSUME Typed, NEW answered \in BOOLEAN, Fail(answered),
           UNCHANGED <<serno, registers, healthy, writes, held>>
    PROVE  /\ Tables' /\ transfer'.pc = "idle"
           /\ transfer'.io = transfer.io /\ transfer'.data = transfer.data
BY DEF Typed, Tables, Fail

\* An exchange that succeeds adds a chunk.
LEMMA AdvanceFacts ==
    ASSUME Typed, Waiting, NEW value \in 0..writes, Advance(value),
           UNCHANGED <<serno, registers, healthy, writes, held>>
    PROVE  /\ Tables' /\ ~Waiting' /\ transfer'.io = transfer.io
           /\ transfer'.data = Append(transfer.data, value)
<1> DEFINE data == Append(transfer.data, value)
           last == Len(data) = Chunks
<1>1. /\ transfer.data \in Seq(Nat) /\ value \in Nat /\ Chunks \in Nat \ {0}
      /\ Len(transfer.data) \in Nat /\ Len(transfer.data) < Chunks
      /\ \A i \in 1..Len(transfer.data) : transfer.data[i] <= writes
  BY BusAssumption, LenProperties DEF Typed, Tables, Waiting
<1>2. /\ data \in Seq(Nat) /\ Len(data) = Len(transfer.data) + 1
      /\ \A i \in 1..Len(transfer.data) : data[i] = transfer.data[i]
      /\ data[Len(transfer.data) + 1] = value
  BY <1>1, AppendProperties
<1>3. \A i \in 1..Len(data) : data[i] <= writes
  BY <1>1, <1>2
<1>4. transfer' = [transfer EXCEPT
                     !.data = data, !.answered = TRUE,
                     !.pc = IF last THEN "idle" ELSE "send",
                     !.result = IF last THEN "done" ELSE @]
  BY DEF Advance
<1>5. /\ Len(data) <= Chunks
      /\ ~last => Len(data) < Chunks
  BY <1>1, <1>2
<1> HIDE DEF data
<1>6. transfer \in [pc : {"idle", "send", "receive"}, io : {"read", "write"},
                    data : Seq(Nat), skips : 0..Retries,
                    result : {"done", "failed"}, answered : BOOLEAN]
  BY DEF Typed, Tables
<1>7. /\ transfer' \in [pc : {"idle", "send", "receive"}, io : {"read", "write"},
                        data : Seq(Nat), skips : 0..Retries,
                        result : {"done", "failed"}, answered : BOOLEAN]
      /\ transfer'.data = data /\ transfer'.io = transfer.io
      /\ transfer'.pc = IF last THEN "idle" ELSE "send"
  <2> HIDE DEF last
  <2> QED
    BY <1>2, <1>4, <1>6
<1>8. Tables'
  <2>1. transfer'.pc # "idle" => Len(transfer'.data) < Chunks'
    BY <1>5, <1>7
  <2>2. Len(transfer'.data) <= Chunks /\ \A i \in 1..Len(transfer'.data) : transfer'.data[i] <= writes
    BY <1>3, <1>5, <1>7
  <2> QED
    BY <1>7, <2>1, <2>2 DEF Typed, Tables
<1> QED
  BY <1>7, <1>8 DEF Waiting, data

\* What Send leaves in the queues: everything is older, the newest is new.
LEMMA SendFacts ==
    ASSUME Typed, Send
    PROVE  \E g \in Request :
              /\ g.serno = serno' /\ g.io = transfer.io /\ g.age = 0
              /\ g.value = writes /\ g.register = Chunk
              /\ serno' \in Serial
              /\ requests' = Append(Older(requests), g)
              /\ stream' = Older(stream) /\ buffer' = Older(buffer)
              /\ pending' = Older(pending)
              /\ UNCHANGED <<registers, healthy, writes, held>>
              /\ transfer' = [transfer EXCEPT !.pc = "receive", !.skips = Retries]
<1> DEFINE g == [serno |-> serno', io |-> transfer.io, age |-> 0, value |-> writes,
                 register |-> Len(transfer.data) + 1]
<1>1. serno' \in Serial
  BY BusAssumption DEF Typed, Tables, Send, NextSerial, Serial
<1>2. Len(transfer.data) + 1 \in Register
  BY BusAssumption, LenProperties DEF Typed, Tables, Send, Register
<1>3. g \in Request
  BY <1>1, <1>2 DEF Typed, Tables, Request
<1>4. /\ g.serno = serno' /\ g.io = transfer.io /\ g.age = 0
      /\ g.value = writes /\ g.register = Chunk
  BY DEF Chunk
<1>5. requests' = Append(Older(requests), g)
  BY DEF Send
<1> HIDE DEF g
<1> QED
  BY <1>1, <1>3, <1>4, <1>5 DEF Send, SkipsAllowed

LEMMA SendTyped ==
    ASSUME Typed, Send
    PROVE  Typed'
<1>1. PICK g \in Request :
              /\ g.serno = serno' /\ g.io = transfer.io /\ g.age = 0
              /\ g.value = writes /\ g.register = Chunk
              /\ serno' \in Serial
              /\ requests' = Append(Older(requests), g)
              /\ stream' = Older(stream) /\ buffer' = Older(buffer)
              /\ pending' = Older(pending)
              /\ UNCHANGED <<registers, healthy, writes, held>>
              /\ transfer' = [transfer EXCEPT !.pc = "receive", !.skips = Retries]
  BY SendFacts
<1>2. Tables'
  <2>1. /\ transfer \in [pc : {"idle", "send", "receive"}, io : {"read", "write"},
                         data : Seq(Nat), skips : 0..Retries,
                         result : {"done", "failed"}, answered : BOOLEAN]
        /\ transfer.pc = "send" /\ Retries \in 0..Retries
    BY BusAssumption DEF Send, Typed, Tables
  <2>2. /\ transfer' \in [pc : {"idle", "send", "receive"}, io : {"read", "write"},
                          data : Seq(Nat), skips : 0..Retries,
                          result : {"done", "failed"}, answered : BOOLEAN]
        /\ transfer'.data = transfer.data
    BY <1>1, <2>1
  <2> QED
    BY <1>1, <2>1, <2>2 DEF Typed, Tables
<1>3. /\ Older(requests) \in Seq(Request)
      /\ ToSet(Older(requests)) = {[f EXCEPT !.age = @ + 1] : f \in ToSet(requests)}
  BY OlderFacts DEF Typed, Queues
<1>4. /\ requests' \in Seq(Request) /\ Requests' = ToSet(Older(requests)) \cup {g}
  BY <1>1, <1>3, AppendFacts DEF Requests
<1>5. /\ stream' \in Seq(Response) /\ buffer' \in Seq(Response) /\ pending' \in Seq(Response)
      /\ ToSet(stream') = {[f EXCEPT !.age = @ + 1] : f \in ToSet(stream)}
      /\ ToSet(buffer') = {[f EXCEPT !.age = @ + 1] : f \in ToSet(buffer)}
      /\ ToSet(pending') = {[f EXCEPT !.age = @ + 1] : f \in ToSet(pending)}
  BY <1>1, OlderFacts DEF Typed, Queues
<1>6. ASSUME NEW f \in Requests' \cup Responses' PROVE f.value <= writes'
  <2>1. \A h \in Requests : h \in Request /\ h.value <= writes
    BY FrameTypes DEF Typed, Queues
  <2>2. \A h \in Responses : h \in Response /\ h.value <= writes
    BY FrameTypes DEF Typed, Queues
  <2>3. CASE f = g
    BY <2>3, <1>1, <1>2 DEF Typed, Tables
  <2>4. CASE f \in ToSet(Older(requests))
    <3>1. PICK h \in Requests : f = [h EXCEPT !.age = @ + 1]
      BY <2>4, <1>3 DEF Requests
    <3>2. f.value = h.value
      BY <3>1, <2>1, OneOlder
    <3> QED
      BY <3>2, <2>1, <1>1
  <2>5. CASE f \in Responses'
    <3>1. PICK h \in Responses : f = [h EXCEPT !.age = @ + 1]
      BY <2>5, <1>5 DEF Responses
    <3>2. f.value = h.value
      BY <3>1, <2>2, OneOlder
    <3> QED
      BY <3>2, <2>2, <1>1
  <2> QED
    BY <1>4, <2>3, <2>4, <2>5
<1> QED
  BY <1>2, <1>4, <1>5, <1>6 DEF Typed, Queues

\* A request that is lost.
LEMMA SilentTyped ==
    ASSUME Typed, Silent
    PROVE  Typed'
<1>1. requests # <<>> /\ requests' = Tail(requests)
      /\ UNCHANGED <<serno, transfer, stream, buffer, pending, healthy, writes>>
  BY DEF Silent
<1>2. Queues'
  <2>1. requests' \in Seq(Request) /\ Requests' \subseteq Requests /\ Responses' = Responses
    BY <1>1, FirstRequest DEF Requests, Responses
  <2> QED
    BY <1>1, <2>1 DEF Typed, Queues
<1>3. Tables'
  <2>1. CASE UNCHANGED <<registers, held>>
    BY <2>1, <1>1, TablesUnchanged
  <2>2. CASE ~UNCHANGED <<registers, held>>
    <3>1. LET r == Head(requests).register IN
             /\ registers' = [registers EXCEPT ![r] = Head(requests).value]
             /\ held' = [held EXCEPT ![r] = @ \cup {Head(requests).value}]
      BY <2>2 DEF Silent
    <3> QED
      BY <3>1, <1>1, FirstRequest, TablesAfterWrite
  <2> QED
    BY <2>1, <2>2
<1> QED
  BY <1>2, <1>3 DEF Typed

\* A request that is handled: what it reads or writes, and the answer.
LEMMA HandleFacts ==
    ASSUME Typed, Handle
    PROVE  /\ requests # <<>>
           /\ \E ok \in BOOLEAN, value \in 0..writes :
                 /\ Respond(ok, value)
                 /\ \/ /\ ok => Head(requests).io = "read"
                       /\ ok => value = registers[Head(requests).register]
                       /\ UNCHANGED <<registers, held>>
                    \/ /\ ok /\ Head(requests).io = "write"
                       /\ value = Head(requests).value
                       /\ registers' = [registers EXCEPT
                                            ![Head(requests).register] = value]
                       /\ held' = [held EXCEPT
                                            ![Head(requests).register] = @ \cup {value}]
<1>1. requests # <<>>
  BY DEF Handle, Answer, Refuse
<1>2. CASE Refuse
  <2>1. Respond(FALSE, 0) /\ UNCHANGED <<registers, held>>
    BY <1>2 DEF Refuse
  <2>2. 0 \in 0..writes
    BY DEF Typed, Tables
  <2> QED
    BY <1>1, <2>1, <2>2
<1>3. CASE Answer
  <2>1. CASE /\ Head(requests).io = "read"
             /\ Respond(TRUE, registers[Head(requests).register])
             /\ UNCHANGED <<registers, held>>
    BY <2>1, <1>1, FirstRequest
  <2>2. CASE /\ Head(requests).io = "write"
             /\ registers' = [registers EXCEPT
                                  ![Head(requests).register] = Head(requests).value]
             /\ held' = [held EXCEPT
                                  ![Head(requests).register] = @ \cup {Head(requests).value}]
             /\ Respond(TRUE, Head(requests).value)
    BY <2>2, <1>1, FirstRequest
  <2> QED
    BY <1>3, <2>1, <2>2 DEF Answer
<1> QED
  BY <1>2, <1>3 DEF Handle

LEMMA HandleTyped ==
    ASSUME Typed, Handle
    PROVE  Typed'
<1>1. PICK ok \in BOOLEAN, value \in 0..writes :
                 /\ Respond(ok, value)
                 /\ \/ UNCHANGED <<registers, held>>
                    \/ /\ registers' = [registers EXCEPT
                                            ![Head(requests).register] = value]
                       /\ held' = [held EXCEPT
                                            ![Head(requests).register] = @ \cup {value}]
  BY HandleFacts
<1>2. requests # <<>> /\ value <= writes
  BY HandleFacts DEF Typed, Tables
<1>3. Queues' /\ UNCHANGED <<serno, transfer, healthy, writes>>
  BY <1>1, <1>2, RespondFacts, QueuesAfterRespond
<1>4. Tables'
  BY <1>1, <1>2, <1>3, FirstRequest, TablesAfterWrite, TablesUnchanged
<1> QED
  BY <1>3, <1>4 DEF Typed

\* What has arrived is handed over, or cut off after the first damaged frame.
LEMMA ReceiveFacts ==
    ASSUME Typed, Receive
    PROVE  \E n \in 1..Len(stream) :
              LET front == SubSeq(stream, 1, n)
                  arrived == buffer \o front
              IN  /\ front \in Seq(Response) /\ arrived \in Seq(Response)
                  /\ stream' \in Seq(Response)
                  /\ ToSet(stream) = ToSet(front) \cup ToSet(stream')
                  /\ ToSet(arrived) = ToSet(buffer) \cup ToSet(front)
                  /\ \E f \in ToSet(front) : TRUE
                  /\ stream' = SubSeq(stream, n + 1, Len(stream))
                  /\ \/ /\ pending' = arrived /\ buffer' = <<>> /\ UNCHANGED transfer
                     \/ \E bad \in 1..Len(arrived) :
                          /\ buffer' = SubSeq(arrived, bad + 1, Len(arrived))
                          /\ pending' = <<>> /\ Fail(FALSE)
<1>1. PICK n \in 1..Len(stream) :
        LET arrived == buffer \o SubSeq(stream, 1, n)
            bad == FirstBad(arrived)
        IN  /\ stream' = SubSeq(stream, n + 1, Len(stream))
            /\ \/ /\ bad = 0
                  /\ pending' = arrived /\ buffer' = <<>>
                  /\ UNCHANGED transfer
               \/ /\ bad # 0
                  /\ buffer' = SubSeq(arrived, bad + 1, Len(arrived))
                  /\ Fail(FALSE)
                  /\ UNCHANGED pending
  BY DEF Receive
<1> DEFINE front == SubSeq(stream, 1, n)
           arrived == buffer \o front
<1>2. stream \in Seq(Response) /\ buffer \in Seq(Response) /\ Len(stream) \in Nat
  BY LenProperties DEF Typed, Queues
<1>3. n \in 0..Len(stream) /\ n > 0
  BY <1>2
<1>4. /\ front \in Seq(Response) /\ stream' \in Seq(Response)
      /\ ToSet(stream) = ToSet(front) \cup ToSet(stream')
      /\ stream[n] \in ToSet(front)
  <2>1. stream' = SubSeq(stream, n + 1, Len(stream))
    BY <1>1
  <2> QED
    BY <2>1, <1>2, <1>3, CutFacts
<1>5. stream' = SubSeq(stream, n + 1, Len(stream)) /\ pending = <<>>
  BY <1>1 DEF Receive
<1>6. \/ pending' = arrived /\ buffer' = <<>> /\ UNCHANGED transfer
      \/ /\ FirstBad(arrived) # 0
         /\ buffer' = SubSeq(arrived, FirstBad(arrived) + 1, Len(arrived))
         /\ pending' = <<>> /\ Fail(FALSE)
  BY <1>1, <1>5
<1> HIDE DEF front
<1>7. arrived \in Seq(Response) /\ ToSet(arrived) = ToSet(buffer) \cup ToSet(front)
  BY <1>2, <1>4, ConcatFacts
<1> HIDE DEF arrived
<1>8. FirstBad(arrived) # 0 => FirstBad(arrived) \in 1..Len(arrived)
  <2>1. Len(arrived) \in Nat /\ FirstBad(arrived) \in 0..Len(arrived)
    BY <1>7, LenProperties, FirstBadIsThere
  <2> QED
    BY <2>1
<1>9. \/ pending' = arrived /\ buffer' = <<>> /\ UNCHANGED transfer
      \/ \E bad \in 1..Len(arrived) :
            /\ buffer' = SubSeq(arrived, bad + 1, Len(arrived))
            /\ pending' = <<>> /\ Fail(FALSE)
  BY <1>6, <1>8
<1>10. \E f \in ToSet(front) : TRUE
  BY <1>4
<1> QED
  BY <1>4, <1>5, <1>7, <1>9, <1>10 DEF front, arrived

LEMMA ReceiveTyped ==
    ASSUME Typed, Receive
    PROVE  Typed'
<1>1. PICK n \in 1..Len(stream) :
              LET front == SubSeq(stream, 1, n)
                  arrived == buffer \o front
              IN  /\ arrived \in Seq(Response) /\ stream' \in Seq(Response)
                  /\ ToSet(stream) = ToSet(front) \cup ToSet(stream')
                  /\ ToSet(arrived) = ToSet(buffer) \cup ToSet(front)
                  /\ \/ /\ pending' = arrived /\ buffer' = <<>> /\ UNCHANGED transfer
                     \/ \E bad \in 1..Len(arrived) :
                          /\ buffer' = SubSeq(arrived, bad + 1, Len(arrived))
                          /\ pending' = <<>> /\ Fail(FALSE)
  BY ReceiveFacts
<1> DEFINE front == SubSeq(stream, 1, n)
           arrived == buffer \o front
<1> HIDE DEF arrived, front
<1>2. /\ arrived \in Seq(Response) /\ stream' \in Seq(Response)
      /\ ToSet(arrived) \subseteq Responses /\ ToSet(stream') \subseteq Responses
      /\ \/ pending' = arrived /\ buffer' = <<>> /\ UNCHANGED transfer
         \/ \E bad \in 1..Len(arrived) :
              /\ buffer' = SubSeq(arrived, bad + 1, Len(arrived))
              /\ pending' = <<>> /\ Fail(FALSE)
  BY <1>1 DEF Responses, arrived, front
<1>3. UNCHANGED <<serno, requests, registers, healthy, writes, held>>
  BY DEF Receive
<1>4. <<>> \in Seq(Response) /\ ToSet(<<>>) = {}
  BY EmptySeq, NoElements
<1>5. CASE pending' = arrived /\ buffer' = <<>> /\ UNCHANGED transfer
  <2>1. Requests' = Requests /\ Responses' \subseteq Responses
    BY <1>2, <1>3, <1>4, <1>5 DEF Requests, Responses
  <2> QED
    BY <2>1, <1>2, <1>3, <1>4, <1>5, TablesUnchanged DEF Typed, Queues
<1>6. CASE \E bad \in 1..Len(arrived) :
              /\ buffer' = SubSeq(arrived, bad + 1, Len(arrived))
              /\ pending' = <<>> /\ Fail(FALSE)
  <2>1. PICK bad \in 1..Len(arrived) :
              /\ buffer' = SubSeq(arrived, bad + 1, Len(arrived))
              /\ pending' = <<>> /\ Fail(FALSE)
    BY <1>6
  <2>2. bad \in 0..Len(arrived)
    BY <1>2, LenProperties
  <2>3. buffer' \in Seq(Response) /\ ToSet(buffer') \subseteq ToSet(arrived)
    BY <2>1, <2>2, <1>2, CutFacts
  <2>4. Requests' = Requests /\ Responses' \subseteq Responses
    BY <2>1, <2>3, <1>2, <1>3, <1>4 DEF Requests, Responses
  <2>5. Tables'
    BY <2>1, <1>3, FailFacts
  <2> QED
    BY <2>1, <2>3, <2>4, <2>5, <1>2, <1>3, <1>4 DEF Typed, Queues
<1> QED
  BY <1>2, <1>5, <1>6

\* The frame handed over is the oldest of pending.
LEMMA TakeFacts ==
    ASSUME Typed, Take
    PROVE  /\ Waiting /\ pending # <<>> /\ pending' = Tail(pending)
           /\ Head(pending) \in Response /\ Head(pending) \in ToSet(pending)
           /\ Head(pending).value \in 0..writes
           /\ pending' \in Seq(Response)
           /\ ToSet(pending) = {Head(pending)} \cup ToSet(pending')
           /\ UNCHANGED <<serno, requests, stream, buffer, registers, healthy,
                          writes, held>>
           /\ \/ transfer.skips > 0 /\ transfer' = [transfer EXCEPT !.skips = @ - 1]
              \/ \E answered \in BOOLEAN : Fail(answered)
              \/ /\ Head(pending).serno = serno /\ Head(pending).ok
                 /\ Advance(Head(pending).value)
<1>1. /\ Waiting /\ pending # <<>> /\ pending' = Tail(pending)
      /\ UNCHANGED <<serno, requests, stream, buffer, registers, healthy, writes, held>>
      /\ \/ transfer.skips > 0 /\ transfer' = [transfer EXCEPT !.skips = @ - 1]
         \/ \E answered \in BOOLEAN : Fail(answered)
         \/ /\ Head(pending).serno = serno /\ Head(pending).ok
            /\ Advance(Head(pending).value)
  BY DEF Take, Waiting, Mismatch, Acknowledged
<1>2. /\ Head(pending) \in Response /\ Head(pending) \in ToSet(pending)
      /\ pending' \in Seq(Response)
      /\ ToSet(pending) = {Head(pending)} \cup ToSet(pending')
  BY <1>1, TailFacts DEF Typed, Queues
<1>3. Head(pending).value \in 0..writes
  BY <1>2 DEF Typed, Tables, Queues, Responses, Response
<1> QED
  BY <1>1, <1>2, <1>3

LEMMA TakeTyped ==
    ASSUME Typed, Take
    PROVE  Typed'
<1>1. Queues'
  <2>1. Requests' = Requests /\ Responses' \subseteq Responses
    BY TakeFacts DEF Requests, Responses
  <2> QED
    BY <2>1, TakeFacts DEF Typed, Queues
<1>2. CASE transfer.skips > 0 /\ transfer' = [transfer EXCEPT !.skips = @ - 1]
  <2>1. transfer.skips - 1 \in 0..Retries
    BY <1>2, BusAssumption DEF Typed, Tables
  <2> QED
    BY <1>1, <1>2, <2>1, TakeFacts DEF Typed, Tables
<1>3. CASE \E answered \in BOOLEAN : Fail(answered)
  BY <1>1, <1>3, TakeFacts, FailFacts DEF Typed
<1>4. CASE Advance(Head(pending).value)
  BY <1>1, <1>4, TakeFacts, AdvanceFacts DEF Typed
<1> QED
  BY <1>2, <1>3, <1>4, TakeFacts

\* A call starts with nothing transferred.
LEMMA BeginFacts ==
    ASSUME Typed, NEW io \in {"read", "write"}, Begin(io),
           writes' \in 0..MaxWrites, writes' >= writes,
           UNCHANGED <<serno, registers, healthy>>
    PROVE  /\ Tables' /\ ~Waiting /\ ~Waiting'
           /\ transfer'.io = io /\ transfer'.data = <<>> /\ Len(transfer'.data) = 0
           /\ held' = [r \in Register |-> {registers[r]}]
<1>1. <<>> \in Seq(Nat) /\ Len(<<>>) = 0
  BY EmptySeq
<1>2. transfer' = [transfer EXCEPT !.pc = "send", !.io = io, !.data = <<>>]
      /\ transfer.pc = "idle" /\ held' = [r \in Register |-> {registers[r]}]
  BY DEF Begin
<1>3. /\ transfer'.pc = "send" /\ transfer'.io = io /\ transfer'.data = <<>>
      /\ transfer' \in [pc : {"idle", "send", "receive"}, io : {"read", "write"},
                        data : Seq(Nat), skips : 0..Retries,
                        result : {"done", "failed"}, answered : BOOLEAN]
  BY <1>1, <1>2 DEF Typed, Tables
<1>4. registers \in [Register -> 0..writes'] /\ held' \in [Register -> SUBSET Nat]
  BY <1>2 DEF Typed, Tables
<1>5. Len(transfer'.data) <= Chunks /\ Len(transfer'.data) < Chunks
      /\ \A i \in 1..Len(transfer'.data) : transfer'.data[i] <= writes'
  BY <1>1, <1>3, BusAssumption
<1> QED
  BY <1>1, <1>2, <1>3, <1>4, <1>5 DEF Typed, Tables, Waiting

LEMMA TypedInit == Init => Typed
<1> SUFFICES ASSUME Init PROVE Typed
  OBVIOUS
<1>1. /\ <<>> \in Seq(Nat) /\ <<>> \in Seq(Request) /\ <<>> \in Seq(Response)
      /\ Len(<<>>) = 0 /\ ToSet(<<>>) = {}
  BY EmptySeq, NoElements
<1>2. Queues
  BY <1>1 DEF Init, Queues, Requests, Responses
<1>3. transfer = [pc |-> "idle", io |-> "read", data |-> <<>>, skips |-> 0,
                  result |-> "done", answered |-> TRUE]
  BY DEF Init
<1>4. Tables
  BY <1>1, <1>3, BusAssumption DEF Init, Tables, Serial
<1> QED
  BY <1>2, <1>4 DEF Typed

LEMMA TypedStep == Typed /\ [Next]_vars => Typed'
<1> SUFFICES ASSUME Typed, [Next]_vars PROVE Typed'
  OBVIOUS
<1>1. CASE Read
  <2>1. Begin("read") /\ UNCHANGED <<serno, wire, registers, healthy, writes>>
    BY <1>1 DEF Read
  <2>2. writes' \in 0..MaxWrites /\ writes' >= writes
    BY <2>1 DEF Typed, Tables
  <2> QED
    BY <2>1, <2>2, BeginFacts, QueuesUnchanged DEF Typed
<1>2. CASE Write
  <2>1. /\ Begin("write") /\ UNCHANGED <<serno, wire, registers, healthy>>
        /\ writes < MaxWrites /\ writes' = writes + 1
    BY <1>2 DEF Write
  <2>2. writes' \in 0..MaxWrites /\ writes' >= writes
    BY <2>1, BusAssumption DEF Typed, Tables
  <2>3. Queues'
    <3>1. Requests' = Requests /\ Responses' = Responses
      BY <2>1 DEF wire, Requests, Responses
    <3>2. ASSUME NEW f \in Requests \cup Responses PROVE f.value <= writes'
      <4>1. f.value \in Nat
        BY FrameTypes DEF Typed, Request, Response
      <4> QED
        BY <4>1, <2>1 DEF Typed, Queues, Tables
    <3> QED
      BY <2>1, <3>1, <3>2 DEF wire, Typed, Queues
  <2> QED
    BY <2>1, <2>2, <2>3, BeginFacts DEF Typed
<1>3. CASE TimeOut
  BY <1>3, FailFacts, QueuesUnchanged DEF TimeOut, Typed
<1>4. CASE Weather
  <2>1. Queues'
    BY <1>4, QueuesUnchanged DEF Weather
  <2> QED
    BY <2>1, <1>4 DEF Weather, Typed, Tables
<1>5. CASE UNCHANGED vars
  BY <1>5, TablesUnchanged, QueuesUnchanged DEF vars, wire, Typed
<1> QED
  BY <1>1, <1>2, <1>3, <1>4, <1>5, SendTyped, TakeTyped, ReceiveTyped, HandleTyped,
     SilentTyped DEF Next, Caller

\* All the frames there are, in one sequence.
LEMMA AllFrames ==
    ASSUME Typed
    PROVE  /\ Frames \in Seq(Request \cup Response)
           /\ ToSet(Frames) = Requests \cup Responses
<1> DEFINE F == Request \cup Response
           a == requests \o stream
           b == a \o buffer
<1>1. requests \in Seq(F) /\ stream \in Seq(F) /\ buffer \in Seq(F) /\ pending \in Seq(F)
  <2>1. ASSUME NEW S, NEW T, S \subseteq T, NEW s \in Seq(S) PROVE s \in Seq(T)
    BY <2>1, SeqDef
  <2>2. Request \subseteq F /\ Response \subseteq F
    OBVIOUS
  <2> QED
    BY <2>1, <2>2 DEF Typed, Queues
<1> HIDE DEF F
<1>2. a \in Seq(F) /\ ToSet(a) = ToSet(requests) \cup ToSet(stream)
  BY <1>1, ConcatFacts
<1> HIDE DEF a
<1>3. b \in Seq(F) /\ ToSet(b) = ToSet(a) \cup ToSet(buffer)
  BY <1>1, <1>2, ConcatFacts
<1> HIDE DEF b
<1>4. b \o pending \in Seq(F) /\ ToSet(b \o pending) = ToSet(b) \cup ToSet(pending)
  BY <1>1, <1>3, ConcatFacts
<1>5. Frames = b \o pending
  BY DEF Frames, a, b
<1> QED
  BY <1>2, <1>3, <1>4, <1>5 DEF F, Requests, Responses

\* What TypeOK says of the frames of a queue.
LEMMA FramesTyped ==
    ASSUME Typed
    PROVE  \A i \in DOMAIN Frames : /\ Frames[i].serno \in 0..(SerialNumbers - 1)
                                    /\ Frames[i].age \in Nat
<1>1. \A i \in DOMAIN Frames : Frames[i] \in Request \cup Response
  BY AllFrames, LenProperties
<1>2. ASSUME NEW f \in Request \cup Response
      PROVE  f.serno \in 0..(SerialNumbers - 1) /\ f.age \in Nat
  BY DEF Request, Response, Serial
<1> QED
  BY <1>1, <1>2

\* Every variable has its type, whatever the device and the caller do.
THEOREM TypeCorrect == Spec => []TypeOK
<1>1. Typed => TypeOK
  <2> SUFFICES ASSUME Typed PROVE TypeOK
    OBVIOUS
  <2>1. transfer.data \in BoundedSeq(0..MaxWrites, Chunks)
    <3>1. /\ transfer.data \in Seq(Nat) /\ Len(transfer.data) \in Nat
          /\ Len(transfer.data) <= Chunks /\ Chunks \in Nat
          /\ \A i \in 1..Len(transfer.data) : transfer.data[i] <= writes
          /\ writes \in 0..MaxWrites /\ MaxWrites \in Nat
      BY BusAssumption, LenProperties DEF Typed, Tables
    <3>2. \A i \in 1..Len(transfer.data) : transfer.data[i] \in 0..MaxWrites
      BY <3>1, LenProperties
    <3>3. transfer.data \in [1..Len(transfer.data) -> 0..MaxWrites]
      BY <3>1, <3>2, LenProperties
    <3> QED
      BY <3>1, <3>3 DEF BoundedSeq, SeqOf
  <2>2. registers \in [Register -> 0..writes] /\ serno \in 0..(SerialNumbers - 1)
        /\ transfer.pc \in {"idle", "send", "receive"} /\ transfer.skips \in 0..Retries
    BY DEF Typed, Tables, Serial
  <2> QED
    BY <2>1, <2>2, FramesTyped DEF TypeOK
<1> QED
  BY <1>1, TypedInit, TypedStep, PTL DEF Spec

-----------------------------------------------------------------------------
(* The order of the queues: a frame that is nearer the caller is older.      *)

\* What the frames of the queues are.
LEMMA Framed ==
    ASSUME Typed
    PROVE  /\ \A f \in Requests : f \in Request /\ f.age \in Nat /\ f.serno \in Serial
                                  /\ f.value \in 0..writes /\ f.register \in Register
                                  /\ f.io \in {"read", "write"}
           /\ \A f \in Responses : f \in Response /\ f.age \in Nat /\ f.serno \in Serial
                                   /\ f.value \in 0..writes /\ f.ok \in BOOLEAN
<1>1. Requests \subseteq Request /\ Responses \subseteq Response
  BY FrameTypes DEF Typed
<1>2. \A f \in Requests \cup Responses : f.value <= writes
  BY DEF Typed, Queues
<1>3. writes \in Nat
  BY DEF Typed, Tables
<1> QED
  BY <1>1, <1>2, <1>3 DEF Request, Response

\* The frame taken is older than everything that is left.
LEMMA TakeOrder ==
    ASSUME Typed, Ordered, Numbered, Take
    PROVE  /\ Requests' = Requests /\ Responses' \subseteq Responses
           /\ Head(pending) \in Responses /\ buffer' = <<>>
           /\ \A f \in Requests' \cup Responses' :
                 f.age < Head(pending).age /\ f.age < MaxAge
           /\ Ordered'
<1>1. /\ pending # <<>> /\ pending' = Tail(pending)
      /\ ToSet(pending) = {Head(pending)} \cup ToSet(pending')
      /\ UNCHANGED <<requests, stream, buffer>>
  BY TakeFacts
<1>2. buffer = <<>> /\ ToSet(buffer) = {}
  BY <1>1, NoElements DEF Ordered
<1>3. Falling(pending') /\ \A f \in ToSet(pending') : Head(pending).age > f.age
  BY <1>1, TailFacts DEF Typed, Queues, Ordered
<1>4. /\ Requests' = Requests /\ Responses' \subseteq Responses
      /\ Head(pending) \in Responses
      /\ Responses' = ToSet(stream) \cup ToSet(pending')
  BY <1>1, <1>2 DEF Requests, Responses
<1>5. ASSUME NEW f \in Requests' \cup Responses'
      PROVE  f.age < Head(pending).age /\ f.age < MaxAge
  <2>1. Head(pending).age > f.age
    BY <1>1, <1>3, <1>4 DEF Ordered, Above, Requests
  <2>2. /\ f.age \in Nat /\ Head(pending).age \in Nat
        /\ Head(pending).age <= MaxAge
    BY <1>4, Framed DEF Numbered
  <2> QED
    BY <2>1, <2>2, BusAssumption
<1>6. Ordered'
  BY <1>1, <1>2, <1>3 DEF Ordered, Above
<1> QED
  BY <1>1, <1>2, <1>4, <1>5, <1>6

\* What is received keeps its place; after a damaged frame, the oldest is gone.
LEMMA ReceiveOrder ==
    ASSUME Typed, Ordered, Numbered, Receive
    PROVE  /\ Requests' = Requests /\ Responses' \subseteq Responses
           /\ Ordered'
           /\ \/ /\ UNCHANGED transfer /\ ToSet(buffer') = {}
                 /\ ToSet(stream) \subseteq ToSet(stream') \cup ToSet(pending')
              \/ /\ Fail(FALSE)
                 /\ \A f \in Requests' \cup Responses' : f.age < MaxAge
<1>1. PICK n \in 1..Len(stream) :
              LET front == SubSeq(stream, 1, n)
                  arrived == buffer \o front
              IN  /\ front \in Seq(Response) /\ arrived \in Seq(Response)
                  /\ stream' \in Seq(Response)
                  /\ ToSet(stream) = ToSet(front) \cup ToSet(stream')
                  /\ ToSet(arrived) = ToSet(buffer) \cup ToSet(front)
                  /\ stream' = SubSeq(stream, n + 1, Len(stream))
                  /\ \/ /\ pending' = arrived /\ buffer' = <<>> /\ UNCHANGED transfer
                     \/ \E bad \in 1..Len(arrived) :
                          /\ buffer' = SubSeq(arrived, bad + 1, Len(arrived))
                          /\ pending' = <<>> /\ Fail(FALSE)
  BY ReceiveFacts
<1> DEFINE front == SubSeq(stream, 1, n)
           arrived == buffer \o front
<1>2. Falling(front) /\ Falling(stream') /\ Above(front, stream')
  <2>1. stream \in Seq(Response) /\ Falling(stream) /\ Len(stream) \in Nat
    BY LenProperties DEF Typed, Queues, Ordered
  <2>2. n \in 0..Len(stream) /\ stream' = SubSeq(stream, n + 1, Len(stream))
    BY <2>1, <1>1
  <2> QED
    BY <2>1, <2>2, CutFacts
<1>3. /\ front \in Seq(Response) /\ buffer \in Seq(Response)
      /\ Above(buffer, front) /\ Falling(buffer)
  BY <1>1 DEF Typed, Queues, Ordered, Above
<1>4. Falling(arrived)
  <2> HIDE DEF front
  <2> QED
    BY <1>2, <1>3, ConcatFacts
<1>5. /\ arrived \in Seq(Response) /\ ToSet(arrived) \subseteq Responses
      /\ ToSet(stream') \subseteq Responses
      /\ Above(arrived, stream') /\ Above(arrived, requests) /\ Above(stream', requests)
      /\ ToSet(stream) \subseteq ToSet(stream') \cup ToSet(arrived)
      /\ \/ pending' = arrived /\ buffer' = <<>> /\ UNCHANGED transfer
         \/ \E bad \in 1..Len(arrived) :
              /\ buffer' = SubSeq(arrived, bad + 1, Len(arrived))
              /\ pending' = <<>> /\ Fail(FALSE)
  <2>1. ToSet(arrived) = ToSet(buffer) \cup ToSet(front)
        /\ ToSet(stream) = ToSet(front) \cup ToSet(stream')
    BY <1>1
  <2> HIDE DEF front
  <2>2. Above(arrived, stream') /\ Above(arrived, requests) /\ Above(stream', requests)
    BY <2>1, <1>2 DEF Ordered, Above
  <2>3. ToSet(arrived) \subseteq Responses /\ ToSet(stream') \subseteq Responses
    BY <2>1 DEF Responses
  <2> QED
    BY <1>1, <2>1, <2>2, <2>3 DEF front
<1> HIDE DEF arrived, front
<1>6. requests' = requests /\ Requests' = Requests
  BY DEF Receive, Requests
<1>7. CASE pending' = arrived /\ buffer' = <<>> /\ UNCHANGED transfer
  <2>1. ToSet(buffer') = {} /\ Falling(buffer')
    BY <1>7, NoElements
  <2>2. Ordered'
    BY <1>2, <1>4, <1>5, <1>6, <1>7, <2>1 DEF Ordered, Above
  <2>3. Responses' \subseteq Responses
    BY <1>5, <1>7, <2>1 DEF Responses
  <2> QED
    BY <1>5, <1>6, <1>7, <2>1, <2>2, <2>3
<1>8. CASE \E bad \in 1..Len(arrived) :
              /\ buffer' = SubSeq(arrived, bad + 1, Len(arrived))
              /\ pending' = <<>> /\ Fail(FALSE)
  <2>1. PICK bad \in 1..Len(arrived) :
              /\ buffer' = SubSeq(arrived, bad + 1, Len(arrived))
              /\ pending' = <<>> /\ Fail(FALSE)
    BY <1>8
  <2>2. bad \in 0..Len(arrived) /\ bad > 0
    BY <1>5, LenProperties
  <2> DEFINE dropped == SubSeq(arrived, 1, bad)
  <2>3. /\ ToSet(arrived) = ToSet(dropped) \cup ToSet(buffer')
        /\ arrived[bad] \in ToSet(dropped)
        /\ Falling(buffer') /\ Above(dropped, buffer')
    BY <2>1, <2>2, <1>4, <1>5, CutFacts
  <2> HIDE DEF dropped
  <2>4. ToSet(pending') = {} /\ Falling(pending')
    BY <2>1, NoElements
  <2>5. Ordered'
    BY <1>2, <1>5, <1>6, <2>1, <2>3, <2>4 DEF Ordered, Above
  <2>6. Responses' = ToSet(stream') \cup ToSet(buffer') /\ Responses' \subseteq Responses
    BY <1>5, <2>3, <2>4 DEF Responses
  <2>7. ASSUME NEW f \in Requests' \cup Responses' PROVE f.age < MaxAge
    <3>1. arrived[bad].age > f.age
      BY <2>3, <2>6, <1>5, <1>6 DEF Above, Requests
    <3>2. /\ arrived[bad].age \in Nat /\ arrived[bad].age <= MaxAge /\ f.age \in Nat
      BY <2>3, <2>6, <1>5, <1>6, Framed DEF Numbered
    <3> QED
      BY <3>1, <3>2, BusAssumption
  <2> QED
    BY <2>1, <2>5, <2>6, <2>7, <1>6
<1> QED
  BY <1>5, <1>7, <1>8

\* The oldest request becomes the newest response, or is lost.
LEMMA HandOrder ==
    ASSUME Typed, Ordered, requests # <<>>, requests' = Tail(requests),
           UNCHANGED <<buffer, pending>>,
           \/ stream' = stream
           \/ \E g \in Response : stream' = Append(stream, g) /\ g.age = Head(requests).age
    PROVE  Ordered'
<1>1. /\ Head(requests) \in ToSet(requests)
      /\ ToSet(requests) = {Head(requests)} \cup ToSet(requests')
      /\ Falling(requests')
      /\ \A f \in ToSet(requests') : Head(requests).age > f.age
  BY TailFacts DEF Typed, Queues, Ordered
<1>2. CASE stream' = stream
  BY <1>1, <1>2 DEF Ordered, Above
<1>3. CASE \E g \in Response : stream' = Append(stream, g) /\ g.age = Head(requests).age
  <2>1. PICK g \in Response : stream' = Append(stream, g) /\ g.age = Head(requests).age
    BY <1>3
  <2>2. \A f \in ToSet(stream) : f.age > g.age
    BY <2>1, <1>1 DEF Ordered, Above
  <2>3. ToSet(stream') = ToSet(stream) \cup {g} /\ Falling(stream')
    BY <2>1, <2>2, AppendFacts DEF Typed, Queues, Ordered
  <2> QED
    BY <1>1, <2>1, <2>3 DEF Ordered, Above
<1> QED
  BY <1>2, <1>3

\* Frames that grow older together keep their order.
LEMMA OlderAbove ==
    ASSUME NEW s, NEW t, Above(s, t),
           s \in Seq(Request) \/ s \in Seq(Response),
           t \in Seq(Request) \/ t \in Seq(Response)
    PROVE  /\ Above(Older(s), Older(t))
           /\ \A g \in ToSet(Older(s)) : g.age > 0
<1>1. /\ ToSet(Older(s)) = {[f EXCEPT !.age = @ + 1] : f \in ToSet(s)}
      /\ ToSet(Older(t)) = {[f EXCEPT !.age = @ + 1] : f \in ToSet(t)}
  BY OlderFacts
<1>2. /\ \A f \in ToSet(s) : f \in Request \/ f \in Response
      /\ \A f \in ToSet(t) : f \in Request \/ f \in Response
  BY Elements
<1>3. ASSUME NEW f, f \in Request \/ f \in Response
      PROVE  f.age \in Nat /\ [f EXCEPT !.age = @ + 1].age = f.age + 1
  BY <1>3, OneOlder DEF Request, Response
<1>4. ASSUME NEW f \in ToSet(s), NEW g \in ToSet(t)
      PROVE  [f EXCEPT !.age = @ + 1].age > [g EXCEPT !.age = @ + 1].age
  <2>1. f.age > g.age
    BY DEF Above
  <2> QED
    BY <2>1, <1>2, <1>3
<1>5. ASSUME NEW f \in ToSet(s) PROVE [f EXCEPT !.age = @ + 1].age > 0
  BY <1>2, <1>3
<1> QED
  BY <1>1, <1>4, <1>5 DEF Above

\* After Send every frame but the new request is one that has grown older.
LEMMA SendOrder ==
    ASSUME Typed, Ordered, Send
    PROVE  /\ Ordered'
           /\ ToSet(pending') = {} \/ ToSet(buffer') = {}
           /\ \A g \in Responses' : \E f \in Responses :
                 /\ g.age = f.age + 1 /\ g.serno = f.serno
                 /\ g.value = f.value /\ g.ok = f.ok
           /\ \E n \in Requests' :
                 /\ n.age = 0 /\ n.serno = serno' /\ n.io = transfer.io
                 /\ n.value = writes /\ n.register = Chunk
                 /\ requests' = Append(Older(requests), n)
                 /\ \A g \in Requests' : g = n \/ \E f \in Requests :
                       /\ g.age = f.age + 1 /\ g.serno = f.serno /\ g.io = f.io
                       /\ g.value = f.value /\ g.register = f.register
<1>1. PICK n \in Request :
              /\ n.serno = serno' /\ n.io = transfer.io /\ n.age = 0
              /\ n.value = writes /\ n.register = Chunk
              /\ requests' = Append(Older(requests), n)
              /\ stream' = Older(stream) /\ buffer' = Older(buffer)
              /\ pending' = Older(pending)
  BY SendFacts
<1>2. /\ requests \in Seq(Request) /\ stream \in Seq(Response)
      /\ buffer \in Seq(Response) /\ pending \in Seq(Response)
  BY DEF Typed, Queues
<1>3. /\ Older(requests) \in Seq(Request)
      /\ Falling(Older(requests)) /\ Falling(stream') /\ Falling(buffer') /\ Falling(pending')
      /\ pending = <<>> => pending' = <<>>
      /\ buffer = <<>> => buffer' = <<>>
  BY <1>1, <1>2, OlderFacts DEF Ordered
<1>4. /\ Above(pending', stream') /\ Above(pending', Older(requests))
      /\ Above(buffer', stream') /\ Above(buffer', Older(requests))
      /\ Above(stream', Older(requests))
      /\ \A g \in ToSet(pending') \cup ToSet(buffer') \cup ToSet(stream') : g.age > 0
  BY <1>1, <1>2, OlderAbove DEF Ordered
<1>5. \A g \in ToSet(Older(requests)) : g.age > n.age
  <2>1. Above(requests, <<>>) /\ <<>> \in Seq(Request)
    BY NoElements, EmptySeq DEF Above
  <2> QED
    BY <2>1, <1>1, <1>2, OlderAbove
<1>6. ToSet(requests') = ToSet(Older(requests)) \cup {n} /\ Falling(requests')
  BY <1>1, <1>3, <1>5, AppendFacts
<1>7. Ordered'
  BY <1>1, <1>3, <1>4, <1>6 DEF Ordered, Above
<1>8. ASSUME NEW g \in Responses'
      PROVE  \E f \in Responses : /\ g.age = f.age + 1 /\ g.serno = f.serno
                                  /\ g.value = f.value /\ g.ok = f.ok
  <2>1. \E f \in Responses : g = [f EXCEPT !.age = @ + 1]
    BY <1>1, <1>2, OlderFacts DEF Responses
  <2> QED
    BY <2>1, Framed, OneOlder
<1>9. ASSUME NEW g \in ToSet(Older(requests))
      PROVE  \E f \in Requests : /\ g.age = f.age + 1 /\ g.serno = f.serno /\ g.io = f.io
                                 /\ g.value = f.value /\ g.register = f.register
  <2>1. \E f \in Requests : g = [f EXCEPT !.age = @ + 1]
    BY <1>2, OlderFacts DEF Requests
  <2> QED
    BY <2>1, Framed, OneOlder
<1>10. ToSet(pending') = {} \/ ToSet(buffer') = {}
  BY <1>3, NoElements DEF Ordered
<1>11. n \in Requests' /\ \A g \in Requests' : g = n \/ g \in ToSet(Older(requests))
  BY <1>6 DEF Requests
<1> QED
  BY <1>1, <1>7, <1>8, <1>9, <1>10, <1>11

-----------------------------------------------------------------------------
(* Serial numbers tell the age of a frame, and nothing is late by a turn.    *)

\* Frames that are the old ones, or stand for them, keep their numbers.
LEMMA NumberedKept ==
    ASSUME Numbered, serno' = serno,
           \A g \in Requests' \cup Responses' : \E f \in Requests \cup Responses :
               g.age = f.age /\ g.serno = f.serno,
           ~Waiting' => \A f \in Requests' \cup Responses' : f.age < MaxAge
    PROVE  Numbered'
BY DEF Numbered

\* Every frame is one request older, and so is its distance to the counter.
LEMMA SendNumbered ==
    ASSUME Typed, Ordered, Numbered, Send, MaxAge < SerialNumbers
    PROVE  Numbered'
<1>1. serno' = NextSerial(serno) /\ ~Waiting /\ Waiting'
  BY DEF Send, Waiting, Typed, Tables
<1>2. serno \in 0..(SerialNumbers - 1) /\ SerialNumbers \in Nat \ {0, 1} /\ MaxAge \in Nat
  BY BusAssumption DEF Typed, Tables, Serial
<1>3. serno' = serno + 1 \/ serno' = serno + 1 - SerialNumbers
  <2>1. CASE serno + 1 < SerialNumbers
    BY <2>1, <1>1, <1>2 DEF NextSerial
  <2>2. CASE serno + 1 = SerialNumbers
    BY <2>2, <1>1, <1>2 DEF NextSerial
  <2> QED
    BY <2>1, <2>2, <1>2
<1>4. serno' \in 0..(SerialNumbers - 1)
  BY SendTyped DEF Typed, Tables, Serial
<1>5. ASSUME NEW f \in Requests \cup Responses
      PROVE  /\ f.age + 1 <= MaxAge
             /\ \/ f.serno = serno' - (f.age + 1)
                \/ f.serno = serno' - (f.age + 1) + SerialNumbers
  <2>1. f.age \in Nat /\ f.serno \in 0..(SerialNumbers - 1) /\ f.age < MaxAge
        /\ (f.serno = serno - f.age \/ f.serno = serno - f.age + SerialNumbers)
    BY <1>1, Framed DEF Numbered, Serial
  <2> QED
    BY <2>1, <1>2, <1>3, <1>4
<1>6. PICK n \in Requests' :
        /\ n.age = 0 /\ n.serno = serno'
        /\ \A g \in Requests' : g = n \/ \E f \in Requests :
              g.age = f.age + 1 /\ g.serno = f.serno
  BY SendOrder
<1>7. \A g \in Responses' : \E f \in Responses : g.age = f.age + 1 /\ g.serno = f.serno
  BY SendOrder
<1>8. ASSUME NEW g \in Requests' \cup Responses'
      PROVE  /\ g.age <= MaxAge
             /\ \/ g.serno = serno' - g.age
                \/ g.serno = serno' - g.age + SerialNumbers
  <2>1. CASE g = n
    <3>1. g.age = 0 /\ g.serno = serno'
      BY <2>1, <1>6
    <3>2. 0 <= MaxAge
      BY <1>2
    <3>3. \A m \in 0..(SerialNumbers - 1) : m = m - 0
      BY <1>2
    <3> QED
      BY <3>1, <3>2, <3>3, <1>4
  <2>2. CASE \E f \in Requests \cup Responses : g.age = f.age + 1 /\ g.serno = f.serno
    BY <2>2, <1>5
  <2> QED
    BY <2>1, <2>2, <1>6, <1>7
<1> QED
  BY <1>1, <1>8 DEF Numbered

\* An answer with the counter's number is the answer to the newest request.
LEMMA MatchIsNewest ==
    ASSUME Typed, Ordered, Numbered, MaxAge < SerialNumbers,
           pending # <<>>, Head(pending).serno = serno
    PROVE  /\ Head(pending).age = 0 /\ Head(pending) \in Responses
           /\ Requests = {}
<1>1. Head(pending) \in ToSet(pending) /\ Head(pending) \in Responses
  BY TailFacts DEF Typed, Queues, Responses
<1>2. Head(pending).age = 0
  <2>1. serno \in 0..(SerialNumbers - 1) /\ SerialNumbers \in Nat /\ MaxAge \in Nat
    BY BusAssumption DEF Typed, Tables, Serial
  <2>2. Head(pending).age \in Nat
    BY <1>1, Framed
  <2>3. /\ Head(pending).age <= MaxAge
        /\ \/ Head(pending).serno = serno - Head(pending).age
           \/ Head(pending).serno = serno - Head(pending).age + SerialNumbers
    BY <1>1 DEF Numbered
  <2> QED
    BY <2>1, <2>2, <2>3
<1>3. ASSUME NEW f \in Requests PROVE FALSE
  <2>1. Head(pending).age > f.age /\ f.age \in Nat
    BY <1>1, Framed DEF Ordered, Above, Requests
  <2> QED
    BY <2>1, <1>2
<1> QED
  BY <1>1, <1>2, <1>3

-----------------------------------------------------------------------------
(* The values of the requests under way, from the oldest to the newest.      *)

Rising(s) == \A i, j \in 1..Len(s) : i < j => s[i].value <= s[j].value

LEMMA TailRises ==
    ASSUME NEW S, NEW s \in Seq(S), s # <<>>, Rising(s)
    PROVE  /\ Rising(Tail(s))
           /\ \A f \in ToSet(Tail(s)) : Head(s).value <= f.value
<1>1. /\ Tail(s) \in Seq(S) /\ Len(Tail(s)) = Len(s) - 1
      /\ \A i \in 1..Len(Tail(s)) : Tail(s)[i] = s[i+1]
  BY HeadTailProperties
<1>2. Len(s) \in Nat \ {0} /\ Head(s) = s[1]
  BY EmptySeq
<1>3. ToSet(Tail(s)) = {Tail(s)[i] : i \in 1..Len(Tail(s))}
  BY <1>1, Elements
<1>4. ASSUME NEW i \in 1..Len(Tail(s)), NEW j \in 1..Len(Tail(s)), i < j
      PROVE  Tail(s)[i].value <= Tail(s)[j].value
  <2>1. i + 1 \in 1..Len(s) /\ j + 1 \in 1..Len(s) /\ i + 1 < j + 1
    BY <1>1, <1>2, <1>4
  <2> QED
    BY <2>1, <1>1 DEF Rising
<1>5. ASSUME NEW i \in 1..Len(Tail(s)) PROVE Head(s).value <= Tail(s)[i].value
  <2>1. i + 1 \in 1..Len(s) /\ 1 \in 1..Len(s) /\ 1 < i + 1
    BY <1>1, <1>2
  <2>2. s[1].value <= s[i+1].value
    BY <2>1 DEF Rising
  <2> QED
    BY <2>2, <1>1, <1>2
<1> QED
  BY <1>3, <1>4, <1>5 DEF Rising

\* The requests under way and the one that Send puts behind them.
LEMMA SendRises ==
    ASSUME Typed, Rising(requests), NEW n,
           n.value = writes, requests' = Append(Older(requests), n)
    PROVE  Rising(requests')
<1>1. /\ requests \in Seq(Request) /\ Older(requests) \in Seq(Request)
      /\ Len(Older(requests)) = Len(requests) /\ Len(requests) \in Nat
      /\ \A i \in 1..Len(requests) : Older(requests)[i] = [requests[i] EXCEPT !.age = @ + 1]
  BY OlderFacts DEF Typed, Queues
<1>2. \A i \in 1..Len(requests) : /\ requests[i] \in Request /\ requests[i] \in Requests
                                  /\ requests[i].value \in 0..writes
  BY <1>1, Elements, Framed DEF Requests
<1>3. \A i \in 1..Len(requests) : Older(requests)[i].value = requests[i].value
  BY <1>1, <1>2, OneOlder
<1>4. /\ Len(requests') = Len(requests) + 1
      /\ \A i \in 1..Len(requests) : requests'[i] = Older(requests)[i]
      /\ requests'[Len(requests) + 1] = n
  <2>1. Older(requests) \in Seq(Request \cup {n}) /\ n \in Request \cup {n}
    BY <1>1, SeqDef
  <2> HIDE DEF Older
  <2> QED
    BY <2>1, <1>1, AppendProperties
<1>5. ASSUME NEW i \in 1..Len(requests'), NEW j \in 1..Len(requests'), i < j
      PROVE  requests'[i].value <= requests'[j].value
  <2>1. i \in 1..Len(requests) /\ requests'[i].value = requests[i].value
    BY <1>1, <1>3, <1>4, <1>5
  <2>2. CASE j \in 1..Len(requests)
    BY <2>1, <2>2, <1>3, <1>4, <1>5 DEF Rising
  <2>3. CASE j = Len(requests) + 1
    BY <2>1, <2>3, <1>2, <1>4
  <2> QED
    BY <2>2, <2>3, <1>1, <1>4
<1> QED
  BY <1>5 DEF Rising

\* A write reaches a register only after the register before it, and what is
\* written later is not written over by what is under way.
LEMMA WrittenStep ==
    ASSUME Typed, Told, InOrder, requests # <<>>, requests' = Tail(requests),
           UNCHANGED <<transfer, writes>>,
           \/ UNCHANGED <<registers, held>>
           \/ /\ Head(requests).io = "write"
              /\ registers' = [registers EXCEPT
                                   ![Head(requests).register] = Head(requests).value]
              /\ held' = [held EXCEPT
                              ![Head(requests).register] = @ \cup {Head(requests).value}]
    PROVE  Told' /\ InOrder'
<1> DEFINE h == Head(requests)
           v == Head(requests).value
           r == Head(requests).register
<1>1. /\ h \in Requests /\ r \in Register /\ v \in 0..writes /\ Requests' \subseteq Requests
  BY FirstRequest DEF Requests
<1>2. /\ Rising(requests') /\ \A f \in Requests' : v <= f.value
  BY TailRises DEF Typed, Queues, InOrder, Rising, Requests
<1>3. /\ registers \in [Register -> 0..writes] /\ held \in [Register -> SUBSET Nat]
      /\ writes \in Nat /\ Register = 1..Chunks /\ Chunks \in Nat \ {0}
      /\ Len(transfer.data) \in Nat /\ Len(transfer.data) <= Chunks
  BY BusAssumption, LenProperties DEF Typed, Tables, Register
<1>4. CASE UNCHANGED <<registers, held>>
  <2>1. Told'
    BY <1>1, <1>4 DEF Told
  <2>2. InOrder'
    BY <1>1, <1>2, <1>4 DEF InOrder, Rising
  <2> QED
    BY <2>1, <2>2
<1>5. CASE /\ Head(requests).io = "write"
           /\ registers' = [registers EXCEPT ![r] = v]
           /\ held' = [held EXCEPT ![r] = @ \cup {v}]
  <2>1. \A q \in Register : registers[q] <= v /\ registers[q] \in 0..writes
    BY <1>1, <1>3, <1>5 DEF InOrder
  <2>2. r > 1 => registers[r - 1] >= v
    BY <1>1, <1>5 DEF InOrder
  <2>3. /\ registers'[r] = v /\ \A q \in Register : q # r => registers'[q] = registers[q]
    BY <1>1, <1>3, <1>5
  <2>4. \A q \in Register : held[q] \subseteq held'[q] /\ v \in held'[r]
    BY <1>1, <1>3, <1>5
  <2> HIDE DEF h, v, r
  <2>5. \A q \in Register : registers[q] <= registers'[q] /\ registers'[q] <= v
    BY <1>1, <1>3, <2>1, <2>3
  <2>0. 1..Len(transfer.data) \subseteq Register /\ transfer' = transfer /\ writes' = writes
    BY <1>3
  <2>6. Told'
    <3>1. \A q \in Register : registers'[q] \in held'[q]
      BY <1>1, <2>3, <2>4 DEF Told
    <3>2. ASSUME transfer.io = "read", NEW q \in 1..Len(transfer.data)
          PROVE  transfer.data[q] \in held'[q]
      BY <3>2, <2>0, <2>4 DEF Told
    <3>3. ASSUME transfer.io = "write", NEW q \in 1..Len(transfer.data)
          PROVE  registers'[q] = writes /\ \A f \in Requests' : f.value = writes
      <4>1. registers[q] = writes /\ \A f \in Requests : f.value = writes
        BY <3>3 DEF Told
      <4>2. v = writes
        BY <4>1, <1>1 DEF h, v
      <4>3. registers'[q] = writes
        BY <4>1, <4>2, <2>0, <2>3
      <4> QED
        BY <4>1, <4>3, <1>1
    <3> QED
      BY <3>1, <3>2, <3>3, <2>0 DEF Told
  <2>7. ASSUME NEW q \in 2..Chunks PROVE registers'[q] <= registers'[q - 1]
    <3>1. q \in Register /\ q - 1 \in Register /\ q # q - 1 /\ registers[q] <= registers[q - 1]
      BY <1>3 DEF InOrder
    <3>2. CASE q = r
      <4>1. registers[q - 1] >= v /\ registers'[q] = v
        BY <3>1, <3>2, <2>2, <2>3, <1>3
      <4>2. registers'[q - 1] = registers[q - 1]
        BY <3>1, <3>2, <2>3
      <4>3. registers[q - 1] \in 0..writes
        BY <3>1, <2>1
      <4> QED
        BY <4>1, <4>2, <4>3, <1>1, <1>3
    <3>3. CASE q # r
      <4>1. registers'[q] = registers[q] /\ registers[q - 1] <= registers'[q - 1]
        BY <3>1, <3>3, <2>3, <2>5
      <4>2. /\ registers[q] \in Nat /\ registers[q - 1] \in Nat /\ registers'[q - 1] \in Nat
        BY <3>1, <1>1, <1>3, <2>1, <2>3
      <4> QED
        BY <3>1, <4>1, <4>2
    <3> QED
      BY <3>2, <3>3
  <2>8. ASSUME NEW f \in Requests', f.io = "write"
        PROVE  /\ \A q \in Register : registers'[q] <= f.value
               /\ f.register > 1 => registers'[f.register - 1] >= f.value
    <3>1. f \in Requests /\ v <= f.value /\ f.value \in 0..writes /\ f.register \in Register
      BY <1>1, <1>2, Framed DEF v
    <3>2. \A q \in Register : registers'[q] \in Nat
      BY <1>1, <1>3, <2>1, <2>3
    <3>3. ASSUME NEW q \in Register PROVE registers'[q] <= f.value
      <4>1. registers'[q] <= v /\ v <= f.value
        BY <2>5, <3>1
      <4>2. registers'[q] \in Nat /\ v \in Nat /\ f.value \in Nat
        BY <3>1, <3>2, <1>1, <1>3
      <4> QED
        BY <4>1, <4>2
    <3>4. ASSUME f.register > 1 PROVE registers'[f.register - 1] >= f.value
      <4>1. \A q \in Register : q > 1 => q - 1 \in Register
        BY <1>3
      <4>2. PICK q \in Register : q = f.register - 1
        BY <4>1, <3>1, <3>4
      <4>3. registers[q] >= f.value
        BY <4>2, <3>1, <3>4, <2>8 DEF InOrder
      <4>4. registers[q] <= registers'[q] /\ registers[q] \in 0..writes
        BY <2>1, <2>5
      <4>5. registers[q] \in Nat /\ registers'[q] \in Nat /\ f.value \in Nat
        BY <4>4, <3>1, <3>2, <1>3
      <4>6. registers'[q] >= f.value
        BY <4>3, <4>4, <4>5
      <4> QED
        BY <4>2, <4>6
    <3> QED
      BY <3>3, <3>4
  <2> QED
    BY <2>6, <2>7, <2>8, <1>2 DEF InOrder, Rising
<1> QED
  BY <1>4, <1>5

-----------------------------------------------------------------------------
(* Every action keeps the invariant.                                         *)

\* Nothing overdue, wherever it is.
LEMMA NotOverdue ==
    ASSUME Typed, ~Overdue
    PROVE  \A f \in Requests \cup Responses : f.age < MaxAge
<1>1. ASSUME NEW f \in Requests \cup Responses PROVE f.age < MaxAge
  <2>1. PICK i \in DOMAIN Frames : f = Frames[i]
    BY AllFrames DEF ToSet
  <2>2. ~(f.age >= MaxAge)
    BY <2>1 DEF Overdue
  <2>3. f.age \in Nat /\ MaxAge \in Nat
    BY Framed, BusAssumption
  <2> QED
    BY <2>2, <2>3
<1> QED
  BY <1>1

LEMMA WireKept ==
    ASSUME Ordered, UNCHANGED wire
    PROVE  Ordered' /\ Requests' = Requests /\ Responses' = Responses
BY DEF Ordered, wire, Requests, Responses

\* A transfer that starts has nothing to show yet.
LEMMA BeginStep ==
    ASSUME IInv, Read \/ Write
    PROVE  IInv'
<1>1. Typed'
  BY TypedStep DEF IInv, Next, Caller
<1>2. PICK io \in {"read", "write"} :
         /\ Begin(io) /\ UNCHANGED <<serno, wire, registers, healthy>>
         /\ writes' \in 0..MaxWrites /\ writes' >= writes
  <2>1. CASE Read
    BY <2>1 DEF Read, IInv, Typed, Tables
  <2>2. CASE Write
    <3>1. /\ Begin("write") /\ UNCHANGED <<serno, wire, registers, healthy>>
          /\ writes < MaxWrites /\ writes' = writes + 1
      BY <2>2 DEF Write
    <3>2. writes' \in 0..MaxWrites /\ writes' >= writes
      BY <3>1, BusAssumption DEF IInv, Typed, Tables
    <3> QED
      BY <3>1, <3>2
  <2> QED
    BY <2>1, <2>2
<1>3. /\ ~Waiting /\ ~Waiting' /\ Len(transfer'.data) = 0
      /\ held' = [r \in Register |-> {registers[r]}]
  BY <1>2, BeginFacts DEF IInv
<1>4. Ordered' /\ Requests' = Requests /\ Responses' = Responses
  BY <1>2, WireKept DEF IInv
<1>5. Numbered'
  BY <1>2, <1>3, <1>4 DEF IInv, Numbered
<1>6. Consumed' /\ Current'
  BY <1>3 DEF Consumed, Current
<1>7. Told'
  BY <1>2, <1>3 DEF Told
<1>8. InOrder'
  BY <1>2, <1>4 DEF IInv, InOrder, wire
<1> QED
  BY <1>1, <1>4, <1>5, <1>6, <1>7, <1>8 DEF IInv

\* A transfer that fails has nothing more to show than it had.
LEMMA ToldKept ==
    ASSUME Told, Requests' \subseteq Requests, transfer'.data = transfer.data,
           transfer'.io = transfer.io, UNCHANGED <<registers, held, writes>>
    PROVE  Told'
BY DEF Told

LEMMA TimeOutStep ==
    ASSUME IInv, TimeOut
    PROVE  IInv'
<1>1. Typed'
  BY TypedStep DEF IInv, Next, Caller
<1>2. /\ Waiting /\ pending = <<>> /\ stream = <<>> /\ Fail(FALSE)
      /\ requests # <<>> => ~Overdue
      /\ UNCHANGED <<serno, wire, registers, healthy, writes, held>>
  BY DEF TimeOut, Waiting
<1>3. /\ ~Waiting' /\ transfer'.io = transfer.io /\ transfer'.data = transfer.data
  BY <1>2, FailFacts DEF IInv, Waiting
<1>4. Ordered' /\ Requests' = Requests /\ Responses' = Responses
  BY <1>2, WireKept DEF IInv
<1>5. \A f \in Requests \cup Responses : f.age < MaxAge
  <2>1. CASE requests = <<>>
    <3>1. Requests = {} /\ ToSet(stream) = {} /\ ToSet(pending) = {}
      BY <2>1, <1>2, NoElements DEF Requests
    <3> QED
      BY <3>1, <1>2 DEF IInv, Consumed
  <2>2. CASE requests # <<>>
    BY <2>2, <1>2, NotOverdue DEF IInv
  <2> QED
    BY <2>1, <2>2
<1>6. Numbered'
  BY <1>2, <1>4, <1>5, NumberedKept DEF IInv
<1>7. Consumed' /\ Current'
  BY <1>3 DEF Consumed, Current
<1>8. Told'
  BY <1>2, <1>3, <1>4, ToldKept DEF IInv
<1>9. InOrder'
  BY <1>2, <1>4 DEF IInv, InOrder, wire
<1> QED
  BY <1>1, <1>4, <1>6, <1>7, <1>8, <1>9 DEF IInv

\* Nothing but the weather changes.
LEMMA WeatherStep ==
    ASSUME IInv, Weather \/ UNCHANGED vars
    PROVE  IInv'
<1>1. Typed'
  BY TypedStep DEF IInv, Next
<1>2. UNCHANGED <<serno, transfer, wire, registers, writes, held>>
  BY DEF Weather, vars, wire
<1>3. Ordered' /\ Requests' = Requests /\ Responses' = Responses
  BY <1>2, WireKept DEF IInv
<1>4. Numbered' /\ Told'
  BY <1>2, <1>3 DEF IInv, Numbered, Told, Waiting
<1>5. Consumed' /\ Current'
  BY <1>2, <1>3 DEF IInv, Consumed, Current, Waiting, Chunk, wire
<1>6. InOrder'
  BY <1>2, <1>3 DEF IInv, InOrder, wire
<1> QED
  BY <1>1, <1>3, <1>4, <1>5, <1>6 DEF IInv

\* What the taken frame says is true of the chunk it is taken for.
LEMMA TakeTold ==
    ASSUME IInv, Take, MaxAge < SerialNumbers,
           Head(pending).serno = serno, Head(pending).ok,
           Advance(Head(pending).value)
    PROVE  Told'
<1> DEFINE value == Head(pending).value
<1>1. Typed /\ Told /\ Current /\ Waiting
  BY TakeFacts DEF IInv
<1>2. UNCHANGED <<serno, requests, registers, healthy, writes, held>>
      /\ value \in 0..writes /\ pending # <<>>
  BY <1>1, TakeFacts
<1>3. transfer'.io = transfer.io /\ transfer'.data = Append(transfer.data, value)
  BY <1>1, <1>2, AdvanceFacts
<1>4. /\ Head(pending).age = 0 /\ Head(pending) \in Responses /\ Requests = {}
  BY <1>2, MatchIsNewest DEF IInv
<1>5. IF transfer.io = "read" THEN value \in held[Chunk] ELSE registers[Chunk] = writes
  BY <1>1, <1>4 DEF Current
<1>6. /\ transfer.data \in Seq(Nat) /\ Len(transfer.data) \in Nat /\ value \in Nat
      /\ transfer.io \in {"read", "write"}
  BY <1>1, <1>2, LenProperties DEF Typed, Tables
<1> HIDE DEF value
<1>7. /\ Len(transfer'.data) = Chunk /\ Chunk = Len(transfer.data) + 1
      /\ \A i \in 1..Len(transfer.data) : transfer'.data[i] = transfer.data[i]
      /\ transfer'.data[Chunk] = value
  BY <1>3, <1>6, AppendProperties DEF Chunk
<1>8. \A r \in 1..Chunk : r = Chunk \/ r \in 1..Len(transfer.data)
  BY <1>6, <1>7
<1>9. ASSUME NEW r \in 1..Len(transfer'.data), transfer.io = "read"
      PROVE  transfer'.data[r] \in held'[r]
  BY <1>1, <1>2, <1>5, <1>7, <1>8, <1>9 DEF Told
<1>10. ASSUME NEW r \in 1..Len(transfer'.data), transfer.io = "write"
       PROVE  registers'[r] = writes'
  BY <1>1, <1>2, <1>5, <1>7, <1>8, <1>10 DEF Told
<1>11. Requests' = {}
  BY <1>2, <1>4 DEF Requests
<1> QED
  BY <1>1, <1>2, <1>3, <1>9, <1>10, <1>11 DEF Told

LEMMA TakeStep ==
    ASSUME IInv, Take, MaxAge < SerialNumbers
    PROVE  IInv'
<1>1. Typed'
  BY TypedStep DEF IInv, Next, Caller
<1>2. /\ Requests' = Requests /\ Responses' \subseteq Responses
      /\ buffer' = <<>> /\ Ordered'
      /\ \A f \in Requests' \cup Responses' : f.age < MaxAge
  BY TakeOrder DEF IInv
<1>3. /\ Waiting
      /\ UNCHANGED <<serno, requests, stream, buffer, registers, healthy, writes, held>>
      /\ \/ transfer.skips > 0 /\ transfer' = [transfer EXCEPT !.skips = @ - 1]
         \/ \E answered \in BOOLEAN : Fail(answered)
         \/ /\ Head(pending).serno = serno /\ Head(pending).ok
            /\ Advance(Head(pending).value)
  BY TakeFacts DEF IInv
<1>4. Numbered'
  BY <1>2, <1>3, NumberedKept DEF IInv
<1>5. InOrder'
  BY <1>2, <1>3 DEF IInv, InOrder
<1>6. Consumed'
  BY <1>2, NoElements DEF Consumed
<1>7. CASE transfer.skips > 0 /\ transfer' = [transfer EXCEPT !.skips = @ - 1]
  <2>1. transfer'.data = transfer.data /\ transfer'.io = transfer.io
    BY <1>7 DEF IInv, Typed, Tables
  <2>2. Told'
    BY <2>1, <1>2, <1>3, ToldKept DEF IInv
  <2>3. Current'
    BY <2>1, <1>2, <1>3 DEF IInv, Current, Chunk
  <2> QED
    BY <2>2, <2>3, <1>1, <1>2, <1>4, <1>5, <1>6 DEF IInv
<1>8. CASE \E answered \in BOOLEAN : Fail(answered)
  <2>1. ~Waiting' /\ transfer'.data = transfer.data /\ transfer'.io = transfer.io
    BY <1>3, <1>8, FailFacts DEF IInv, Waiting
  <2>2. Told'
    BY <2>1, <1>2, <1>3, ToldKept DEF IInv
  <2>3. Current'
    BY <2>1 DEF Current
  <2> QED
    BY <2>2, <2>3, <1>1, <1>2, <1>4, <1>5, <1>6 DEF IInv
<1>9. CASE /\ Head(pending).serno = serno /\ Head(pending).ok
           /\ Advance(Head(pending).value)
  <2>1. ~Waiting'
    BY <1>3, <1>9, TakeFacts, AdvanceFacts DEF IInv
  <2>2. Told'
    BY <1>9, TakeTold
  <2>3. Current'
    BY <2>1 DEF Current
  <2> QED
    BY <2>2, <2>3, <1>1, <1>2, <1>4, <1>5, <1>6 DEF IInv
<1> QED
  BY <1>3, <1>7, <1>8, <1>9

LEMMA ReceiveStep ==
    ASSUME IInv, Receive
    PROVE  IInv'
<1>1. Typed'
  BY TypedStep DEF IInv, Next, Caller
<1>2. /\ Requests' = Requests /\ Responses' \subseteq Responses
      /\ Ordered'
      /\ \/ /\ UNCHANGED transfer /\ ToSet(buffer') = {}
            /\ ToSet(stream) \subseteq ToSet(stream') \cup ToSet(pending')
         \/ /\ Fail(FALSE)
            /\ \A f \in Requests' \cup Responses' : f.age < MaxAge
  BY ReceiveOrder DEF IInv
<1>3. /\ Waiting /\ pending = <<>>
      /\ UNCHANGED <<serno, requests, registers, healthy, writes, held>>
  BY DEF Receive, Waiting
<1>4. InOrder'
  BY <1>2, <1>3 DEF IInv, InOrder
<1>5. CASE /\ UNCHANGED transfer /\ ToSet(buffer') = {}
           /\ ToSet(stream) \subseteq ToSet(stream') \cup ToSet(pending')
  <2>1. Waiting'
    BY <1>3, <1>5 DEF Waiting
  <2>2. Numbered'
    BY <2>1, <1>2, <1>3, NumberedKept DEF IInv
  <2>3. Consumed'
    <3>1. CASE \A f \in Requests \cup Responses : f.age < MaxAge
      BY <3>1, <1>2, <1>5 DEF Consumed
    <3>2. CASE \E f \in Requests \cup ToSet(stream) \cup ToSet(pending) : f.age = 0
      <4>1. ToSet(pending) = {}
        BY <1>3, NoElements
      <4> QED
        BY <3>2, <4>1, <1>2, <1>5 DEF Consumed
    <3> QED
      BY <3>1, <3>2, <1>3 DEF IInv, Consumed
  <2>4. Current'
    BY <1>2, <1>3, <1>5 DEF IInv, Current, Chunk
  <2>5. Told'
    BY <1>2, <1>3, <1>5, ToldKept DEF IInv
  <2> QED
    BY <2>2, <2>3, <2>4, <2>5, <1>1, <1>2, <1>4 DEF IInv
<1>6. CASE /\ Fail(FALSE)
           /\ \A f \in Requests' \cup Responses' : f.age < MaxAge
  <2>1. ~Waiting' /\ transfer'.io = transfer.io /\ transfer'.data = transfer.data
    BY <1>3, <1>6, FailFacts DEF IInv, Waiting
  <2>2. Numbered'
    BY <1>2, <1>3, <1>6, NumberedKept DEF IInv
  <2>3. Consumed' /\ Current'
    BY <2>1 DEF Consumed, Current
  <2>4. Told'
    BY <2>1, <1>2, <1>3, ToldKept DEF IInv
  <2> QED
    BY <2>2, <2>3, <2>4, <1>1, <1>2, <1>4 DEF IInv
<1> QED
  BY <1>2, <1>5, <1>6

\* The next chunk is asked for when the ones before it are done.
LEMMA SendStep ==
    ASSUME IInv, Send, MaxAge < SerialNumbers
    PROVE  IInv'
<1>1. Typed'
  BY SendTyped DEF IInv
<1>2. Ordered' /\ Numbered'
  BY SendOrder, SendNumbered DEF IInv
<1>3. PICK n \in Requests' :
        /\ n.age = 0 /\ n.serno = serno' /\ n.io = transfer.io
        /\ n.value = writes /\ n.register = Chunk
        /\ requests' = Append(Older(requests), n)
        /\ \A g \in Requests' : g = n \/ \E f \in Requests :
              /\ g.age = f.age + 1 /\ g.serno = f.serno /\ g.io = f.io
              /\ g.value = f.value /\ g.register = f.register
  BY SendOrder DEF IInv
<1>4. \A g \in Responses' : \E f \in Responses :
                 /\ g.age = f.age + 1 /\ g.serno = f.serno
                 /\ g.value = f.value /\ g.ok = f.ok
  BY SendOrder DEF IInv
<1>5. /\ UNCHANGED <<registers, healthy, writes, held>>
      /\ Waiting' /\ transfer'.data = transfer.data /\ transfer'.io = transfer.io
      /\ Chunk' = Chunk /\ transfer.io \in {"read", "write"}
  <2>1. /\ UNCHANGED <<registers, healthy, writes, held>>
        /\ transfer' = [transfer EXCEPT !.pc = "receive", !.skips = Retries]
    BY SendFacts DEF IInv
  <2> QED
    BY <2>1 DEF IInv, Typed, Tables, Waiting, Chunk
<1>6. \A g \in Responses' : g.age > 0
  BY <1>4, Framed DEF IInv
<1>7. \A g \in Requests' : g.age = 0 => g = n
  BY <1>3, Framed DEF IInv
<1>8. Consumed'
  <2>1. \E f \in Requests' \cup ToSet(stream)' \cup ToSet(pending)' : f.age = 0
    BY <1>3
  <2>2. \A f \in ToSet(buffer)' : f.age > 0
    BY <1>6 DEF Responses
  <2> QED
    BY <2>1, <2>2 DEF Consumed
<1>9. Current'
  <2>1. \A f \in Requests' : f.age = 0 =>
           f.register = Chunk' /\ f.io = transfer'.io /\ f.value = writes'
    BY <1>3, <1>5, <1>7
  <2>2. \A f \in Responses' : ~(f.age = 0)
    BY <1>6
  <2> QED
    BY <2>1, <2>2 DEF Current
<1>10. Told'
  BY <1>3, <1>5 DEF IInv, Told
<1>11. InOrder'
  <2>1. Rising(requests')
    BY <1>3, SendRises DEF IInv, InOrder, Rising
  <2>2. ASSUME NEW g \in Requests', g.io = "write"
        PROVE  /\ \A r \in Register : registers'[r] <= g.value
               /\ g.register > 1 => registers'[g.register - 1] >= g.value
    <3>1. CASE g = n
      <4>1. \A r \in Register : registers[r] <= writes
        BY DEF IInv, Typed, Tables
      <4>2. ASSUME Chunk > 1 PROVE registers[Chunk - 1] >= writes
        <5>1. /\ Len(transfer.data) \in Nat /\ writes \in Nat
          BY LenProperties DEF IInv, Typed, Tables
        <5>2. Chunk - 1 \in 1..Len(transfer.data)
          BY <5>1, <4>2 DEF Chunk
        <5>3. registers[Chunk - 1] = writes
          BY <5>2, <3>1, <2>2, <1>3 DEF IInv, Told
        <5> QED
          BY <5>1, <5>3
      <4> QED
        BY <3>1, <4>1, <4>2, <1>3, <1>5
    <3>2. CASE \E f \in Requests : /\ g.io = f.io /\ g.value = f.value
                                   /\ g.register = f.register
      BY <3>2, <2>2, <1>5 DEF IInv, InOrder
    <3> QED
      BY <3>1, <3>2, <1>3
  <2>3. \A r \in 2..Chunks : registers'[r] <= registers'[r - 1]
    BY <1>5 DEF IInv, InOrder
  <2> QED
    BY <2>1, <2>2, <2>3 DEF InOrder, Rising
<1> QED
  BY <1>1, <1>2, <1>8, <1>9, <1>10, <1>11 DEF IInv

\* A request that is handled: its response stands where it stood.
LEMMA HandleStep ==
    ASSUME IInv, Handle
    PROVE  IInv'
<1> DEFINE h == Head(requests)
<1>1. Typed' /\ Typed
  BY HandleTyped DEF IInv
<1>2. PICK ok \in BOOLEAN, value \in 0..writes :
                 /\ Respond(ok, value)
                 /\ \/ /\ ok => h.io = "read"
                       /\ ok => value = registers[h.register]
                       /\ UNCHANGED <<registers, held>>
                    \/ /\ ok /\ h.io = "write"
                       /\ value = h.value
                       /\ registers' = [registers EXCEPT ![h.register] = value]
                       /\ held' = [held EXCEPT ![h.register] = @ \cup {value}]
  BY <1>1, HandleFacts
<1>3. requests # <<>>
  BY <1>1, HandleFacts
<1>4. /\ requests' = Tail(requests)
      /\ UNCHANGED <<serno, transfer, buffer, pending, healthy, writes>>
      /\ \E g \in Response :
            /\ stream' = Append(stream, g)
            /\ g.serno = h.serno /\ g.age = h.age /\ g.ok = ok /\ g.value = value
  BY <1>1, <1>2, <1>3, RespondFacts
<1>5. PICK g \in Response :
        /\ stream' = Append(stream, g)
        /\ g.serno = h.serno /\ g.age = h.age /\ g.ok = ok /\ g.value = value
  BY <1>4
<1>6. Ordered'
  BY <1>1, <1>3, <1>4, <1>5, HandOrder DEF IInv
<1>7. /\ ToSet(stream') = ToSet(stream) \cup {g}
      /\ h \in Requests /\ Requests = {h} \cup Requests'
      /\ h.register \in Register
  <2>1. ToSet(stream') = ToSet(stream) \cup {g}
    BY <1>1, <1>5, AppendFacts DEF Typed, Queues
  <2>2. h \in Requests /\ Requests = {h} \cup Requests'
    BY <1>1, <1>3, <1>4, TailFacts DEF Typed, Queues, Requests
  <2> QED
    BY <2>1, <2>2, <1>1, <1>3, FirstRequest
<1>8. Responses' = Responses \cup {g} /\ (Waiting' <=> Waiting)
  BY <1>4, <1>7 DEF Responses, Waiting
<1> HIDE DEF h
<1>9. Numbered'
  <2>1. ASSUME NEW f \in Requests' \cup Responses'
        PROVE  \E o \in Requests \cup Responses : f.age = o.age /\ f.serno = o.serno
    BY <1>5, <1>7, <1>8
  <2>2. ~Waiting => \A f \in Requests' \cup Responses' : f.age < MaxAge
    BY <2>1 DEF IInv, Numbered
  <2> QED
    BY <2>1, <2>2, <1>4, <1>8, NumberedKept DEF IInv
<1>10. Consumed'
  <2>1. CASE \A f \in Requests \cup Responses : f.age < MaxAge
    <3>1. \A f \in Requests' \cup Responses' : f.age < MaxAge
      BY <2>1, <1>5, <1>7, <1>8
    <3> QED
      BY <3>1, <1>4, <1>8 DEF IInv, Consumed
  <2>2. CASE \E f \in Requests \cup ToSet(stream) \cup ToSet(pending) : f.age = 0
    <3>1. \E f \in Requests' \cup ToSet(stream') \cup ToSet(pending') : f.age = 0
      BY <2>2, <1>4, <1>5, <1>7
    <3> QED
      BY <3>1, <1>4, <1>8 DEF IInv, Consumed
  <2>3. CASE ~Waiting
    BY <2>3, <1>8 DEF Consumed
  <2> QED
    BY <2>1, <2>2, <2>3 DEF IInv, Consumed
<1>11. Told' /\ InOrder'
  BY <1>1, <1>2, <1>3, <1>4, WrittenStep DEF IInv, h
<1>12. Current'
  <2> SUFFICES ASSUME Waiting PROVE Current'
    BY <1>8 DEF Current
  <2>1. Chunk' = Chunk /\ transfer' = transfer /\ writes' = writes
    BY <1>4 DEF Chunk
  <2>2. \A f \in Requests' : f.age = 0 =>
            f.register = Chunk' /\ f.io = transfer'.io /\ f.value = writes'
    BY <2>1, <1>7 DEF IInv, Current
  <2>3. ASSUME NEW f \in Responses', f.age = 0, f.ok
        PROVE  IF transfer.io = "read" THEN f.value \in held'[Chunk]
                                       ELSE registers'[Chunk] = writes
    <3>1. CASE f = g
      <4>1. h.register = Chunk /\ h.io = transfer.io /\ h.value = writes
        BY <3>1, <2>3, <1>5, <1>7 DEF IInv, Current
      <4>2. CASE /\ h.io = "read" /\ value = registers[h.register]
                 /\ UNCHANGED <<registers, held>>
        BY <3>1, <4>1, <4>2, <1>5, <1>7 DEF IInv, Told
      <4>3. CASE /\ h.io = "write" /\ value = h.value
                 /\ registers' = [registers EXCEPT ![h.register] = value]
        BY <3>1, <4>1, <4>3, <1>1, <1>5, <1>7 DEF Typed, Tables
      <4> QED
        BY <3>1, <2>3, <4>2, <4>3, <1>2, <1>5
    <3>2. CASE f \in ToSet(stream) \cup ToSet(buffer) \cup ToSet(pending)
      <4>1. f.age > h.age
        BY <3>2, <1>7 DEF IInv, Ordered, Above, Requests
      <4>2. h.age \in Nat
        BY <1>1, <1>7, Framed
      <4> QED
        BY <4>1, <4>2, <2>3
    <3> QED
      BY <3>1, <3>2, <1>8 DEF Responses
  <2> QED
    BY <2>1, <2>2, <2>3 DEF Current
<1> QED
  BY <1>1, <1>6, <1>9, <1>10, <1>11, <1>12 DEF IInv

\* A request that is lost, or was carried out and never answered.
LEMMA SilentStep ==
    ASSUME IInv, Silent
    PROVE  IInv'
<1> DEFINE h == Head(requests)
<1>1. Typed' /\ Typed
  BY SilentTyped DEF IInv
<1>2. /\ requests # <<>> /\ requests' = Tail(requests) /\ ~Overdue
      /\ UNCHANGED <<serno, transfer, stream, buffer, pending, healthy, writes>>
      /\ \/ UNCHANGED <<registers, held>>
         \/ /\ h.io = "write"
            /\ registers' = [registers EXCEPT ![h.register] = h.value]
            /\ held' = [held EXCEPT ![h.register] = @ \cup {h.value}]
  BY DEF Silent
<1>3. Ordered'
  BY <1>1, <1>2, HandOrder DEF IInv
<1>4. /\ h \in Requests /\ Requests' \subseteq Requests
      /\ Responses' = Responses /\ (Waiting' <=> Waiting)
  <2>1. h \in Requests /\ Requests' \subseteq Requests
    BY <1>1, <1>2, FirstRequest DEF Requests
  <2> QED
    BY <2>1, <1>2 DEF Responses, Waiting
<1>5. \A f \in Requests' \cup Responses' : f.age < MaxAge
  BY <1>1, <1>2, <1>4, NotOverdue
<1>6. Numbered'
  BY <1>2, <1>4, <1>5, NumberedKept DEF IInv
<1>7. Consumed'
  BY <1>2, <1>4, <1>5 DEF IInv, Consumed
<1>8. Told' /\ InOrder'
  BY <1>1, <1>2, WrittenStep DEF IInv
<1>9. Current'
  <2> SUFFICES ASSUME Waiting PROVE Current'
    BY <1>4 DEF Current
  <2>1. Chunk' = Chunk /\ transfer' = transfer /\ writes' = writes
    BY <1>2 DEF Chunk
  <2>2. \A f \in Requests' : f.age = 0 =>
            f.register = Chunk' /\ f.io = transfer'.io /\ f.value = writes'
    BY <2>1, <1>4 DEF IInv, Current
  <2>3. ASSUME NEW f \in Responses', f.age = 0 PROVE FALSE
    <3>1. f.age > h.age
      BY <1>4 DEF IInv, Ordered, Above, Requests, Responses
    <3>2. h.age \in Nat
      BY <1>1, <1>4, Framed
    <3> HIDE DEF h
    <3> QED
      BY <3>1, <3>2, <2>3
  <2> QED
    BY <2>1, <2>2, <2>3 DEF Current
<1> QED
  BY <1>1, <1>3, <1>6, <1>7, <1>8, <1>9 DEF IInv

-----------------------------------------------------------------------------
(* What holds of every behaviour.                                            *)

LEMMA InvariantInit == Init => IInv
<1> SUFFICES ASSUME Init PROVE IInv
  OBVIOUS
<1>1. Typed
  BY TypedInit
<1>2. /\ requests = <<>> /\ stream = <<>> /\ buffer = <<>> /\ pending = <<>>
      /\ transfer.data = <<>> /\ ~Waiting
      /\ registers = [r \in Register |-> 0] /\ held = [r \in Register |-> {0}]
  BY DEF Init, Waiting
<1>3. /\ Requests = {} /\ Responses = {}
      /\ ToSet(<<>>) = {} /\ Falling(<<>>) /\ Len(<<>>) = 0
  BY <1>2, NoElements DEF Requests, Responses
<1>4. Ordered
  BY <1>2, <1>3 DEF Ordered, Above
<1>5. Numbered /\ Consumed /\ Current
  BY <1>2, <1>3 DEF Numbered, Consumed, Current
<1>6. Told
  BY <1>2, <1>3 DEF Told
<1>7. InOrder
  <2>1. \A r \in 2..Chunks : r \in Register /\ r - 1 \in Register
    BY BusAssumption DEF Register
  <2> QED
    BY <2>1, <1>2, <1>3 DEF InOrder
<1> QED
  BY <1>1, <1>4, <1>5, <1>6, <1>7 DEF IInv

LEMMA InvariantStep ==
    ASSUME MaxAge < SerialNumbers
    PROVE  IInv /\ [Next]_vars => IInv'
<1> SUFFICES ASSUME IInv, [Next]_vars PROVE IInv'
  OBVIOUS
<1>1. CASE Read \/ Write
  BY <1>1, BeginStep
<1>2. CASE Send
  BY <1>2, SendStep
<1>3. CASE Take
  BY <1>3, TakeStep
<1>4. CASE Receive
  BY <1>4, ReceiveStep
<1>5. CASE TimeOut
  BY <1>5, TimeOutStep
<1>6. CASE Handle
  BY <1>6, HandleStep
<1>7. CASE Silent
  BY <1>7, SilentStep
<1>8. CASE Weather \/ UNCHANGED vars
  BY <1>8, WeatherStep
<1> QED
  BY <1>1, <1>2, <1>3, <1>4, <1>5, <1>6, <1>7, <1>8 DEF Next, Caller

LEMMA Invariance ==
    ASSUME MaxAge < SerialNumbers
    PROVE  Spec => []IInv
BY InvariantInit, InvariantStep, PTL DEF Spec

\* A read returns what the registers held since it began, never an answer
\* left over from an earlier request: if none is late by a turn of the serial
\* numbers (client.py:75).
THEOREM ReadsAreFresh ==
    ASSUME MaxAge < SerialNumbers
    PROVE  Spec => []ReadIsFresh
<1>1. IInv => ReadIsFresh
  <2> SUFFICES ASSUME IInv PROVE ReadIsFresh
    OBVIOUS
  <2>1. DOMAIN transfer.data = 1..Len(transfer.data)
    BY LenProperties DEF IInv, Typed, Tables
  <2> QED
    BY <2>1 DEF IInv, Told, ReadIsFresh
<1> QED
  BY <1>1, Invariance, PTL

\* A chunk whose write was acknowledged is on the device and stays there until
\* the next write begins, whatever is still under way (client.py:92).
THEOREM AcknowledgedIsWritten ==
    ASSUME MaxAge < SerialNumbers
    PROVE  Spec => []AcknowledgedWritesHold
<1>1. IInv => AcknowledgedWritesHold
  <2> SUFFICES ASSUME IInv PROVE AcknowledgedWritesHold
    OBVIOUS
  <2>1. DOMAIN transfer.data = 1..Len(transfer.data)
    BY LenProperties DEF IInv, Typed, Tables
  <2> QED
    BY <2>1 DEF IInv, Told, AcknowledgedWritesHold
<1> QED
  BY <1>1, Invariance, PTL

\* However a transfer ends, the registers hold a prefix of what it wrote, and
\* the rest of what was written before (client.py:92).
THEOREM FailedWritesArePrefixes ==
    ASSUME MaxAge < SerialNumbers
    PROVE  Spec => []TornWritesArePrefixes
<1>1. IInv => TornWritesArePrefixes
  BY DEF IInv, InOrder, TornWritesArePrefixes
<1> QED
  BY <1>1, Invariance, PTL

-----------------------------------------------------------------------------
(* The bus implements Registers.                                             *)

LEMMA PromisedInit == Init => Promise!Init
BY DEF Init, Promise!Init, Promise!Register, Register

\* What the caller does not see of a step, it does not see at all.
LEMMA Unseen ==
    ASSUME UNCHANGED <<registers, writes, held>>,
           transfer'.pc = "idle" <=> transfer.pc = "idle",
           transfer'.io = transfer.io, transfer'.data = transfer.data,
           transfer'.result = transfer.result
    PROVE  UNCHANGED Promise!vars
BY DEF Promise!vars, Promise!call

\* A call of read or write.
LEMMA PromisedBegin == ASSUME Typed, Read \/ Write PROVE Promise!Next
<1>1. ASSUME NEW io \in {"read", "write"}, Begin(io), registers' = registers
      PROVE  Promise!Begin /\ transfer'.io = io
  <2>1. /\ transfer.pc = "idle"
        /\ transfer' = [transfer EXCEPT !.pc = "send", !.io = io, !.data = <<>>]
        /\ held' = [r \in Register |-> {registers[r]}]
    BY <1>1 DEF Begin
  <2>2. /\ transfer'.pc = "send" /\ transfer'.io = io /\ transfer'.data = <<>>
        /\ transfer'.result = transfer.result
    BY <2>1 DEF Typed, Tables
  <2> QED
    BY <1>1, <2>1, <2>2 DEF Promise!Begin, Promise!Register, Register
<1>2. CASE Read
  BY <1>1, <1>2 DEF Read, Promise!Read, Promise!Next
<1>3. CASE Write
  BY <1>1, <1>3 DEF Write, Promise!Write, Promise!Next
<1> QED
  BY <1>2, <1>3

\* An exchange that fails.
LEMMA PromisedFail ==
    ASSUME Typed, Waiting, NEW answered, Fail(answered), UNCHANGED <<registers, writes, held>>
    PROVE  Promise!Next
<1>1. transfer' = [transfer EXCEPT !.pc = "idle", !.result = "failed", !.answered = answered]
  BY DEF Fail
<1>2. /\ transfer'.pc = "idle" /\ transfer'.result = "failed" /\ transfer'.io = transfer.io
      /\ transfer'.data = transfer.data /\ transfer.pc = "receive"
  BY <1>1 DEF Typed, Tables, Waiting
<1> QED
  BY <1>2 DEF Promise!Next, Promise!Fail

\* An exchange that succeeds: what it returns is what the register held, or holds.
LEMMA PromisedReturn ==
    ASSUME IInv, Take, MaxAge < SerialNumbers,
           Head(pending).serno = serno, Head(pending).ok,
           Advance(Head(pending).value)
    PROVE  Promise!Next
<1> DEFINE value == Head(pending).value
           data == Append(transfer.data, value)
<1>1. Typed /\ Current /\ Waiting
  BY TakeFacts DEF IInv
<1>2. /\ UNCHANGED <<serno, requests, registers, healthy, writes, held>>
      /\ value \in 0..writes /\ pending # <<>>
  BY <1>1, TakeFacts
<1>3. Head(pending).age = 0 /\ Head(pending) \in Responses
  BY <1>2, MatchIsNewest DEF IInv
<1>4. IF transfer.io = "read" THEN value \in held[Chunk] ELSE registers[Chunk] = writes
  BY <1>1, <1>3 DEF Current
<1>5. /\ transfer.data \in Seq(Nat) /\ value \in Nat /\ transfer.pc = "receive"
      /\ transfer.io \in {"read", "write"}
  BY <1>1, <1>2 DEF Typed, Tables, Waiting
<1>6. Len(data) = Chunk
  BY <1>5, AppendProperties DEF Chunk
<1>7. transfer' = [transfer EXCEPT
                     !.data = data, !.answered = TRUE,
                     !.pc = IF Len(data) = Chunks THEN "idle" ELSE "send",
                     !.result = IF Len(data) = Chunks THEN "done" ELSE @]
  BY DEF Advance
<1> HIDE DEF data, value
<1>8. /\ transfer'.pc = (IF Len(data) = Chunks THEN "idle" ELSE "send")
      /\ transfer'.result = (IF Len(data) = Chunks THEN "done" ELSE transfer.result)
      /\ transfer'.data = data /\ transfer'.io = transfer.io
  BY <1>1, <1>7 DEF Typed, Tables
<1>9. Len(transfer.data) + 1 = Chunk /\ data = Append(transfer.data, value)
  BY DEF data, value, Chunk
<1>10. Promise!Return(value)
  BY <1>2, <1>4, <1>5, <1>6, <1>8, <1>9 DEF Promise!Return
<1> QED
  BY <1>2, <1>10 DEF Promise!Next

\* A write that is carried out, of this transfer or of one before: not over a
\* later one, nor ahead of the register before it.
LEMMA PromisedPerform ==
    ASSUME IInv, requests # <<>>, Head(requests).io = "write",
           registers' = [registers EXCEPT ![Head(requests).register] = Head(requests).value],
           held' = [held EXCEPT
                       ![Head(requests).register] = @ \cup {Head(requests).value}],
           UNCHANGED <<transfer, writes>>
    PROVE  Promise!Next
<1> DEFINE h == Head(requests)
           r == Head(requests).register
           v == Head(requests).value
<1>1. h \in Requests /\ r \in Register /\ v \in 0..writes
  BY FirstRequest DEF IInv, Requests
<1>2. registers[r] <= v /\ (r > 1 => v <= registers[r - 1])
  <2>1. /\ \A q \in Register : registers[q] <= v
        /\ r > 1 => registers[r - 1] >= v
    BY <1>1 DEF IInv, InOrder
  <2>2. registers \in [Register -> 0..writes] /\ writes \in Nat /\ Register = 1..Chunks
        /\ Chunks \in Nat
    BY BusAssumption DEF IInv, Typed, Tables, Register
  <2>3. r > 1 => r - 1 \in Register
    BY <1>1, <2>2
  <2> HIDE DEF r, v
  <2>4. r > 1 => registers[r - 1] \in Nat
    BY <2>2, <2>3
  <2> QED
    BY <1>1, <2>1, <2>2, <2>4
<1>3. Promise!Perform(r, v)
  BY <1>2 DEF Promise!Perform, Promise!call
<1> HIDE DEF r, v
<1> QED
  BY <1>1, <1>3 DEF Promise!Next, Promise!Register, Register

LEMMA PromisedHandle == ASSUME IInv, Handle PROVE Promise!Next \/ UNCHANGED Promise!vars
<1> DEFINE h == Head(requests)
<1>1. requests # <<>> /\ Typed
  BY HandleFacts DEF IInv
<1>2. PICK ok \in BOOLEAN, value \in 0..writes :
          /\ Respond(ok, value)
          /\ \/ UNCHANGED <<registers, held>>
             \/ /\ h.io = "write" /\ value = h.value
                /\ registers' = [registers EXCEPT ![h.register] = value]
                /\ held' = [held EXCEPT ![h.register] = @ \cup {value}]
  BY <1>1, HandleFacts
<1>3. UNCHANGED <<transfer, writes>>
  BY <1>2 DEF Respond
<1>4. CASE UNCHANGED <<registers, held>>
  BY <1>3, <1>4, Unseen
<1>5. CASE /\ h.io = "write"
           /\ registers' = [registers EXCEPT ![h.register] = h.value]
           /\ held' = [held EXCEPT ![h.register] = @ \cup {h.value}]
  BY <1>1, <1>3, <1>5, PromisedPerform
<1> QED
  BY <1>2, <1>4, <1>5

LEMMA PromisedStep ==
    ASSUME MaxAge < SerialNumbers
    PROVE  IInv /\ [Next]_vars => [Promise!Next]_(Promise!vars)
<1> SUFFICES ASSUME IInv, [Next]_vars PROVE Promise!Next \/ UNCHANGED Promise!vars
  OBVIOUS
<1>0. Typed
  BY DEF IInv
<1>1. CASE Read \/ Write
  BY <1>0, <1>1, PromisedBegin
<1>2. CASE Send
  <2>1. /\ UNCHANGED <<registers, writes, held>> /\ transfer.pc = "send"
        /\ transfer' = [transfer EXCEPT !.pc = "receive", !.skips = Retries]
    BY <1>0, <1>2, SendFacts DEF Send
  <2>2. /\ transfer'.pc = "receive" /\ transfer'.io = transfer.io
        /\ transfer'.data = transfer.data /\ transfer'.result = transfer.result
    BY <1>0, <2>1 DEF Typed, Tables
  <2> QED
    BY <2>1, <2>2, Unseen
<1>3. CASE Take
  <2>1. Waiting /\ UNCHANGED <<registers, writes, held>>
    BY <1>0, <1>3, TakeFacts
  <2>2. CASE transfer' = [transfer EXCEPT !.skips = @ - 1]
    <3>1. /\ transfer'.pc = transfer.pc /\ transfer'.io = transfer.io
          /\ transfer'.data = transfer.data /\ transfer'.result = transfer.result
      BY <1>0, <2>2 DEF Typed, Tables
    <3> QED
      BY <2>1, <3>1, Unseen
  <2>3. CASE \E answered \in BOOLEAN : Fail(answered)
    BY <1>0, <2>1, <2>3, PromisedFail
  <2>4. CASE Head(pending).serno = serno /\ Head(pending).ok /\ Advance(Head(pending).value)
    BY <1>3, <2>4, PromisedReturn
  <2> QED
    BY <1>0, <1>3, <2>2, <2>3, <2>4, TakeFacts
<1>4. CASE Receive
  <2>1. /\ Waiting /\ UNCHANGED <<registers, writes, held>>
        /\ UNCHANGED transfer \/ Fail(FALSE)
    BY <1>4 DEF Receive, Waiting
  <2> QED
    BY <1>0, <2>1, PromisedFail, Unseen
<1>5. CASE TimeOut
  <2>1. Waiting /\ UNCHANGED <<registers, writes, held>> /\ Fail(FALSE)
    BY <1>5 DEF TimeOut, Waiting
  <2> QED
    BY <1>0, <2>1, PromisedFail
<1>6. CASE Handle
  BY <1>6, PromisedHandle
<1>7. CASE Silent
  <2>1. /\ requests # <<>> /\ UNCHANGED <<transfer, writes>>
        /\ \/ UNCHANGED <<registers, held>>
           \/ /\ Head(requests).io = "write"
              /\ registers' = [registers EXCEPT
                                   ![Head(requests).register] = Head(requests).value]
              /\ held' = [held EXCEPT
                              ![Head(requests).register] = @ \cup {Head(requests).value}]
    BY <1>7 DEF Silent
  <2>2. CASE UNCHANGED <<registers, held>>
    BY <2>1, <2>2, Unseen
  <2> QED
    BY <2>1, <2>2, PromisedPerform
<1>8. CASE Weather \/ UNCHANGED vars
  <2>1. UNCHANGED <<transfer, registers, writes, held>>
    BY <1>8 DEF Weather, vars
  <2> QED
    BY <2>1, Unseen
<1> QED
  BY <1>1, <1>2, <1>3, <1>4, <1>5, <1>6, <1>7, <1>8 DEF Next, Caller

\* Whatever becomes of its frames, and whatever earlier transfers left under way, a
\* transfer on the bus is one of registers, if no answer is late by a turn of the
\* serial numbers (client.py:92).
THEOREM BusImplementsRegisters ==
    ASSUME MaxAge < SerialNumbers
    PROVE  Spec => ImplementsRegisters
BY PromisedInit, PromisedStep, Invariance, PTL DEF Spec, ImplementsRegisters, Promise!Spec

=============================================================================
