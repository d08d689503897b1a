------------------------ MODULE AnswerPipeline_proofs ------------------------
(***************************************************************************)
(* Proofs about the delivery of answers, for any requests, endpoints and   *)
(* lengths: what a client gets is in order and never twice, nothing is     *)
(* lost but by overwriting a slot, and no table entry is left behind.      *)
(***************************************************************************)
EXTENDS AnswerPipeline, SequenceTheorems, FiniteSetTheorems, WellFoundedInduction, TLAPS

-----------------------------------------------------------------------------
(* Types of the messages and of what the rest of the proof relies on.      *)
Calls == [type : {"request", "abort"}, req : Req]
Refusals == [type : {"refuse"}, reqs : SUBSET Req]
Token == [number : Nat, finished : BOOLEAN, abort : BOOLEAN]
TokenMsgs == [type : {"tokens"}, of : UNION {[S -> Token] : S \in SUBSET Req}]
Text == [text : Seq(Nat), finished : BOOLEAN, abort : BOOLEAN]
TextMsgs == [type : {"text"}, of : UNION {[S -> Text] : S \in SUBSET Req}]
ToDetok == Calls \cup Refusals \cup TokenMsgs
ToHttp == Refusals \cup TextMsgs
Slot == [text : Seq(Nat), meta : BOOLEAN, finished : BOOLEAN, there : BOOLEAN]

TypeInv ==
  /\ toRouter \in Seq(Calls)
  /\ toDetok \in Seq(ToDetok)
  /\ toHttp \in Seq(ToHttp)
  /\ serving \in SUBSET Req /\ cancelled \in SUBSET Req /\ known \in SUBSET Req
  /\ generated \in [Req -> Nat]
  /\ shown \in [Req -> Nat]
  /\ slot \in [Req -> Slot] /\ held \in [Req -> Slot]
  /\ event \in SUBSET Req
  /\ gen \in [Req -> {"new", "waiting", "yielded", "ended", "gone"}]
  /\ received \in [Req -> Seq(Nat)]
  /\ outcome \in [Req -> {"open", "complete", "refused", "left", "error"}]
  /\ lost \in [Req -> SUBSET Nat]

-----------------------------------------------------------------------------
(* A request is open for its client as long as a coroutine may pass text   *)
(* on, and its slot is there for no other.                                 *)
ClientInv ==
  \A r \in Req :
    /\ gen[r] \in {"new", "waiting", "yielded"} => outcome[r] = "open"
    /\ slot[r].there => gen[r] \in {"waiting", "yielded"}
    /\ gen[r] # "yielded" => held[r].text = <<>> /\ ~held[r].finished
    /\ ~slot[r].there => slot[r].text = <<>> /\ ~slot[r].finished /\ ~slot[r].meta

-----------------------------------------------------------------------------
(* The order of an answer's tokens.  Every number is in one of these       *)
(* places, and each place is ahead of those before it in this list.        *)
Before(A, B) == \A x \in A, y \in B : x < y

HasToken(m, r) == m.type = "tokens" /\ r \in DOMAIN m.of
HasText(m, r) == m.type = "text" /\ r \in DOMAIN m.of

(* r's numbers in the pipe p ascend, above lo and up to hi.                *)
Ascending(p, r, lo, hi) ==
  /\ lo <= hi
  /\ \A i \in 1..Len(p) : HasToken(p[i], r) => lo < p[i].of[r].number /\ p[i].of[r].number <= hi
  /\ \A i, j \in 1..Len(p) :
       i < j /\ HasToken(p[i], r) /\ HasToken(p[j], r) => p[i].of[r].number < p[j].of[r].number

(* Consecutive numbers up to k.                                            *)
Piece(n, m) == [i \in 1..(m - n) |-> n + i]
PiecesTo(k) == {Piece(n, m) : n \in 0..k, m \in 0..k}

(* r's texts in the pipe p are pieces up to k, after the numbers of A, and *)
(* each is after those before it.                                          *)
TextsAfter(p, r, A, k) ==
  /\ \A i \in 1..Len(p) : HasText(p[i], r) =>
       p[i].of[r].text \in PiecesTo(k) /\ Before(A, Elements(p[i].of[r].text))
  /\ \A i, j \in 1..Len(p) :
       i < j /\ HasText(p[i], r) /\ HasText(p[j], r)
         => Before(Elements(p[i].of[r].text), Elements(p[j].of[r].text))

Got(r) == Elements(received[r])
Held(r) == Elements(held[r].text)
InSlot(r) == Elements(slot[r].text)
Arrived(r) == Got(r) \cup Held(r) \cup lost[r] \cup InSlot(r)

TextsInOrder(r) ==
  /\ held[r].text \in PiecesTo(shown[r]) /\ slot[r].text \in PiecesTo(shown[r])
  /\ Got(r) \subseteq 1..shown[r] /\ lost[r] \subseteq 1..shown[r]
  /\ Before(Got(r), Held(r))
  /\ Before(Got(r) \cup Held(r) \cup lost[r], InSlot(r))
  /\ lost[r] \cap (Got(r) \cup Held(r)) = {}
  /\ TextsAfter(toHttp, r, Arrived(r), shown[r])

OrderInv ==
  \A r \in Req : /\ Ascending(toDetok, r, shown[r], generated[r])
                /\ TextsInOrder(r)

(* The numbers of r's texts in a pipe.                                     *)
Sent(p, r) ==
  UNION {Elements(p[i].of[r].text) : i \in {j \in DOMAIN p : HasText(p[j], r)}}

CoverInv ==
  \A r \in Req : slot[r].there => 1..shown[r] \subseteq Arrived(r) \cup Sent(toHttp, r)

-----------------------------------------------------------------------------
(* How requests enter and leave the tables.                                *)
Starts(m, r) == m.type = "request" /\ m.req = r
Ends(m, r) ==
  \/ m.type = "abort" /\ m.req = r
  \/ m.type = "refuse" /\ r \in m.reqs
Closes(m, r) ==
  \/ m.type = "refuse" /\ r \in m.reqs
  \/ HasText(m, r) /\ (m.of[r].finished \/ m.of[r].abort)

HasStart(p, r) == \E i \in 1..Len(p) : Starts(p[i], r)
HasEnd(p, r) == \E i \in 1..Len(p) : Ends(p[i], r)
HasClose(p, r) == \E i \in 1..Len(p) : Closes(p[i], r)
OneStart(p, r) == \A i, j \in 1..Len(p) : Starts(p[i], r) /\ Starts(p[j], r) => i = j
StartsFirst(p, r) == \A i, j \in 1..Len(p) : Starts(p[i], r) /\ Ends(p[j], r) => i < j

(* Detokenization does not know the request and will not.                  *)
Settled(r) == r \notin known /\ ~HasStart(toRouter, r) /\ ~HasStart(toDetok, r)

PipesInv(r) ==
  /\ HasStart(toRouter, r) => /\ ~HasStart(toDetok, r) /\ ~HasEnd(toDetok, r)
                              /\ r \notin known /\ r \notin serving
  /\ HasStart(toDetok, r) => r \notin known
  /\ OneStart(toRouter, r) /\ OneStart(toDetok, r)
  /\ StartsFirst(toRouter, r) /\ StartsFirst(toDetok, r)

Untouched(r) ==
  /\ Settled(r)
  /\ r \notin serving
  /\ ~HasEnd(toRouter, r) /\ ~HasEnd(toDetok, r) /\ ~HasClose(toHttp, r)
  /\ shown[r] = 0

EntriesInv(r) ==
  /\ gen[r] = "new" \/ endpoint[r] = "chat" => Untouched(r)
  /\ endpoint[r] = "chat" => gen[r] \in {"new", "gone"}
  /\ gen[r] = "gone" => HasEnd(toRouter, r) \/ HasEnd(toDetok, r) \/ Settled(r)
  /\ ~slot[r].there /\ gen[r] \in {"waiting", "yielded"} => Settled(r)
  /\ slot[r].finished \/ held[r].finished => Settled(r)
  /\ HasClose(toHttp, r) => Settled(r)

LeakInv == \A r \in Req : PipesInv(r) /\ EntriesInv(r)

-----------------------------------------------------------------------------
(* Pipes.                                                                  *)
LEMMA AppendAt ==
  ASSUME NEW S, NEW s \in Seq(S), NEW e \in S
  PROVE  /\ Append(s, e) \in Seq(S)
         /\ Len(s) \in Nat /\ Len(Append(s, e)) = Len(s) + 1
         /\ \A i \in 1..Len(s) : Append(s, e)[i] = s[i]
         /\ Append(s, e)[Len(s) + 1] = e
BY AppendProperties, LenProperties

LEMMA TailAt ==
  ASSUME NEW S, NEW s \in Seq(S), s # <<>>
  PROVE  /\ Head(s) = s[1] /\ Head(s) \in S
         /\ Tail(s) \in Seq(S)
         /\ Len(s) \in Nat \ {0} /\ Len(Tail(s)) = Len(s) - 1
         /\ \A i \in 1..Len(Tail(s)) : Tail(s)[i] = s[i + 1]
<1>1. Len(s) \in Nat \ {0}
  BY EmptySeq
<1>2. QED
  BY <1>1, HeadTailProperties

(* Texts.                                                                  *)
LEMMA EmptyPiece ==
  /\ <<>> \in Seq(Nat)
  /\ Elements(<<>>) = {}
  /\ \A k \in Nat : <<>> \in PiecesTo(k)
<1>1. <<>> \in Seq(Nat) /\ Elements(<<>>) = {}
  BY DEF Elements
<1>2. ASSUME NEW k \in Nat PROVE <<>> \in PiecesTo(k)
  <2>1. 0 \in 0..k /\ 1..(0 - 0) = {}
    OBVIOUS
  <2>2. Piece(0, 0) \in PiecesTo(k)
    BY <2>1 DEF PiecesTo
  <2>3. Piece(0, 0) = <<>>
    BY <2>1 DEF Piece
  <2>4. QED
    BY <2>2, <2>3
<1>3. QED
  BY <1>1, <1>2

LEMMA PiecesGrow ==
  ASSUME NEW k \in Nat, NEW l \in Nat, k <= l
  PROVE  PiecesTo(k) \subseteq PiecesTo(l)
<1>1. 0..k \subseteq 0..l
  OBVIOUS
<1>2. QED
  BY <1>1 DEF PiecesTo

LEMMA PieceElements ==
  ASSUME NEW k \in Nat, NEW t \in PiecesTo(k)
  PROVE  /\ t \in Seq(Nat)
         /\ Elements(t) \subseteq 1..k
         /\ \A i \in DOMAIN t : t[i] \in Elements(t)
         /\ \A i, j \in DOMAIN t : i < j => t[i] < t[j]
<1>1. PICK n \in 0..k, m \in 0..k : t = [i \in 1..(m - n) |-> n + i]
  BY DEF PiecesTo, Piece
<1>2. DOMAIN t = 1..(m - n) /\ \A i \in 1..(m - n) : t[i] = n + i /\ n + i \in 1..k
  BY <1>1
<1>3. CASE m <= n
  <2>1. 1..(m - n) = {}
    BY <1>3
  <2>2. t = <<>>
    BY <1>1, <2>1
  <2>3. QED
    BY <2>2, EmptyPiece
<1>4. CASE n < m
  <2>1. m - n \in Nat /\ t \in [1..(m - n) -> Nat]
    BY <1>1, <1>2, <1>4
  <2>2. t \in Seq(Nat)
    BY <2>1, SeqDef
  <2>3. QED
    BY <1>2, <2>2 DEF Elements
<1>5. QED
  BY <1>3, <1>4

LEMMA NewPiece ==
  ASSUME NEW r \in Req, shown[r] \in Nat, NEW number \in Nat, shown[r] < number
  PROVE  /\ NewText(r, number) \in PiecesTo(number)
         /\ Elements(NewText(r, number)) = (shown[r] + 1)..number
<1> DEFINE n == shown[r]
<1>1. NewText(r, number) = [i \in 1..(number - n) |-> n + i]
  BY DEF NewText
<1>2. n \in 0..number /\ number \in 0..number
  OBVIOUS
<1>3. NewText(r, number) \in PiecesTo(number)
  BY <1>1, <1>2 DEF PiecesTo, Piece
<1>4. Elements(NewText(r, number)) = {n + i : i \in 1..(number - n)}
  BY <1>1 DEF Elements
<1>5. {n + i : i \in 1..(number - n)} = (n + 1)..number
  <2>1. ASSUME NEW x \in (n + 1)..number PROVE \E i \in 1..(number - n) : x = n + i
    <3>1. x - n \in 1..(number - n) /\ x = n + (x - n)
      OBVIOUS
    <3>2. QED
      BY <3>1
  <2>2. \A i \in 1..(number - n) : n + i \in (n + 1)..number
    OBVIOUS
  <2>3. QED
    BY <2>1, <2>2
<1>6. QED
  BY <1>3, <1>4, <1>5

LEMMA JoinedElements ==
  ASSUME NEW s \in Seq(Nat), NEW t \in Seq(Nat)
  PROVE  s \o t \in Seq(Nat) /\ Elements(s \o t) = Elements(s) \cup Elements(t)
<1>1. /\ s \o t \in Seq(Nat)
      /\ Len(s \o t) = Len(s) + Len(t)
      /\ \A i \in 1..Len(s) + Len(t) :
           (s \o t)[i] = IF i <= Len(s) THEN s[i] ELSE t[i - Len(s)]
  BY ConcatProperties
<1>2. /\ Len(s) \in Nat /\ Len(t) \in Nat
      /\ DOMAIN s = 1..Len(s) /\ DOMAIN t = 1..Len(t)
      /\ DOMAIN (s \o t) = 1..(Len(s) + Len(t))
  BY <1>1, LenProperties
<1>3. ASSUME NEW x \in Elements(s \o t) PROVE x \in Elements(s) \cup Elements(t)
  <2>1. PICK i \in 1..(Len(s) + Len(t)) : x = (s \o t)[i]
    BY <1>2 DEF Elements
  <2>2. CASE i <= Len(s)
    BY <1>1, <1>2, <2>1, <2>2 DEF Elements
  <2>3. CASE ~(i <= Len(s))
    <3>1. i - Len(s) \in 1..Len(t) /\ x = t[i - Len(s)]
      BY <1>1, <1>2, <2>1, <2>3
    <3>2. QED
      BY <1>2, <3>1 DEF Elements
  <2>4. QED
    BY <2>2, <2>3
<1>4. ASSUME NEW x \in Elements(s) PROVE x \in Elements(s \o t)
  <2>1. PICK i \in 1..Len(s) : x = s[i]
    BY <1>2 DEF Elements
  <2>2. i \in 1..(Len(s) + Len(t)) /\ (s \o t)[i] = x
    BY <1>1, <1>2, <2>1
  <2>3. QED
    BY <1>2, <2>2 DEF Elements
<1>5. ASSUME NEW x \in Elements(t) PROVE x \in Elements(s \o t)
  <2>1. PICK i \in 1..Len(t) : x = t[i]
    BY <1>2 DEF Elements
  <2>2. /\ Len(s) + i \in 1..(Len(s) + Len(t)) /\ ~(Len(s) + i <= Len(s))
        /\ (Len(s) + i) - Len(s) = i
    BY <1>2, <2>1
  <2>3. (s \o t)[Len(s) + i] = x
    BY <1>1, <2>1, <2>2
  <2>4. QED
    BY <1>2, <2>2, <2>3 DEF Elements
<1>6. QED
  BY <1>1, <1>3, <1>4, <1>5

(* The order of a pipe when a message leaves it or comes in.               *)
LEMMA LeavesAscending ==
  ASSUME NEW S, NEW p \in Seq(S), p # <<>>, NEW r, NEW lo \in Nat, NEW hi \in Nat,
         \A m \in S : HasToken(m, r) => m.of[r].number \in Nat,
         Ascending(p, r, lo, hi)
  PROVE  /\ Ascending(Tail(p), r, lo, hi)
         /\ HasToken(Head(p), r) =>
              /\ lo < Head(p).of[r].number
              /\ Head(p).of[r].number <= hi
              /\ Ascending(Tail(p), r, Head(p).of[r].number, hi)
<1> DEFINE q == Tail(p)
<1>1. /\ Head(p) = p[1] /\ Head(p) \in S /\ q \in Seq(S) /\ Len(p) \in Nat \ {0}
      /\ Len(q) = Len(p) - 1 /\ \A i \in 1..Len(q) : q[i] = p[i + 1]
  BY TailAt
<1>2. \A i \in 1..Len(q) : i + 1 \in 1..Len(p) /\ 1 \in 1..Len(p) /\ 1 < i + 1
  BY <1>1
<1>3. Ascending(q, r, lo, hi)
  BY <1>1, <1>2 DEF Ascending
<1>4. ASSUME HasToken(Head(p), r)
      PROVE  /\ lo < Head(p).of[r].number /\ Head(p).of[r].number <= hi
             /\ Ascending(q, r, Head(p).of[r].number, hi)
  <2>1. lo < p[1].of[r].number /\ p[1].of[r].number <= hi
    BY <1>1, <1>4 DEF Ascending
  <2>2. \A i \in 1..Len(q) : HasToken(q[i], r) => p[1].of[r].number < q[i].of[r].number
    BY <1>1, <1>2, <1>4 DEF Ascending
  <2>3. QED
    BY <1>1, <1>3, <2>1, <2>2 DEF Ascending
<1>5. QED
  BY <1>3, <1>4

LEMMA JoinsAscending ==
  ASSUME NEW S, NEW p \in Seq(S), NEW e \in S, NEW r, NEW lo \in Nat, NEW hi \in Nat,
         \A m \in S : HasToken(m, r) => m.of[r].number \in Nat,
         Ascending(p, r, lo, hi)
  PROVE  /\ ~HasToken(e, r) => Ascending(Append(p, e), r, lo, hi)
         /\ HasToken(e, r) /\ e.of[r].number = hi + 1 => Ascending(Append(p, e), r, lo, hi + 1)
<1> DEFINE q == Append(p, e)
           n == Len(p)
<1>1. /\ q \in Seq(S) /\ n \in Nat /\ Len(q) = n + 1
      /\ \A i \in 1..n : q[i] = p[i]
      /\ q[n + 1] = e
  BY AppendAt
<1>2. \A i \in 1..Len(q) : i \in 1..n \/ i = n + 1
  BY <1>1
<1>3. \A i \in 1..n : p[i] \in S
  BY <1>1
<1>4. ASSUME ~HasToken(e, r) PROVE Ascending(q, r, lo, hi)
  BY <1>1, <1>2, <1>4 DEF Ascending
<1>5. ASSUME HasToken(e, r), e.of[r].number = hi + 1 PROVE Ascending(q, r, lo, hi + 1)
  <2>1. lo <= hi + 1
    BY DEF Ascending
  <2>2. ASSUME NEW i \in 1..Len(q), HasToken(q[i], r)
        PROVE  lo < q[i].of[r].number /\ q[i].of[r].number <= hi + 1
    <3>1. CASE i \in 1..n
      BY <1>1, <1>3, <2>2, <3>1 DEF Ascending
    <3>2. CASE i = n + 1
      BY <1>1, <1>5, <3>2 DEF Ascending
    <3>3. QED
      BY <1>2, <3>1, <3>2
  <2>3. ASSUME NEW i \in 1..Len(q), NEW j \in 1..Len(q), i < j, HasToken(q[i], r), HasToken(q[j], r)
        PROVE  q[i].of[r].number < q[j].of[r].number
    <3>1. i \in 1..n
      BY <1>1, <2>3
    <3>2. q[i] = p[i] /\ p[i].of[r].number \in Nat /\ p[i].of[r].number <= hi
      BY <1>1, <1>3, <2>3, <3>1 DEF Ascending
    <3>3. CASE j \in 1..n
      BY <1>1, <2>3, <3>1, <3>3 DEF Ascending
    <3>4. CASE j = n + 1
      BY <1>1, <1>5, <3>2, <3>4
    <3>5. QED
      BY <1>2, <3>3, <3>4
  <2>4. QED
    BY <2>1, <2>2, <2>3 DEF Ascending
<1>6. QED
  BY <1>4, <1>5

LEMMA LeavesTexts ==
  ASSUME NEW S, NEW p \in Seq(S), p # <<>>, NEW r, NEW A, NEW k, TextsAfter(p, r, A, k)
  PROVE  /\ TextsAfter(Tail(p), r, A, k)
         /\ ~HasText(Head(p), r) => Sent(p, r) = Sent(Tail(p), r)
         /\ HasText(Head(p), r) =>
              /\ Head(p).of[r].text \in PiecesTo(k)
              /\ Before(A, Elements(Head(p).of[r].text))
              /\ TextsAfter(Tail(p), r, A \cup Elements(Head(p).of[r].text), k)
              /\ Sent(p, r) = Elements(Head(p).of[r].text) \cup Sent(Tail(p), r)
<1> DEFINE q == Tail(p)
<1>1. /\ Head(p) = p[1] /\ Head(p) \in S /\ q \in Seq(S) /\ Len(p) \in Nat \ {0}
      /\ Len(q) = Len(p) - 1 /\ \A i \in 1..Len(q) : q[i] = p[i + 1]
  BY TailAt
<1>2. /\ \A i \in 1..Len(q) : i + 1 \in 1..Len(p) /\ 1 \in 1..Len(p) /\ 1 < i + 1
      /\ \A i \in 1..Len(p) : i = 1 \/ (i - 1 \in 1..Len(q) /\ (i - 1) + 1 = i)
      /\ 1 \in 1..Len(p)
  BY <1>1
<1>3. TextsAfter(q, r, A, k)
  BY <1>1, <1>2 DEF TextsAfter
<1>4. DOMAIN p = 1..Len(p) /\ DOMAIN q = 1..Len(q)
  BY <1>1, LenProperties
<1>5. Sent(q, r) \subseteq Sent(p, r)
  BY <1>1, <1>2, <1>4 DEF Sent
<1>6. ASSUME NEW x \in Sent(p, r)
      PROVE  x \in Sent(q, r) \/ (HasText(p[1], r) /\ x \in Elements(p[1].of[r].text))
  <2>1. PICK i \in 1..Len(p) : HasText(p[i], r) /\ x \in Elements(p[i].of[r].text)
    BY <1>4 DEF Sent
  <2>2. CASE i # 1
    <3>1. i - 1 \in 1..Len(q) /\ q[i - 1] = p[i]
      BY <1>1, <1>2, <2>2
    <3>2. QED
      BY <1>4, <2>1, <3>1 DEF Sent
  <2>3. QED
    BY <2>1, <2>2
<1>7. HasText(p[1], r) => Elements(p[1].of[r].text) \subseteq Sent(p, r)
  BY <1>2, <1>4 DEF Sent
<1>8. ASSUME HasText(Head(p), r)
      PROVE  /\ Head(p).of[r].text \in PiecesTo(k)
             /\ Before(A, Elements(Head(p).of[r].text))
             /\ TextsAfter(q, r, A \cup Elements(Head(p).of[r].text), k)
  <2>1. /\ p[1].of[r].text \in PiecesTo(k)
        /\ Before(A, Elements(p[1].of[r].text))
    BY <1>1, <1>2, <1>8 DEF TextsAfter
  <2>2. ASSUME NEW i \in 1..Len(q), HasText(q[i], r)
        PROVE  Before(A \cup Elements(p[1].of[r].text), Elements(q[i].of[r].text))
    <3>1. Before(Elements(p[1].of[r].text), Elements(q[i].of[r].text))
      BY <1>1, <1>2, <1>8, <2>2 DEF TextsAfter
    <3>2. Before(A, Elements(q[i].of[r].text))
      BY <1>3, <2>2 DEF TextsAfter
    <3>3. QED
      BY <3>1, <3>2 DEF Before
  <2>3. QED
    BY <1>1, <1>3, <2>1, <2>2 DEF TextsAfter
<1>9. QED
  BY <1>1, <1>3, <1>5, <1>6, <1>7, <1>8

LEMMA JoinsTexts ==
  ASSUME NEW S, NEW p \in Seq(S), NEW e \in S, NEW r, NEW A, NEW k \in Nat, NEW l \in Nat, k <= l,
         TextsAfter(p, r, A, k), A \subseteq 1..k,
         HasText(e, r) => e.of[r].text \in PiecesTo(l) /\ Before(1..k, Elements(e.of[r].text))
  PROVE  /\ TextsAfter(Append(p, e), r, A, l)
         /\ ~HasText(e, r) => Sent(Append(p, e), r) = Sent(p, r)
         /\ HasText(e, r) => Sent(Append(p, e), r) = Sent(p, r) \cup Elements(e.of[r].text)
<1> DEFINE q == Append(p, e)
           n == Len(p)
<1>1. /\ q \in Seq(S) /\ n \in Nat /\ Len(q) = n + 1
      /\ \A i \in 1..n : q[i] = p[i]
      /\ q[n + 1] = e
  BY AppendAt
<1>2. /\ \A i \in 1..Len(q) : i \in 1..n \/ i = n + 1
      /\ 1..n \subseteq 1..Len(q) /\ n + 1 \in 1..Len(q)
  BY <1>1
<1>3. DOMAIN p = 1..n /\ DOMAIN q = 1..Len(q)
  BY <1>1, LenProperties
<1>4. ASSUME NEW i \in 1..n, HasText(p[i], r)
      PROVE  /\ p[i].of[r].text \in PiecesTo(l) /\ Elements(p[i].of[r].text) \subseteq 1..k
             /\ Before(A, Elements(p[i].of[r].text))
  BY <1>4, PiecesGrow, PieceElements DEF TextsAfter
<1>5. HasText(e, r) => Before(A, Elements(e.of[r].text))
  BY DEF Before
<1>6. ASSUME NEW i \in 1..Len(q), HasText(q[i], r)
      PROVE  q[i].of[r].text \in PiecesTo(l) /\ Before(A, Elements(q[i].of[r].text))
  BY <1>1, <1>2, <1>4, <1>5, <1>6
<1>7. ASSUME NEW i \in 1..Len(q), NEW j \in 1..Len(q), i < j, HasText(q[i], r), HasText(q[j], r)
      PROVE  Before(Elements(q[i].of[r].text), Elements(q[j].of[r].text))
  <2>1. i \in 1..n /\ q[i] = p[i]
    BY <1>1, <1>7
  <2>2. CASE j \in 1..n
    BY <1>1, <1>7, <2>1, <2>2 DEF TextsAfter
  <2>3. CASE j = n + 1
    BY <1>1, <1>4, <1>7, <2>1, <2>3 DEF Before
  <2>4. QED
    BY <1>2, <2>2, <2>3
<1>8. TextsAfter(q, r, A, l)
  BY <1>6, <1>7 DEF TextsAfter
<1>9. Sent(p, r) \subseteq Sent(q, r)
  BY <1>1, <1>2, <1>3 DEF Sent
<1>10. HasText(e, r) => Elements(e.of[r].text) \subseteq Sent(q, r)
  BY <1>1, <1>2, <1>3 DEF Sent
<1>11. ASSUME NEW x \in Sent(q, r)
       PROVE  x \in Sent(p, r) \/ (HasText(e, r) /\ x \in Elements(e.of[r].text))
  <2>1. PICK i \in 1..Len(q) : HasText(q[i], r) /\ x \in Elements(q[i].of[r].text)
    BY <1>3 DEF Sent
  <2>2. CASE i \in 1..n
    BY <1>1, <1>3, <2>1, <2>2 DEF Sent
  <2>3. CASE i = n + 1
    BY <1>1, <2>1, <2>3
  <2>4. QED
    BY <1>2, <2>2, <2>3
<1>12. QED
  BY <1>8, <1>9, <1>10, <1>11

LEMMA TextsAfterFewer ==
  ASSUME NEW p, NEW r, NEW A, NEW B, NEW k, TextsAfter(p, r, A, k), B \subseteq A
  PROVE  TextsAfter(p, r, B, k)
BY DEF TextsAfter, Before

-----------------------------------------------------------------------------
(* Messages.                                                               *)
LEMMA DetokMessages ==
  ASSUME NEW m \in ToDetok
  PROVE  /\ m.type \in {"request", "abort", "refuse", "tokens"}
         /\ m.type \in {"request", "abort"} => m \in Calls /\ m.req \in Req
         /\ m.type = "refuse" => m \in Refusals /\ m.reqs \in SUBSET Req
         /\ m.type = "tokens" =>
              /\ DOMAIN m.of \subseteq Req
              /\ \A r \in DOMAIN m.of :
                   /\ m.of[r].number \in Nat
                   /\ m.of[r].finished \in BOOLEAN /\ m.of[r].abort \in BOOLEAN
<1>1. CASE m \in Calls
  BY <1>1 DEF Calls
<1>2. CASE m \in Refusals
  BY <1>2 DEF Refusals
<1>3. CASE m \in TokenMsgs
  <2>1. m.type = "tokens" /\ m.of \in UNION {[S -> Token] : S \in SUBSET Req}
    BY <1>3 DEF TokenMsgs
  <2>2. PICK S \in SUBSET Req : m.of \in [S -> Token]
    BY <2>1
  <2>3. DOMAIN m.of = S /\ \A r \in S : m.of[r] \in Token
    BY <2>2
  <2>4. QED
    BY <2>1, <2>3 DEF Token
<1>4. QED
  BY <1>1, <1>2, <1>3 DEF ToDetok

LEMMA HttpMessages ==
  ASSUME NEW m \in ToHttp
  PROVE  /\ m.type \in {"refuse", "text"}
         /\ m.type = "refuse" => m \in Refusals /\ m.reqs \in SUBSET Req
         /\ m.type = "text" =>
              /\ DOMAIN m.of \subseteq Req
              /\ \A r \in DOMAIN m.of :
                   /\ m.of[r].text \in Seq(Nat)
                   /\ m.of[r].finished \in BOOLEAN /\ m.of[r].abort \in BOOLEAN
<1>1. CASE m \in Refusals
  BY <1>1 DEF Refusals
<1>2. CASE m \in TextMsgs
  <2>1. m.type = "text" /\ m.of \in UNION {[S -> Text] : S \in SUBSET Req}
    BY <1>2 DEF TextMsgs
  <2>2. PICK S \in SUBSET Req : m.of \in [S -> Text]
    BY <2>1
  <2>3. DOMAIN m.of = S /\ \A r \in S : m.of[r] \in Text
    BY <2>2
  <2>4. QED
    BY <2>1, <2>3 DEF Text
<1>3. QED
  BY <1>1, <1>2 DEF ToHttp

LEMMA NewMessages ==
  ASSUME NEW S \in SUBSET Req
  PROVE  /\ \A f \in [S -> Token] : [type |-> "tokens", of |-> f] \in ToDetok
         /\ \A f \in [S -> Text] : [type |-> "text", of |-> f] \in ToHttp
         /\ [type |-> "refuse", reqs |-> S] \in ToDetok
BY DEF ToDetok, ToHttp, TokenMsgs, TextMsgs, Refusals

LEMMA NewCalls ==
  ASSUME NEW r \in Req
  PROVE  /\ [type |-> "request", req |-> r] \in Calls
         /\ [type |-> "abort", req |-> r] \in Calls
         /\ Calls \subseteq ToDetok
BY DEF Calls, ToDetok

LEMMA Slotted ==
  /\ NoSlot \in Slot
  /\ \A f \in BOOLEAN : EmptySlot(f) \in Slot
  /\ \A t \in Seq(Nat), f \in BOOLEAN :
       [text |-> t, meta |-> TRUE, finished |-> f, there |-> TRUE] \in Slot
BY EmptyPiece DEF NoSlot, EmptySlot, Slot

(* The head of a pipe.                                                     *)
LEMMA Heads ==
  ASSUME TypeInv
  PROVE  /\ toRouter # <<>> => Head(toRouter) \in Calls /\ Tail(toRouter) \in Seq(Calls)
         /\ toDetok # <<>> => Head(toDetok) \in ToDetok /\ Tail(toDetok) \in Seq(ToDetok)
         /\ toHttp # <<>> => Head(toHttp) \in ToHttp /\ Tail(toHttp) \in Seq(ToHttp)
BY TailAt DEF TypeInv

(* What a batch of tokens says to the HTTP server.                         *)
LEMMA Decoded ==
  ASSUME TypeInv, OrderInv, NEW withheld \in SUBSET known, DetokDecodes(withheld)
  PROVE  LET msg == Head(toDetok)
             us == DOMAIN msg.of \cap known
         IN  /\ msg \in ToDetok /\ msg.type = "tokens" /\ us \subseteq Req
             /\ \A r \in us : /\ msg.of[r].number \in Nat
                              /\ shown[r] < msg.of[r].number
                              /\ msg.of[r].number <= generated[r]
                              /\ msg.of[r].finished \in BOOLEAN /\ msg.of[r].abort \in BOOLEAN
<1> DEFINE msg == Head(toDetok)
           us == DOMAIN msg.of \cap known
<1>1. toDetok # <<>> /\ msg.type = "tokens"
  BY DEF DetokDecodes
<1>2. /\ msg \in ToDetok /\ msg = toDetok[1] /\ 1 \in 1..Len(toDetok)
  BY <1>1, TailAt DEF TypeInv
<1>3. /\ DOMAIN msg.of \subseteq Req
      /\ \A r \in DOMAIN msg.of : /\ msg.of[r].number \in Nat
                                  /\ msg.of[r].finished \in BOOLEAN /\ msg.of[r].abort \in BOOLEAN
  BY <1>1, <1>2, DetokMessages
<1>4. ASSUME NEW r \in us
      PROVE  shown[r] < msg.of[r].number /\ msg.of[r].number <= generated[r]
  <2>1. HasToken(toDetok[1], r)
    BY <1>1, <1>2 DEF HasToken
  <2>2. Ascending(toDetok, r, shown[r], generated[r])
    BY <1>3 DEF OrderInv
  <2>3. QED
    BY <1>2, <2>1, <2>2 DEF Ascending
<1>5. QED
  BY <1>1, <1>2, <1>3, <1>4

-----------------------------------------------------------------------------
LEMMA TypeHolds == Init => TypeInv
BY Slotted, EmptyPiece DEF Init, TypeInv

LEMMA TypeStays ==
  ASSUME TypeInv, OrderInv, [Next]_vars
  PROVE  TypeInv'
<1> USE DEF TypeInv, routerVars, detokVars, httpVars
<1>1. ASSUME NEW r \in Req, Submit(r) PROVE TypeInv'
  BY <1>1, AppendAt, NewCalls, Slotted DEF Submit
<1>2. ASSUME NEW r \in Req, ChatFails(r) PROVE TypeInv'
  BY <1>2 DEF ChatFails
<1>3. ASSUME NEW r \in Req, FindsNoSlot(r) PROVE TypeInv'
  BY <1>3 DEF FindsNoSlot, Ended
<1>4. ASSUME NEW r \in Req, FindsAnswer(r) PROVE TypeInv'
  <2>1. slot[r].finished \in BOOLEAN
    BY DEF Slot
  <2>2. QED
    BY <1>4, <2>1, Slotted DEF FindsAnswer, Taken
<1>5. ASSUME NEW r \in Req, Consume(r) PROVE TypeInv'
  <2>1. received[r] \o held[r].text \in Seq(Nat)
    BY JoinedElements DEF Slot
  <2>2. received' \in [Req -> Seq(Nat)]
    BY <1>5, <2>1 DEF Consume
  <2>3. slot' \in [Req -> Slot] /\ held' \in [Req -> Slot]
    BY <1>5, Slotted DEF Consume
  <2>4. QED
    BY <1>5, <2>2, <2>3 DEF Consume, Ended
<1>6. ASSUME NEW r \in Req, Disconnect(r) PROVE TypeInv'
  BY <1>6, AppendAt, NewCalls, Slotted DEF Disconnect, HttpAbort
<1>7. ASSUME NEW r \in Req, BackgroundAbort(r) PROVE TypeInv'
  BY <1>7, AppendAt, NewCalls, Slotted DEF BackgroundAbort, HttpAbort
<1>8. CASE RouterReceives
  <2>1. Head(toRouter) \in Calls /\ Tail(toRouter) \in Seq(Calls) /\ Head(toRouter).req \in Req
    BY <1>8, Heads DEF RouterReceives, Calls
  <2>2. Append(toDetok, Head(toRouter)) \in Seq(ToDetok)
    BY <2>1, AppendAt, NewCalls
  <2>3. QED
    BY <1>8, <2>1, <2>2 DEF RouterReceives
<1>9. ASSUME NEW S \in SUBSET serving, NEW F \in SUBSET S, RouterAnswers(S, F) PROVE TypeInv'
  <2> DEFINE f == [r \in S |-> [number |-> generated[r] + 1, finished |-> r \in F,
                                abort |-> r \in cancelled]]
  <2>1. f \in [S -> Token]
    BY DEF Token
  <2>2. Append(toDetok, [type |-> "tokens", of |-> f]) \in Seq(ToDetok)
    BY <2>1, NewMessages, AppendAt
  <2>3. QED
    BY <1>9, <2>2 DEF RouterAnswers
<1>10. ASSUME NEW r \in serving, RouterDrops(r) PROVE TypeInv'
  BY <1>10 DEF RouterDrops
<1>11. ASSUME NEW S \in SUBSET serving, RouterRefuses(S) PROVE TypeInv'
  BY <1>11, NewMessages, AppendAt DEF RouterRefuses
<1>12. CASE DetokRegisters
  <2>1. Head(toDetok).req \in Req /\ Tail(toDetok) \in Seq(ToDetok)
    BY <1>12, Heads, DetokMessages DEF DetokRegisters
  <2>2. QED
    BY <1>12, <2>1 DEF DetokRegisters
<1>13. CASE DetokForgets
  <2>1. Head(toDetok) \in ToDetok /\ Tail(toDetok) \in Seq(ToDetok)
    BY <1>13, Heads DEF DetokForgets
  <2>2. toHttp' \in Seq(ToHttp)
    <3>1. CASE Head(toDetok).type = "refuse"
      <4>1. Head(toDetok) \in ToHttp
        BY <2>1, <3>1, DetokMessages DEF ToHttp
      <4>2. Append(toHttp, Head(toDetok)) \in Seq(ToHttp)
        BY <4>1, AppendAt
      <4>3. QED
        BY <1>13, <3>1, <4>2 DEF DetokForgets
    <3>2. QED
      BY <1>13, <3>1 DEF DetokForgets
  <2>3. QED
    BY <1>13, <2>1, <2>2 DEF DetokForgets
<1>14. ASSUME NEW withheld \in SUBSET known, DetokDecodes(withheld) PROVE TypeInv'
  <2> DEFINE msg == Head(toDetok)
             us == DOMAIN msg.of \cap known
             f == [r \in us |-> [text     |-> IF r \in withheld THEN <<>>
                                              ELSE NewText(r, msg.of[r].number),
                                 finished |-> msg.of[r].abort \/ msg.of[r].finished,
                                 abort    |-> msg.of[r].abort]]
  <2>1. /\ us \subseteq Req
        /\ \A r \in us : /\ msg.of[r].number \in Nat /\ shown[r] < msg.of[r].number
                         /\ msg.of[r].finished \in BOOLEAN /\ msg.of[r].abort \in BOOLEAN
    BY <1>14, Decoded
  <2>2. f \in [us -> Text]
    <3>1. ASSUME NEW r \in us PROVE NewText(r, msg.of[r].number) \in Seq(Nat)
      BY <2>1, NewPiece, PieceElements
    <3>2. ASSUME NEW r \in us
          PROVE [text     |-> IF r \in withheld THEN <<>> ELSE NewText(r, msg.of[r].number),
                 finished |-> msg.of[r].abort \/ msg.of[r].finished,
                 abort    |-> msg.of[r].abort] \in Text
      BY <2>1, <3>1, EmptyPiece DEF Text
    <3>3. QED
      BY <3>2
  <2>3. toHttp' \in Seq(ToHttp)
    <3>1. [type |-> "text", of |-> f] \in ToHttp
      BY <2>1, <2>2, NewMessages
    <3>2. QED
      BY <1>14, <3>1, AppendAt DEF DetokDecodes
  <2>4. shown' \in [Req -> Nat]
    BY <1>14, <2>1 DEF DetokDecodes, Appended
  <2>5. toDetok' \in Seq(ToDetok)
    BY <1>14, Heads DEF DetokDecodes
  <2>6. QED
    BY <1>14, <2>3, <2>4, <2>5 DEF DetokDecodes
<1>15. CASE HttpReceivesText
  <2> DEFINE msg == Head(toHttp)
             us == {r \in DOMAIN msg.of : Found(r) /\ ~msg.of[r].abort}
  <2>1. msg \in ToHttp /\ msg.type = "text" /\ Tail(toHttp) \in Seq(ToHttp)
    BY <1>15, Heads DEF HttpReceivesText
  <2>2. /\ us \subseteq Req
        /\ \A r \in us : msg.of[r].text \in Seq(Nat) /\ msg.of[r].finished \in BOOLEAN
    BY <2>1, HttpMessages
  <2>3. slot' \in [Req -> Slot]
    BY <1>15, <2>2, Slotted DEF HttpReceivesText
  <2>4. lost' \in [Req -> SUBSET Nat]
    <3>1. \A r \in Req : Elements(slot[r].text) \subseteq Nat
      BY DEF Slot, Elements
    <3>2. QED
      BY <1>15, <3>1 DEF HttpReceivesText
  <2>5. QED
    BY <1>15, <2>1, <2>2, <2>3, <2>4 DEF HttpReceivesText
<1>16. CASE HttpReceivesRefusal
  BY <1>16, Heads, Slotted DEF HttpReceivesRefusal
<1>17. CASE UNCHANGED vars
  BY <1>17 DEF vars
<1>18. QED
  BY <1>1, <1>2, <1>3, <1>4, <1>5, <1>6, <1>7, <1>8, <1>9, <1>10, <1>11, <1>12, <1>13,
     <1>14, <1>15, <1>16, <1>17
     DEF Next, Client, Router, Detokenization, HandleLoop, Generator

-----------------------------------------------------------------------------
LEMMA ClientHolds == Init => ClientInv
BY DEF Init, ClientInv, NoSlot

(* The actions of other processes leave a client alone.                    *)
LEMMA ClientStays ==
  ASSUME TypeInv, ClientInv, [Next]_vars
  PROVE  ClientInv'
<1> USE DEF TypeInv, ClientInv, routerVars, detokVars, httpVars, NoSlot, EmptySlot
<1>1. ASSUME NEW r \in Req, Submit(r) PROVE ClientInv'
  BY <1>1 DEF Submit
<1>2. ASSUME NEW r \in Req, ChatFails(r) PROVE ClientInv'
  BY <1>2 DEF ChatFails
<1>3. ASSUME NEW r \in Req, FindsNoSlot(r) PROVE ClientInv'
  BY <1>3 DEF FindsNoSlot, Ended, Awake
<1>4. ASSUME NEW r \in Req, FindsAnswer(r) PROVE ClientInv'
  <2>1. slot[r].there /\ gen[r] = "waiting"
    BY <1>4 DEF FindsAnswer, Awake
  <2>2. QED
    BY <1>4, <2>1 DEF FindsAnswer, Taken
<1>5. ASSUME NEW r \in Req, Consume(r) PROVE ClientInv'
  BY <1>5 DEF Consume, Ended
<1>6. ASSUME NEW r \in Req, Disconnect(r) PROVE ClientInv'
  BY <1>6 DEF Disconnect, HttpAbort
<1>7. ASSUME NEW r \in Req, BackgroundAbort(r) PROVE ClientInv'
  BY <1>7 DEF BackgroundAbort, HttpAbort
<1>8. CASE HttpReceivesText
  <2> DEFINE msg == Head(toHttp)
             us == {r \in DOMAIN msg.of : Found(r) /\ ~msg.of[r].abort}
             ts == {r \in DOMAIN msg.of : msg.of[r].abort}
  <2>1. ASSUME NEW r \in Req
        PROVE  \/ /\ slot[r].there
                  /\ slot'[r] = [text |-> msg.of[r].text, meta |-> TRUE,
                                 finished |-> msg.of[r].finished, there |-> TRUE]
               \/ slot'[r] = NoSlot
               \/ slot'[r] = slot[r]
    <3>1. CASE r \in us
      BY <1>8, <3>1 DEF HttpReceivesText, Found
    <3>2. CASE r \notin us /\ r \in ts
      BY <1>8, <3>2 DEF HttpReceivesText
    <3>3. CASE r \notin us /\ r \notin ts
      BY <1>8, <3>3 DEF HttpReceivesText
    <3>4. QED
      BY <3>1, <3>2, <3>3
  <2>2. ASSUME NEW r \in Req
        PROVE  /\ slot'[r].there => slot[r].there
               /\ ~slot'[r].there => /\ slot'[r].text = <<>> /\ ~slot'[r].finished
                                     /\ ~slot'[r].meta
    <3>1. CASE slot'[r] = [text |-> msg.of[r].text, meta |-> TRUE,
                           finished |-> msg.of[r].finished, there |-> TRUE] /\ slot[r].there
      BY <3>1
    <3>2. CASE slot'[r] = NoSlot
      BY <3>2
    <3>3. CASE slot'[r] = slot[r]
      BY <3>3
    <3>4. QED
      BY <2>1, <3>1, <3>2, <3>3
  <2>3. UNCHANGED <<gen, held, outcome>>
    BY <1>8 DEF HttpReceivesText
  <2>4. QED
    BY <2>2, <2>3
<1>9. CASE HttpReceivesRefusal
  BY <1>9 DEF HttpReceivesRefusal
<1>10. CASE UNCHANGED httpVars
  BY <1>10
<1>11. Router \/ Detokenization \/ UNCHANGED vars => UNCHANGED httpVars
  BY DEF Router, Detokenization, RouterReceives, RouterAnswers, RouterDrops, RouterRefuses,
         DetokRegisters, DetokForgets, DetokDecodes, vars
<1>12. QED
  BY <1>1, <1>2, <1>3, <1>4, <1>5, <1>6, <1>7, <1>8, <1>9, <1>10, <1>11
     DEF Next, Client, HandleLoop, Generator

-----------------------------------------------------------------------------
LEMMA OrderHolds == Init => OrderInv /\ CoverInv
<1> SUFFICES ASSUME Init, NEW r \in Req
             PROVE  /\ Ascending(toDetok, r, shown[r], generated[r])
                    /\ TextsInOrder(r)
                    /\ slot[r].there => FALSE
  BY DEF OrderInv, CoverInv
<1>1. Got(r) = {} /\ Held(r) = {} /\ InSlot(r) = {} /\ lost[r] = {}
  BY EmptyPiece DEF Init, Got, Held, InSlot, NoSlot
<1>2. Len(<<>>) = 0 /\ 1..0 = {}
  OBVIOUS
<1>3. QED
  BY <1>1, <1>2, EmptyPiece
     DEF Init, NoSlot, Ascending, TextsInOrder, TextsAfter, Before

LEMMA NumbersAreNat ==
  /\ \A m \in ToDetok : \A r : HasToken(m, r) => m.of[r].number \in Nat
  /\ Calls \subseteq ToDetok
BY DetokMessages, NewCalls DEF HasToken, ToDetok

LEMMA NumbersAscend ==
  ASSUME TypeInv, OrderInv, [Next]_vars, NEW r \in Req
  PROVE  Ascending(toDetok, r, shown[r], generated[r])'
<1> DEFINE A(p, lo, hi) == Ascending(p, r, lo, hi)
<1> USE DEF routerVars, detokVars, httpVars
<1>1. /\ A(toDetok, shown[r], generated[r])
      /\ shown[r] \in Nat /\ generated[r] \in Nat /\ toDetok \in Seq(ToDetok)
      /\ shown \in [Req -> Nat] /\ generated \in [Req -> Nat]
  BY DEF OrderInv, TypeInv
<1> SUFFICES A(toDetok', shown'[r], generated'[r])
  BY DEF Ascending, HasToken
<1> HIDE DEF A
<1>2. ASSUME NEW m \in ToDetok, ~HasToken(m, r), toDetok' = Append(toDetok, m),
             UNCHANGED <<shown, generated>>
      PROVE  A(toDetok', shown'[r], generated'[r])
  BY <1>1, <1>2, JoinsAscending, NumbersAreNat DEF A
<1>3. ASSUME toDetok # <<>>, toDetok' = Tail(toDetok), UNCHANGED <<shown, generated>>
      PROVE  A(toDetok', shown'[r], generated'[r])
  BY <1>1, <1>3, LeavesAscending, NumbersAreNat DEF A
<1>4. CASE RouterReceives
  <2>1. /\ Head(toRouter) \in ToDetok /\ Head(toRouter).type \in {"request", "abort"}
        /\ toDetok' = Append(toDetok, Head(toRouter)) /\ UNCHANGED <<shown, generated>>
    BY <1>4, Heads, NumbersAreNat DEF RouterReceives
  <2>2. QED
    BY <1>2, <2>1 DEF HasToken
<1>5. ASSUME NEW S \in SUBSET serving, NEW F \in SUBSET S, RouterAnswers(S, F)
      PROVE  A(toDetok', shown'[r], generated'[r])
  <2> DEFINE f == [q \in S |-> [number |-> generated[q] + 1, finished |-> q \in F,
                                abort |-> q \in cancelled]]
             m == [type |-> "tokens", of |-> f]
  <2>1. m \in ToDetok
    <3>1. f \in [S -> Token] /\ S \in SUBSET Req
      BY DEF Token, TypeInv
    <3>2. QED
      BY <3>1, NewMessages
  <2>2. toDetok' = Append(toDetok, m) /\ shown' = shown
    BY <1>5 DEF RouterAnswers
  <2>3. CASE r \in S
    <3>1. HasToken(m, r) /\ m.of[r].number = generated[r] + 1
      BY <2>3 DEF HasToken
    <3>2. generated'[r] = generated[r] + 1
      BY <1>5, <2>3 DEF RouterAnswers
    <3>3. A(Append(toDetok, m), shown[r], generated[r] + 1)
      BY <1>1, <2>1, <3>1, JoinsAscending, NumbersAreNat DEF A
    <3>4. QED
      BY <2>2, <3>2, <3>3
  <2>4. CASE r \notin S
    <3>1. ~HasToken(m, r)
      BY <2>4 DEF HasToken
    <3>2. generated'[r] = generated[r]
      BY <1>5, <2>4 DEF RouterAnswers
    <3>3. A(Append(toDetok, m), shown[r], generated[r])
      BY <1>1, <2>1, <3>1, JoinsAscending, NumbersAreNat DEF A
    <3>4. QED
      BY <2>2, <3>2, <3>3
  <2>5. QED
    BY <2>3, <2>4
<1>6. ASSUME NEW S \in SUBSET serving, RouterRefuses(S)
      PROVE  A(toDetok', shown'[r], generated'[r])
  <2>1. [type |-> "refuse", reqs |-> S] \in ToDetok
    BY NewMessages DEF TypeInv
  <2>2. QED
    BY <1>2, <1>6, <2>1 DEF RouterRefuses, HasToken
<1>7. CASE DetokRegisters \/ DetokForgets
  BY <1>3, <1>7 DEF DetokRegisters, DetokForgets
<1>8. ASSUME NEW withheld \in SUBSET known, DetokDecodes(withheld)
      PROVE  A(toDetok', shown'[r], generated'[r])
  <2> DEFINE msg == Head(toDetok)
             us == DOMAIN msg.of \cap known
  <2>1. /\ toDetok # <<>> /\ msg.type = "tokens" /\ toDetok' = Tail(toDetok)
        /\ UNCHANGED generated
        /\ shown'[r] = IF r \in us \ withheld THEN msg.of[r].number ELSE shown[r]
    BY <1>8 DEF DetokDecodes, Appended
  <2>2. /\ A(Tail(toDetok), shown[r], generated[r])
        /\ HasToken(msg, r) => A(Tail(toDetok), msg.of[r].number, generated[r])
    BY <1>1, <2>1, LeavesAscending, NumbersAreNat DEF A
  <2>3. QED
    BY <2>1, <2>2 DEF HasToken
<1>9. CASE UNCHANGED <<toDetok, shown, generated>>
  BY <1>1, <1>9
<1>10. CASE \/ HandleLoop \/ UNCHANGED vars
            \/ \E q \in Req : \/ Submit(q) \/ ChatFails(q) \/ Disconnect(q)
                              \/ Generator(q) \/ Consume(q) \/ BackgroundAbort(q)
            \/ \E q \in serving : RouterDrops(q)
  BY <1>9, <1>10
     DEF HandleLoop, HttpReceivesText, HttpReceivesRefusal, vars, Submit, ChatFails, Disconnect,
         HttpAbort, Generator, FindsNoSlot, FindsAnswer, Consume, BackgroundAbort, RouterDrops
<1>11. QED
  BY <1>4, <1>5, <1>6, <1>7, <1>8, <1>10 DEF Next, Client, Router, Detokenization

(* What is known of the texts of r.                                        *)
LEMMA TextFacts ==
  ASSUME TypeInv, OrderInv, NEW r \in Req
  PROVE  /\ shown[r] \in Nat /\ shown \in [Req -> Nat] /\ toHttp \in Seq(ToHttp)
         /\ held[r].text \in Seq(Nat) /\ slot[r].text \in Seq(Nat) /\ received[r] \in Seq(Nat)
         /\ Arrived(r) \subseteq 1..shown[r]
         /\ Held(r) \subseteq Nat /\ InSlot(r) \subseteq Nat /\ lost[r] \subseteq Nat
         /\ Got(r) \subseteq Nat
         /\ TextsInOrder(r)
<1>1. /\ shown[r] \in Nat /\ shown \in [Req -> Nat] /\ toHttp \in Seq(ToHttp)
      /\ received[r] \in Seq(Nat) /\ TextsInOrder(r)
      /\ 1..shown[r] \subseteq Nat
  BY DEF TypeInv, OrderInv
<1>2. /\ held[r].text \in PiecesTo(shown[r]) /\ slot[r].text \in PiecesTo(shown[r])
      /\ Got(r) \subseteq 1..shown[r] /\ lost[r] \subseteq 1..shown[r]
  BY <1>1 DEF TextsInOrder
<1>3. /\ held[r].text \in Seq(Nat) /\ Held(r) \subseteq 1..shown[r]
      /\ slot[r].text \in Seq(Nat) /\ InSlot(r) \subseteq 1..shown[r]
  BY <1>1, <1>2, PieceElements DEF Held, InSlot
<1>4. QED
  BY <1>1, <1>2, <1>3 DEF Arrived

(* A client that has fewer texts before it.                                *)
LEMMA TextsFrame ==
  ASSUME OrderInv, NEW r \in Req,
         UNCHANGED <<toHttp, shown, lost>>,
         received'[r] = received[r], held'[r] = held[r], slot'[r] = slot[r]
  PROVE  TextsInOrder(r)'
BY DEF OrderInv, TextsInOrder, TextsAfter, Arrived, Got, Held, InSlot, HasText

LEMMA TextsOfClients ==
  ASSUME TypeInv, ClientInv, OrderInv, NEW r \in Req, NEW q \in Req,
         \/ Submit(q) \/ ChatFails(q) \/ Disconnect(q)
         \/ Generator(q) \/ Consume(q) \/ BackgroundAbort(q)
  PROVE  TextsInOrder(r)'
<1> DEFINE T == TextsInOrder(r)'
<1> USE DEF routerVars, detokVars, httpVars
<1>1. CASE q # r
  <2>1. /\ received'[r] = received[r] /\ held'[r] = held[r] /\ slot'[r] = slot[r]
        /\ UNCHANGED <<toHttp, shown, lost>>
    BY <1>1
       DEF TypeInv, Submit, ChatFails, Disconnect, HttpAbort, Generator, FindsNoSlot, FindsAnswer,
           Consume, BackgroundAbort
  <2>2. QED
    BY <2>1, TextsFrame
<1>2. UNCHANGED <<toHttp, shown, lost>>
  BY DEF Submit, ChatFails, Disconnect, HttpAbort, Generator, FindsNoSlot, FindsAnswer,
         Consume, BackgroundAbort
<1>3. /\ TextsInOrder(r) /\ shown[r] \in Nat
      /\ Held(r) \subseteq Nat /\ InSlot(r) \subseteq Nat /\ lost[r] \subseteq Nat
      /\ Got(r) \subseteq Nat
      /\ slot \in [Req -> Slot] /\ held \in [Req -> Slot] /\ received \in [Req -> Seq(Nat)]
  BY TextFacts DEF TypeInv
<1>4. NoSlot.text = <<>> /\ \A f : EmptySlot(f).text = <<>>
  BY DEF NoSlot, EmptySlot
(* Both places keep what they have or are emptied.                         *)
<1>5. ASSUME UNCHANGED received,
             held'[r].text \in {held[r].text, <<>>}, slot'[r].text \in {slot[r].text, <<>>}
      PROVE  T
  <2>1. Held(r)' \in {Held(r), {}} /\ InSlot(r)' \in {InSlot(r), {}} /\ Got(r)' = Got(r)
    BY <1>5, EmptyPiece DEF Held, InSlot, Got
  <2>2. Arrived(r)' \subseteq Arrived(r)
    BY <1>2, <2>1 DEF Arrived
  <2>3. TextsAfter(toHttp, r, Arrived(r)', shown[r])
    BY <1>3, <2>2, TextsAfterFewer DEF TextsInOrder
  <2>4. TextsAfter(toHttp, r, Arrived(r), shown[r])'
    BY <1>2, <2>3 DEF TextsAfter, HasText
  <2>5. /\ held'[r].text \in PiecesTo(shown[r]) /\ slot'[r].text \in PiecesTo(shown[r])
    BY <1>3, <1>5, EmptyPiece DEF TextsInOrder
  <2>6. /\ Before(Got(r)', Held(r)')
        /\ Before(Got(r)' \cup Held(r)' \cup lost[r], InSlot(r)')
        /\ lost[r] \cap (Got(r)' \cup Held(r)') = {}
    BY <1>3, <2>1 DEF TextsInOrder, Before
  <2>7. QED
    BY <1>2, <1>3, <2>1, <2>4, <2>5, <2>6 DEF TextsInOrder, PiecesTo, Before
<1>6. CASE Submit(r)
  BY <1>3, <1>4, <1>5, <1>6 DEF Submit
<1>7. CASE ChatFails(r)
  BY <1>5, <1>7 DEF ChatFails
<1>8. CASE FindsNoSlot(r)
  BY <1>5, <1>8 DEF FindsNoSlot
<1>9. CASE FindsAnswer(r)
  <2>1. /\ held'[r] = slot[r] /\ slot'[r].text = <<>> /\ UNCHANGED received
        /\ held[r].text = <<>>
    BY <1>3, <1>4, <1>9 DEF FindsAnswer, Taken, Awake, ClientInv
  <2>2. Held(r) = {} /\ Held(r)' = InSlot(r) /\ InSlot(r)' = {} /\ Got(r)' = Got(r)
    BY <2>1, EmptyPiece DEF Held, InSlot, Got
  <2>3. Arrived(r)' = Arrived(r)
    BY <1>2, <2>2 DEF Arrived
  <2>4. TextsAfter(toHttp, r, Arrived(r), shown[r])'
    BY <1>2, <1>3, <2>3 DEF TextsAfter, HasText, TextsInOrder
  <2>5. held'[r].text \in PiecesTo(shown[r]) /\ slot'[r].text \in PiecesTo(shown[r])
    BY <1>3, <2>1, EmptyPiece DEF TextsInOrder
  <2>6. /\ Before(Got(r)', Held(r)')
        /\ Before(Got(r)' \cup Held(r)' \cup lost[r], InSlot(r)')
    BY <1>3, <2>2 DEF TextsInOrder, Before
  <2>7. lost[r] \cap (Got(r)' \cup Held(r)') = {}
    <3>1. Before(lost[r], InSlot(r)) /\ lost[r] \cap Got(r) = {}
      BY <1>3 DEF TextsInOrder, Before
    <3>2. lost[r] \cap InSlot(r) = {}
      BY <1>3, <3>1 DEF Before
    <3>3. QED
      BY <2>2, <3>1, <3>2
  <2>8. QED
    BY <1>2, <1>3, <2>2, <2>4, <2>5, <2>6, <2>7 DEF TextsInOrder, PiecesTo, Before
<1>10. CASE Consume(r)
  <2>1. /\ received'[r] = received[r] \o held[r].text
        /\ held'[r].text = <<>> /\ slot'[r].text \in {slot[r].text, <<>>}
    BY <1>3, <1>4, <1>10 DEF Consume
  <2>2. Got(r)' = Got(r) \cup Held(r) /\ Held(r)' = {} /\ InSlot(r)' \in {InSlot(r), {}}
    BY <2>1, TextFacts, JoinedElements, EmptyPiece DEF Held, InSlot, Got
  <2>3. Arrived(r)' \subseteq Arrived(r)
    BY <1>2, <2>2 DEF Arrived
  <2>4. TextsAfter(toHttp, r, Arrived(r)', shown[r])
    BY <1>3, <2>3, TextsAfterFewer DEF TextsInOrder
  <2>5. TextsAfter(toHttp, r, Arrived(r), shown[r])'
    BY <1>2, <2>4 DEF TextsAfter, HasText
  <2>6. held'[r].text \in PiecesTo(shown[r]) /\ slot'[r].text \in PiecesTo(shown[r])
    BY <1>3, <2>1, EmptyPiece DEF TextsInOrder
  <2>7. /\ Before(Got(r)', Held(r)')
        /\ Before(Got(r)' \cup Held(r)' \cup lost[r], InSlot(r)')
        /\ lost[r] \cap (Got(r)' \cup Held(r)') = {}
    BY <1>3, <2>2 DEF TextsInOrder, Before
  <2>8. Got(r)' \subseteq 1..shown[r]
    BY <2>2, TextFacts DEF Arrived
  <2>9. lost'[r] = lost[r] /\ shown'[r] = shown[r] /\ lost[r] \subseteq 1..shown[r]
    BY <1>2, <1>3 DEF TextsInOrder
  <2>10. QED
    BY <2>5, <2>6, <2>7, <2>8, <2>9 DEF TextsInOrder, PiecesTo, Before
<1>11. CASE Disconnect(r)
  BY <1>3, <1>4, <1>5, <1>11 DEF Disconnect, HttpAbort
<1>12. CASE BackgroundAbort(r)
  BY <1>3, <1>4, <1>5, <1>12 DEF BackgroundAbort, HttpAbort
<1>13. QED
  BY <1>1, <1>6, <1>7, <1>8, <1>9, <1>10, <1>11, <1>12 DEF Generator

(* A message that comes into the pipe to the HTTP server.                  *)
LEMMA TextsJoin ==
  ASSUME TypeInv, OrderInv, NEW r \in Req, NEW e \in ToHttp,
         toHttp' = Append(toHttp, e),
         shown'[r] \in Nat, shown[r] <= shown'[r],
         HasText(e, r) => /\ e.of[r].text \in PiecesTo(shown'[r])
                          /\ Before(1..shown[r], Elements(e.of[r].text)),
         UNCHANGED <<received, held, slot, lost>>
  PROVE  /\ TextsInOrder(r)'
         /\ Sent(toHttp', r) =
              Sent(toHttp, r) \cup (IF HasText(e, r) THEN Elements(e.of[r].text) ELSE {})
         /\ Arrived(r)' = Arrived(r)
<1>1. /\ TextsInOrder(r) /\ shown[r] \in Nat /\ toHttp \in Seq(ToHttp)
      /\ Arrived(r) \subseteq 1..shown[r]
  BY TextFacts
<1>2. Got(r)' = Got(r) /\ Held(r)' = Held(r) /\ InSlot(r)' = InSlot(r) /\ Arrived(r)' = Arrived(r)
  BY DEF Got, Held, InSlot, Arrived
<1>3. TextsAfter(toHttp, r, Arrived(r), shown[r])
  BY <1>1 DEF TextsInOrder
<1>4. /\ TextsAfter(Append(toHttp, e), r, Arrived(r), shown'[r])
      /\ ~HasText(e, r) => Sent(Append(toHttp, e), r) = Sent(toHttp, r)
      /\ HasText(e, r) =>
           Sent(Append(toHttp, e), r) = Sent(toHttp, r) \cup Elements(e.of[r].text)
  BY <1>1, <1>3, JoinsTexts
<1>5. TextsAfter(toHttp, r, Arrived(r), shown[r])'
  BY <1>2, <1>4 DEF TextsAfter, HasText
<1>6. PiecesTo(shown[r]) \subseteq PiecesTo(shown'[r]) /\ 1..shown[r] \subseteq 1..shown'[r]
  BY <1>1, PiecesGrow
<1>7. /\ held[r].text \in PiecesTo(shown'[r]) /\ slot[r].text \in PiecesTo(shown'[r])
      /\ Got(r) \subseteq 1..shown'[r] /\ lost[r] \subseteq 1..shown'[r]
  BY <1>1, <1>6 DEF TextsInOrder
<1>8. /\ held'[r].text \in PiecesTo(shown[r])' /\ slot'[r].text \in PiecesTo(shown[r])'
  BY <1>7 DEF PiecesTo
<1>9. TextsInOrder(r)'
  BY <1>1, <1>2, <1>5, <1>7, <1>8 DEF TextsInOrder, Before
<1>10. QED
  BY <1>2, <1>4, <1>9

LEMMA TextsOfDetok ==
  ASSUME TypeInv, OrderInv, CoverInv, NEW r \in Req,
         DetokForgets \/ \E withheld \in SUBSET known : DetokDecodes(withheld)
  PROVE  /\ TextsInOrder(r)'
         /\ slot'[r].there => 1..shown'[r] \subseteq Arrived(r)' \cup Sent(toHttp', r)
<1> USE DEF routerVars, detokVars, httpVars
<1>1. /\ shown[r] \in Nat /\ shown \in [Req -> Nat] /\ TextsInOrder(r)
      /\ slot[r].there => 1..shown[r] \subseteq Arrived(r) \cup Sent(toHttp, r)
  BY TextFacts DEF CoverInv
<1>2. CASE DetokForgets
  <2>1. UNCHANGED <<shown, received, held, slot, lost>> /\ toDetok # <<>>
    BY <1>2 DEF DetokForgets
  <2>2. CASE UNCHANGED toHttp
    <3>1. TextsInOrder(r)'
      BY <2>1, <2>2, TextsFrame
    <3>2. Arrived(r)' = Arrived(r) /\ Sent(toHttp', r) = Sent(toHttp, r)
      BY <2>1, <2>2 DEF Arrived, Got, Held, InSlot
    <3>3. QED
      BY <1>1, <2>1, <3>1, <3>2
  <2>3. CASE Head(toDetok).type = "refuse" /\ toHttp' = Append(toHttp, Head(toDetok))
    <3>1. Head(toDetok) \in ToHttp
      BY <2>1, <2>3, Heads, DetokMessages DEF ToHttp
    <3>2. ~HasText(Head(toDetok), r)
      BY <2>3 DEF HasText
    <3>3. QED
      BY <1>1, <2>1, <2>3, <3>1, <3>2, TextsJoin
  <2>4. QED
    BY <1>2, <2>2, <2>3 DEF DetokForgets
<1>3. ASSUME NEW withheld \in SUBSET known, DetokDecodes(withheld)
      PROVE  /\ TextsInOrder(r)'
             /\ slot'[r].there => 1..shown'[r] \subseteq Arrived(r)' \cup Sent(toHttp', r)
  <2> DEFINE msg == Head(toDetok)
             us == DOMAIN msg.of \cap known
             f == [q \in us |-> [text     |-> IF q \in withheld THEN <<>>
                                              ELSE NewText(q, msg.of[q].number),
                                 finished |-> msg.of[q].abort \/ msg.of[q].finished,
                                 abort    |-> msg.of[q].abort]]
             e == [type |-> "text", of |-> f]
  <2>1. /\ us \subseteq Req
        /\ \A q \in us : msg.of[q].number \in Nat /\ shown[q] < msg.of[q].number
    BY <1>3, Decoded
  <2>2. /\ UNCHANGED <<received, held, slot, lost>>
        /\ toHttp' = Append(toHttp, e)
        /\ shown'[r] = IF r \in us \ withheld THEN msg.of[r].number ELSE shown[r]
    BY <1>3 DEF DetokDecodes, Appended
  <2>3. toHttp' \in Seq(ToHttp)
    BY <1>3, TypeStays DEF Next, Detokenization, TypeInv
  <2>4. e \in ToHttp
    <3>1. toHttp \in Seq(ToHttp) /\ Len(toHttp) \in Nat
      BY DEF TypeInv
    <3> HIDE DEF e
    <3>2. /\ Len(Append(toHttp, e)) = Len(toHttp) + 1
          /\ Append(toHttp, e)[Len(toHttp) + 1] = e
      BY <3>1
    <3>3. Len(toHttp) + 1 \in 1..Len(toHttp')
      BY <2>2, <3>1, <3>2
    <3>4. QED
      BY <2>2, <2>3, <3>2, <3>3
  <2>5. HasText(e, r) <=> r \in us
    BY DEF HasText
  <2>6. shown'[r] \in Nat /\ shown[r] <= shown'[r]
    BY <1>1, <2>1, <2>2
  <2>7. CASE r \in us \ withheld
    <3>1. e.of[r].text = NewText(r, msg.of[r].number)
      BY <2>7
    <3>2. /\ e.of[r].text \in PiecesTo(shown'[r])
          /\ Elements(e.of[r].text) = (shown[r] + 1)..shown'[r]
      BY <1>1, <2>1, <2>2, <2>7, <3>1, NewPiece
    <3>3. Before(1..shown[r], Elements(e.of[r].text))
      <4> HIDE DEF e
      <4>1. ASSUME NEW x \in 1..shown[r], NEW y \in (shown[r] + 1)..shown'[r] PROVE x < y
        <5>1. shown[r] \in Nat
          BY <1>1
        <5>2. QED
          BY <2>6, <5>1
      <4>2. QED
        BY <3>2, <4>1 DEF Before
    <3>4. 1..shown'[r] = 1..shown[r] \cup (shown[r] + 1)..shown'[r]
      BY <1>1, <2>6
    <3>5. /\ TextsInOrder(r)' /\ Arrived(r)' = Arrived(r)
          /\ Sent(toHttp', r) = Sent(toHttp, r) \cup Elements(e.of[r].text)
      BY <2>2, <2>4, <2>5, <2>6, <2>7, <3>2, <3>3, TextsJoin
    <3>6. QED
      BY <1>1, <2>2, <3>2, <3>4, <3>5
  <2>8. CASE r \notin us \ withheld
    <3>1. shown'[r] = shown[r]
      BY <2>2, <2>8
    <3>2. HasText(e, r) => e.of[r].text = <<>>
      BY <2>5, <2>8
    <3>3. HasText(e, r) => /\ e.of[r].text \in PiecesTo(shown'[r])
                           /\ Before(1..shown[r], Elements(e.of[r].text))
      BY <1>1, <3>1, <3>2, EmptyPiece DEF Before
    <3>4. /\ TextsInOrder(r)' /\ Arrived(r)' = Arrived(r)
          /\ Sent(toHttp, r) \subseteq Sent(toHttp', r)
      BY <2>2, <2>4, <2>6, <3>3, TextsJoin
    <3>5. QED
      BY <1>1, <2>2, <3>1, <3>4
  <2>9. QED
    BY <2>7, <2>8
<1>4. QED
  BY <1>2, <1>3

LEMMA TextsOfHttp ==
  ASSUME TypeInv, OrderInv, CoverInv, NEW r \in Req, HandleLoop
  PROVE  /\ TextsInOrder(r)'
         /\ slot'[r].there => 1..shown'[r] \subseteq Arrived(r)' \cup Sent(toHttp', r)
<1> USE DEF routerVars, detokVars, httpVars
<1> DEFINE msg == Head(toHttp)
           us == {q \in DOMAIN msg.of : Found(q) /\ ~msg.of[q].abort}
           ts == {q \in DOMAIN msg.of : msg.of[q].abort}
<1>1. /\ shown[r] \in Nat /\ TextsInOrder(r) /\ toHttp \in Seq(ToHttp)
      /\ slot[r].there => 1..shown[r] \subseteq Arrived(r) \cup Sent(toHttp, r)
      /\ Held(r) \subseteq Nat /\ InSlot(r) \subseteq Nat /\ lost[r] \subseteq Nat
      /\ Got(r) \subseteq Nat /\ Arrived(r) \subseteq 1..shown[r]
  BY TextFacts DEF CoverInv
<1>2. /\ toHttp # <<>> /\ toHttp' = Tail(toHttp) /\ UNCHANGED <<shown, held, received>>
  BY DEF HandleLoop, HttpReceivesText, HttpReceivesRefusal
<1>3. Got(r)' = Got(r) /\ Held(r)' = Held(r)
  BY <1>2 DEF Got, Held
<1>4. TextsAfter(toHttp, r, Arrived(r), shown[r])
  BY <1>1 DEF TextsInOrder
<1>5. /\ TextsAfter(Tail(toHttp), r, Arrived(r), shown[r])
      /\ ~HasText(msg, r) => Sent(toHttp, r) = Sent(Tail(toHttp), r)
      /\ HasText(msg, r) =>
           /\ msg.of[r].text \in PiecesTo(shown[r])
           /\ Before(Arrived(r), Elements(msg.of[r].text))
           /\ TextsAfter(Tail(toHttp), r, Arrived(r) \cup Elements(msg.of[r].text), shown[r])
           /\ Sent(toHttp, r) = Elements(msg.of[r].text) \cup Sent(Tail(toHttp), r)
  BY <1>1, <1>2, <1>4, LeavesTexts
<1> HIDE DEF msg, us, ts
<1>6. \A A : TextsAfter(Tail(toHttp), r, A, shown[r]) /\ Arrived(r)' = A
               => TextsAfter(toHttp, r, Arrived(r), shown[r])'
  BY <1>2 DEF TextsAfter, HasText
<1>7. /\ held'[r].text \in PiecesTo(shown[r])'
      /\ slot'[r].text \in PiecesTo(shown[r]) => slot'[r].text \in PiecesTo(shown[r])'
  BY <1>1, <1>2 DEF TextsInOrder, PiecesTo
(* The slot is left alone or removed.                                      *)
<1>8. ASSUME UNCHANGED lost[r], slot'[r] \in {slot[r], NoSlot},
             slot'[r] = slot[r] /\ slot[r].there => ~HasText(msg, r)
      PROVE  /\ TextsInOrder(r)'
             /\ slot'[r].there => 1..shown'[r] \subseteq Arrived(r)' \cup Sent(toHttp', r)
  <2>1. /\ slot'[r].text \in {slot[r].text, <<>>}
        /\ slot'[r].there => slot'[r] = slot[r]
    BY <1>8 DEF NoSlot
  <2>2. InSlot(r)' \in {InSlot(r), {}} /\ (slot'[r].there => InSlot(r)' = InSlot(r))
    BY <2>1, EmptyPiece DEF InSlot
  <2>3. /\ Arrived(r)' \subseteq Arrived(r)
        /\ slot'[r].there => Arrived(r)' = Arrived(r)
    BY <1>3, <1>8, <2>2 DEF Arrived
  <2>4. TextsAfter(Tail(toHttp), r, Arrived(r)', shown[r])
    BY <1>5, <2>3, TextsAfterFewer
  <2>5. TextsAfter(toHttp, r, Arrived(r), shown[r])'
    BY <1>6, <2>4
  <2>6. slot'[r].text \in PiecesTo(shown[r])
    BY <1>1, <2>1, EmptyPiece DEF TextsInOrder
  <2>7. TextsInOrder(r)'
    BY <1>1, <1>2, <1>3, <1>7, <1>8, <2>2, <2>5, <2>6 DEF TextsInOrder, Before
  <2>8. QED
    BY <1>1, <1>2, <1>5, <1>8, <2>1, <2>3, <2>7
<1>9. CASE HttpReceivesText
  <2>1. /\ r \in us => slot'[r] = [text |-> msg.of[r].text, meta |-> TRUE,
                                  finished |-> msg.of[r].finished, there |-> TRUE]
        /\ r \notin us /\ r \in ts => slot'[r] = NoSlot
        /\ r \notin us /\ r \notin ts => slot'[r] = slot[r]
    <3>1. CASE r \in us
      BY <1>9, <3>1 DEF HttpReceivesText, msg, us, ts
    <3>2. CASE r \notin us /\ r \in ts
      BY <1>9, <3>2 DEF HttpReceivesText, msg, us, ts
    <3>3. CASE r \notin us /\ r \notin ts
      BY <1>9, <3>3 DEF HttpReceivesText, msg, us, ts
    <3>4. QED
      BY <3>1, <3>2, <3>3
  <2>2. /\ msg.type = "text"
        /\ lost'[r] = IF r \in us THEN lost[r] \cup InSlot(r) ELSE lost[r]
    BY <1>9 DEF HttpReceivesText, msg, us, InSlot
  <2>3. CASE r \in us
    <3>1. /\ slot[r].there /\ HasText(msg, r)
          /\ slot'[r].text = msg.of[r].text
          /\ lost'[r] = lost[r] \cup InSlot(r)
      <4>1. slot[r].there /\ HasText(msg, r)
        BY <2>3, <2>2 DEF us, Found, HasText
      <4>2. slot'[r] = [text |-> msg.of[r].text, meta |-> TRUE,
                        finished |-> msg.of[r].finished, there |-> TRUE]
        BY <2>1, <2>3
      <4>3. lost'[r] = lost[r] \cup InSlot(r)
        BY <2>3, <2>2
      <4>4. QED
        BY <4>1, <4>2, <4>3
    <3>2. InSlot(r)' = Elements(msg.of[r].text)
      BY <3>1 DEF InSlot
    <3>3. Arrived(r)' = Arrived(r) \cup Elements(msg.of[r].text)
      BY <1>3, <3>1, <3>2 DEF Arrived
    <3>4. TextsAfter(toHttp, r, Arrived(r), shown[r])'
      BY <1>5, <1>6, <3>1, <3>3
    <3>5. slot'[r].text \in PiecesTo(shown[r])'
      BY <1>5, <1>7, <3>1
    <3>6. lost'[r] \cap (Got(r) \cup Held(r)) = {}
      <4>1. Before(Got(r) \cup Held(r), InSlot(r)) /\ lost[r] \cap (Got(r) \cup Held(r)) = {}
        BY <1>1 DEF TextsInOrder, Before
      <4>2. InSlot(r) \cap (Got(r) \cup Held(r)) = {}
        BY <1>1, <4>1 DEF Before
      <4>3. QED
        BY <3>1, <4>1, <4>2
    <3>7. /\ Got(r) \subseteq 1..shown[r] /\ lost'[r] \subseteq 1..shown[r]
      BY <1>1, <3>1 DEF Arrived
    <3>8. Before(Got(r)' \cup Held(r)' \cup lost'[r], InSlot(r)')
      BY <1>3, <1>5, <3>1, <3>2 DEF Before, Arrived
    <3>9. TextsInOrder(r)'
      BY <1>1, <1>2, <1>3, <1>7, <3>4, <3>5, <3>6, <3>7, <3>8 DEF TextsInOrder, Before
    <3>10. QED
      BY <1>1, <1>2, <1>5, <3>1, <3>3, <3>9
  <2>4. CASE r \notin us
    <3>1. r \in ts => slot'[r] = NoSlot
      BY <2>1, <2>4
    <3>2. r \notin ts => slot'[r] = slot[r]
      BY <2>1, <2>4
    <3>3. lost'[r] = lost[r]
      BY <2>4, <2>2
    <3>4. slot'[r] = slot[r] /\ slot[r].there => ~HasText(msg, r)
      <4>1. ~NoSlot.there
        BY DEF NoSlot
      <4>2. slot[r].there /\ HasText(msg, r) => r \in ts
        BY <2>4 DEF us, ts, Found, HasText
      <4>3. QED
        BY <3>1, <4>1, <4>2
    <3>5. QED
      BY <1>8, <3>1, <3>2, <3>3, <3>4
  <2>5. QED
    BY <2>3, <2>4
<1>10. CASE HttpReceivesRefusal
  <2>1. /\ UNCHANGED lost /\ slot'[r] \in {slot[r], NoSlot} /\ msg.type = "refuse"
    BY <1>10 DEF HttpReceivesRefusal, TypeInv, msg
  <2>2. QED
    BY <1>8, <2>1 DEF HasText
<1>11. QED
  BY <1>9, <1>10 DEF HandleLoop

LEMMA CoverOfClients ==
  ASSUME TypeInv, ClientInv, OrderInv, CoverInv, LeakInv, NEW r \in Req, NEW q \in Req,
         \/ Submit(q) \/ ChatFails(q) \/ Disconnect(q)
         \/ Generator(q) \/ Consume(q) \/ BackgroundAbort(q)
  PROVE  slot'[r].there => 1..shown'[r] \subseteq Arrived(r)' \cup Sent(toHttp', r)
<1> USE DEF routerVars, detokVars, httpVars
<1>1. UNCHANGED <<toHttp, shown, lost>>
  BY DEF Submit, ChatFails, Disconnect, HttpAbort, Generator, FindsNoSlot, FindsAnswer,
         Consume, BackgroundAbort
<1>2. /\ slot[r].there => 1..shown[r] \subseteq Arrived(r) \cup Sent(toHttp, r)
      /\ slot \in [Req -> Slot] /\ held \in [Req -> Slot] /\ received \in [Req -> Seq(Nat)]
  BY DEF CoverInv, TypeInv
<1>3. ASSUME slot'[r].there => slot[r].there /\ Arrived(r)' = Arrived(r)
      PROVE  slot'[r].there => 1..shown'[r] \subseteq Arrived(r)' \cup Sent(toHttp', r)
  BY <1>1, <1>2, <1>3
<1>4. ASSUME received'[r] = received[r], held'[r] = held[r], slot'[r] = slot[r]
      PROVE  Arrived(r)' = Arrived(r) /\ slot'[r].there = slot[r].there
  BY <1>1, <1>4 DEF Arrived, Got, Held, InSlot
<1>5. ~NoSlot.there
  BY DEF NoSlot
<1>6. CASE q # r
  <2>1. /\ received'[r] = received[r] /\ held'[r] = held[r] /\ slot'[r] = slot[r]
    BY <1>6
       DEF TypeInv, Submit, ChatFails, Disconnect, HttpAbort, Generator, FindsNoSlot, FindsAnswer,
           Consume, BackgroundAbort
  <2>2. QED
    BY <1>3, <1>4, <2>1
<1>7. CASE Submit(r)
  <2>1. shown[r] = 0
    BY <1>7 DEF Submit, LeakInv, EntriesInv, Untouched
  <2>2. 1..0 = {}
    OBVIOUS
  <2>3. QED
    BY <1>1, <2>1, <2>2
<1>8. CASE ChatFails(r) \/ FindsNoSlot(r)
  BY <1>3, <1>4, <1>8 DEF ChatFails, FindsNoSlot
<1>9. CASE FindsAnswer(r)
  <2>1. /\ held'[r] = slot[r] /\ slot'[r].text = <<>> /\ UNCHANGED received
        /\ held[r].text = <<>> /\ slot[r].there
    BY <1>2, <1>9 DEF FindsAnswer, Taken, Awake, ClientInv, EmptySlot
  <2>2. Held(r) = {} /\ Held(r)' = InSlot(r) /\ InSlot(r)' = {} /\ Got(r)' = Got(r)
    BY <2>1, EmptyPiece DEF Held, InSlot, Got
  <2>3. Arrived(r)' = Arrived(r)
    BY <1>1, <2>2 DEF Arrived
  <2>4. QED
    BY <1>3, <2>1, <2>3
<1>10. CASE Consume(r)
  <2>1. /\ received'[r] = received[r] \o held[r].text
        /\ held'[r].text = <<>> /\ slot'[r] \in {slot[r], NoSlot}
    BY <1>2, <1>10 DEF Consume, NoSlot
  <2>2. slot'[r].there => slot'[r] = slot[r]
    BY <1>5, <2>1
  <2>3. Got(r)' = Got(r) \cup Held(r) /\ Held(r)' = {}
    BY <2>1, TextFacts, JoinedElements, EmptyPiece DEF Held, Got
  <2>4. slot'[r].there => Arrived(r)' = Arrived(r)
    BY <1>1, <2>2, <2>3 DEF Arrived, InSlot
  <2>5. QED
    BY <1>3, <2>2, <2>4
<1>11. CASE Disconnect(r) \/ BackgroundAbort(r)
  <2>1. ~slot'[r].there
    BY <1>2, <1>5, <1>11 DEF Disconnect, BackgroundAbort, HttpAbort
  <2>2. QED
    BY <2>1
<1>12. QED
  BY <1>6, <1>7, <1>8, <1>9, <1>10, <1>11 DEF Generator

LEMMA OrderStays ==
  ASSUME TypeInv, ClientInv, OrderInv, CoverInv, LeakInv, [Next]_vars
  PROVE  OrderInv' /\ CoverInv'
<1> USE DEF routerVars, detokVars, httpVars
<1> DEFINE C(r) == slot'[r].there => 1..shown'[r] \subseteq Arrived(r)' \cup Sent(toHttp', r)
<1>1. SUFFICES ASSUME NEW r \in Req PROVE TextsInOrder(r)' /\ C(r)
  BY <1>1, NumbersAscend DEF OrderInv, CoverInv, Sent, HasText
<1> HIDE DEF C
<1>2. ASSUME NEW q \in Req,
             \/ Submit(q) \/ ChatFails(q) \/ Disconnect(q)
             \/ Generator(q) \/ Consume(q) \/ BackgroundAbort(q)
      PROVE  TextsInOrder(r)' /\ C(r)
  BY <1>2, TextsOfClients, CoverOfClients DEF C
<1>3. CASE DetokForgets \/ \E withheld \in SUBSET known : DetokDecodes(withheld)
  BY <1>3, TextsOfDetok DEF C
<1>4. CASE HandleLoop
  BY <1>4, TextsOfHttp DEF C
<1>5. CASE UNCHANGED <<toHttp, shown, received, lost, held, slot>>
  <2>1. TextsInOrder(r)'
    BY <1>5, TextsFrame
  <2>2. Arrived(r)' = Arrived(r)
    BY <1>5 DEF Arrived, Got, Held, InSlot
  <2>3. QED
    BY <1>5, <2>1, <2>2 DEF CoverInv, C
<1>6. Router \/ DetokRegisters \/ UNCHANGED vars
        => UNCHANGED <<toHttp, shown, received, lost, held, slot>>
  BY DEF Router, DetokRegisters, vars, RouterReceives, RouterAnswers, RouterDrops, RouterRefuses
<1>7. QED
  BY <1>2, <1>3, <1>4, <1>5, <1>6 DEF Next, Client, Detokenization

-----------------------------------------------------------------------------
(* Requests and their ends, when a message leaves a pipe or comes in.      *)
LEMMA LeavesEntries ==
  ASSUME NEW S, NEW p \in Seq(S), p # <<>>, NEW r
  PROVE  /\ HasStart(p, r) <=> Starts(Head(p), r) \/ HasStart(Tail(p), r)
         /\ HasEnd(p, r) <=> Ends(Head(p), r) \/ HasEnd(Tail(p), r)
         /\ HasClose(p, r) <=> Closes(Head(p), r) \/ HasClose(Tail(p), r)
         /\ OneStart(p, r) => /\ OneStart(Tail(p), r)
                              /\ Starts(Head(p), r) => ~HasStart(Tail(p), r)
         /\ StartsFirst(p, r) => /\ StartsFirst(Tail(p), r)
                                 /\ Ends(Head(p), r) => ~HasStart(Tail(p), r)
<1> DEFINE q == Tail(p)
<1>1. /\ Head(p) = p[1] /\ Len(p) \in Nat \ {0}
      /\ Len(q) = Len(p) - 1 /\ \A i \in 1..Len(q) : q[i] = p[i + 1]
  BY TailAt
<1> HIDE DEF q
<1>2. /\ \A i \in 1..Len(q) : i + 1 \in 1..Len(p) /\ q[i] = p[i + 1] /\ i + 1 # 1
      /\ \A i \in 1..Len(p) : i = 1 \/ (i - 1 \in 1..Len(q) /\ (i - 1) + 1 = i)
      /\ 1 \in 1..Len(p) /\ p[1] = Head(p)
      /\ \A i \in 1..Len(q) : ~(i + 1 < 1)
      /\ \A i, j \in 1..Len(q) : (i + 1 = j + 1 => i = j) /\ (i + 1 < j + 1 => i < j)
  BY <1>1
<1>3. \A i \in 1..Len(p) : i = 1 \/ \E j \in 1..Len(q) : i = j + 1 /\ p[i] = q[j]
  BY <1>2
<1>4. HasStart(p, r) <=> Starts(Head(p), r) \/ HasStart(q, r)
  BY <1>2, <1>3 DEF HasStart
<1>5. HasEnd(p, r) <=> Ends(Head(p), r) \/ HasEnd(q, r)
  BY <1>2, <1>3 DEF HasEnd
<1>6. HasClose(p, r) <=> Closes(Head(p), r) \/ HasClose(q, r)
  BY <1>2, <1>3 DEF HasClose
<1>7. OneStart(p, r) => OneStart(q, r) /\ (Starts(Head(p), r) => ~HasStart(q, r))
  BY <1>2 DEF OneStart, HasStart
<1>8. StartsFirst(p, r) => StartsFirst(q, r) /\ (Ends(Head(p), r) => ~HasStart(q, r))
  BY <1>2 DEF StartsFirst, HasStart
<1>9. QED
  BY <1>4, <1>5, <1>6, <1>7, <1>8 DEF q

LEMMA JoinsEntries ==
  ASSUME NEW S, NEW p \in Seq(S), NEW e \in S, NEW r
  PROVE  /\ HasStart(Append(p, e), r) <=> HasStart(p, r) \/ Starts(e, r)
         /\ HasEnd(Append(p, e), r) <=> HasEnd(p, r) \/ Ends(e, r)
         /\ HasClose(Append(p, e), r) <=> HasClose(p, r) \/ Closes(e, r)
         /\ OneStart(p, r) /\ (Starts(e, r) => ~HasStart(p, r)) => OneStart(Append(p, e), r)
         /\ StartsFirst(p, r) /\ (Starts(e, r) => ~HasEnd(p, r)) => StartsFirst(Append(p, e), r)
<1> DEFINE q == Append(p, e)
           n == Len(p)
<1>1. /\ n \in Nat /\ Len(q) = n + 1
      /\ \A i \in 1..n : q[i] = p[i]
      /\ q[n + 1] = e
  BY AppendAt
<1> HIDE DEF q
<1>2. /\ \A i \in 1..Len(q) : (i \in 1..n /\ q[i] = p[i]) \/ (i = n + 1 /\ q[i] = e)
      /\ \A i \in 1..n : i \in 1..Len(q) /\ q[i] = p[i] /\ i < n + 1
      /\ n + 1 \in 1..Len(q) /\ q[n + 1] = e
  BY <1>1
<1>3. HasStart(q, r) <=> HasStart(p, r) \/ Starts(e, r)
  BY <1>2 DEF HasStart
<1>4. HasEnd(q, r) <=> HasEnd(p, r) \/ Ends(e, r)
  BY <1>2 DEF HasEnd
<1>5. HasClose(q, r) <=> HasClose(p, r) \/ Closes(e, r)
  BY <1>2 DEF HasClose
<1>6. ASSUME OneStart(p, r), Starts(e, r) => ~HasStart(p, r) PROVE OneStart(q, r)
  BY <1>2, <1>6 DEF OneStart, HasStart
<1>7. ASSUME StartsFirst(p, r), Starts(e, r) => ~HasEnd(p, r) PROVE StartsFirst(q, r)
  <2>1. ~(Starts(e, r) /\ Ends(e, r))
    BY DEF Starts, Ends
  <2>2. QED
    BY <1>2, <1>7, <2>1 DEF StartsFirst, HasEnd
<1>8. QED
  BY <1>3, <1>4, <1>5, <1>6, <1>7 DEF q

(* What the entries of r are after a step.                                 *)
LEMMA EntriesPrimed ==
  ASSUME NEW r \in Req
  PROVE  /\ HasStart(toRouter, r)' = HasStart(toRouter', r)
         /\ HasStart(toDetok, r)' = HasStart(toDetok', r)
         /\ HasEnd(toRouter, r)' = HasEnd(toRouter', r)
         /\ HasEnd(toDetok, r)' = HasEnd(toDetok', r)
         /\ HasClose(toHttp, r)' = HasClose(toHttp', r)
         /\ OneStart(toRouter, r)' = OneStart(toRouter', r)
         /\ OneStart(toDetok, r)' = OneStart(toDetok', r)
         /\ StartsFirst(toRouter, r)' = StartsFirst(toRouter', r)
         /\ StartsFirst(toDetok, r)' = StartsFirst(toDetok', r)
BY DEF HasStart, HasEnd, HasClose, OneStart, StartsFirst, Starts, Ends, Closes, HasText

LEMMA EntriesHold == Init => LeakInv
<1> SUFFICES ASSUME Init, NEW r \in Req PROVE PipesInv(r) /\ EntriesInv(r)
  BY DEF LeakInv
<1>1. Len(<<>>) = 0 /\ 1..0 = {}
  OBVIOUS
<1>2. /\ toRouter = <<>> /\ toDetok = <<>> /\ toHttp = <<>> /\ serving = {} /\ known = {}
      /\ shown[r] = 0 /\ gen[r] = "new" /\ ~slot[r].finished /\ ~held[r].finished
  BY DEF Init, NoSlot
<1>3. /\ \A p : p = <<>> => ~HasStart(p, r) /\ ~HasEnd(p, r) /\ ~HasClose(p, r)
                            /\ OneStart(p, r) /\ StartsFirst(p, r)
  BY <1>1 DEF HasStart, HasEnd, HasClose, OneStart, StartsFirst
<1>4. QED
  BY <1>2, <1>3 DEF PipesInv, EntriesInv, Untouched, Settled

(* A step of a pipe by which no request or end of r comes or goes.         *)
Neutral(p, q, S, r) ==
  \/ q = p
  \/ \E e \in S : ~Starts(e, r) /\ ~Ends(e, r) /\ q = Append(p, e)
  \/ p # <<>> /\ q = Tail(p) /\ ~Starts(Head(p), r) /\ ~Ends(Head(p), r)

LEMMA NeutralKeeps ==
  ASSUME NEW S, NEW p \in Seq(S), NEW r, NEW q, Neutral(p, q, S, r), OneStart(p, r), StartsFirst(p, r)
  PROVE  /\ HasStart(q, r) = HasStart(p, r)
         /\ HasEnd(q, r) = HasEnd(p, r)
         /\ OneStart(q, r) /\ StartsFirst(q, r)
<1>1. /\ HasStart(q, r) <=> HasStart(p, r)
      /\ HasEnd(q, r) <=> HasEnd(p, r)
      /\ OneStart(q, r) /\ StartsFirst(q, r)
  <2>1. CASE q = p
    BY <2>1
  <2>2. ASSUME NEW e \in S, ~Starts(e, r), ~Ends(e, r), q = Append(p, e) PROVE <1>1!:
    BY <2>2, JoinsEntries
  <2>3. CASE p # <<>> /\ q = Tail(p) /\ ~Starts(Head(p), r) /\ ~Ends(Head(p), r)
    BY <2>3, LeavesEntries
  <2>4. QED
    BY <2>1, <2>2, <2>3 DEF Neutral
<1>2. QED
  BY <1>1 DEF HasStart, HasEnd

LEMMA EntriesFrame ==
  ASSUME TypeInv, LeakInv, NEW r \in Req,
         Neutral(toRouter, toRouter', Calls, r), Neutral(toDetok, toDetok', ToDetok, r),
         known' \subseteq known, serving' \subseteq serving
  PROVE  /\ PipesInv(r)'
         /\ Settled(r) => Settled(r)'
         /\ HasEnd(toRouter, r)' = HasEnd(toRouter, r)
         /\ HasEnd(toDetok, r)' = HasEnd(toDetok, r)
<1>1. toRouter \in Seq(Calls) /\ toDetok \in Seq(ToDetok) /\ PipesInv(r)
  BY DEF TypeInv, LeakInv
<1>2. /\ HasStart(toDetok', r) = HasStart(toDetok, r)
      /\ HasEnd(toDetok', r) = HasEnd(toDetok, r)
      /\ OneStart(toDetok', r) /\ StartsFirst(toDetok', r)
  BY <1>1, NeutralKeeps DEF PipesInv
<1>3. /\ HasStart(toRouter', r) = HasStart(toRouter, r)
      /\ HasEnd(toRouter', r) = HasEnd(toRouter, r)
      /\ OneStart(toRouter', r) /\ StartsFirst(toRouter', r)
  BY <1>1, NeutralKeeps DEF PipesInv
<1>4. QED
  BY <1>1, <1>2, <1>3, EntriesPrimed DEF PipesInv, Settled

(* ... and that gives r no end at the HTTP server.                         *)
LEMMA EntriesKept ==
  ASSUME TypeInv, LeakInv, NEW r \in Req,
         Neutral(toRouter, toRouter', Calls, r), Neutral(toDetok, toDetok', ToDetok, r),
         known' \subseteq known, serving' \subseteq serving, shown'[r] = shown[r],
         HasClose(toHttp', r) => HasClose(toHttp, r),
         gen'[r] = gen[r],
         slot'[r].finished \/ held'[r].finished => Settled(r),
         ~slot'[r].there /\ gen[r] \in {"waiting", "yielded"} => Settled(r)
  PROVE  PipesInv(r)' /\ EntriesInv(r)'
<1>1. EntriesInv(r)
  BY DEF LeakInv
<1>2. QED
  BY <1>1, EntriesFrame, EntriesPrimed DEF EntriesInv, Untouched

LEMMA ClientEntries ==
  ASSUME TypeInv, ClientInv, LeakInv, NEW r \in Req, NEW q \in Req,
         \/ Submit(q) \/ ChatFails(q) \/ Disconnect(q)
         \/ Generator(q) \/ Consume(q) \/ BackgroundAbort(q)
  PROVE  PipesInv(r)' /\ EntriesInv(r)'
<1> USE DEF routerVars, detokVars, httpVars
<1>1. /\ slot \in [Req -> Slot] /\ held \in [Req -> Slot]
      /\ gen \in [Req -> {"new", "waiting", "yielded", "ended", "gone"}]
      /\ toRouter \in Seq(Calls) /\ PipesInv(r) /\ EntriesInv(r)
  BY DEF TypeInv, LeakInv
<1>2. UNCHANGED <<toHttp, toDetok, known, serving, shown>>
  BY DEF Submit, ChatFails, Disconnect, HttpAbort, Generator, FindsNoSlot, FindsAnswer,
         Consume, BackgroundAbort
<1>3. Neutral(toDetok, toDetok', ToDetok, r)
  BY <1>2 DEF Neutral
<1>4. ~NoSlot.there /\ ~NoSlot.finished
  BY DEF NoSlot
<1>5. \A f : EmptySlot(f).there /\ EmptySlot(f).finished = f
  BY DEF EmptySlot
<1>6. CASE q # r
  <2>1. /\ gen'[r] = gen[r] /\ held'[r] = held[r] /\ slot'[r] = slot[r]
        /\ \/ UNCHANGED toRouter
           \/ \E t \in {"request", "abort"} : toRouter' = Append(toRouter, [type |-> t, req |-> q])
    BY <1>1, <1>6
       DEF Submit, ChatFails, Disconnect, HttpAbort, Generator, FindsNoSlot, FindsAnswer,
           Consume, BackgroundAbort
  <2>2. Neutral(toRouter, toRouter', Calls, r)
    <3>1. ASSUME NEW t \in {"request", "abort"}
          PROVE  LET m == [type |-> t, req |-> q]
                 IN  m \in Calls /\ ~Starts(m, r) /\ ~Ends(m, r)
      BY <1>6, NewCalls DEF Starts, Ends
    <3>2. QED
      BY <2>1, <3>1 DEF Neutral
  <2>3. QED
    BY <1>1, <1>2, <1>3, <2>1, <2>2, EntriesKept DEF EntriesInv
<1>7. ASSUME UNCHANGED toRouter
      PROVE  /\ Neutral(toRouter, toRouter', Calls, r)
             /\ PipesInv(r)' /\ (Settled(r) => Settled(r)')
             /\ HasClose(toHttp, r)' = HasClose(toHttp, r)
             /\ HasEnd(toRouter, r)' = HasEnd(toRouter, r)
             /\ HasEnd(toDetok, r)' = HasEnd(toDetok, r)
  <2>1. Neutral(toRouter, toRouter', Calls, r)
    BY <1>7 DEF Neutral
  <2>2. QED
    BY <1>2, <1>3, <2>1, EntriesFrame, EntriesPrimed
<1>8. CASE Submit(r)
  <2>1. /\ Untouched(r) /\ endpoint[r] # "chat" /\ gen'[r] = "waiting"
        /\ slot'[r] = EmptySlot(FALSE) /\ held'[r] = held[r] /\ ~held[r].finished
        /\ toRouter' = Append(toRouter, [type |-> "request", req |-> r])
    BY <1>1, <1>8 DEF Submit, EntriesInv, ClientInv
  <2> DEFINE m == [type |-> "request", req |-> r]
  <2>2. m \in Calls /\ Starts(m, r) /\ ~Ends(m, r)
    BY NewCalls DEF Starts, Ends
  <2>3. OneStart(toRouter', r) /\ StartsFirst(toRouter', r)
    BY <1>1, <2>1, <2>2, JoinsEntries DEF PipesInv, Untouched, Settled
  <2>4. PipesInv(r)'
    BY <1>1, <1>2, <2>1, <2>3, EntriesPrimed DEF PipesInv, Untouched, Settled
  <2>5. EntriesInv(r)'
    BY <1>2, <1>5, <2>1, EntriesPrimed DEF EntriesInv, Untouched
  <2>6. QED
    BY <2>4, <2>5
<1>9. CASE ChatFails(r)
  <2>1. /\ gen'[r] = "gone" /\ endpoint[r] = "chat" /\ gen[r] = "new"
        /\ UNCHANGED <<slot, held, toRouter>>
    BY <1>1, <1>9 DEF ChatFails
  <2>2. QED
    BY <1>1, <1>2, <1>7, <2>1 DEF EntriesInv, Untouched
<1>10. CASE FindsNoSlot(r)
  <2>1. /\ gen'[r] \in {"ended", "gone"} /\ gen[r] = "waiting" /\ ~slot[r].there
        /\ UNCHANGED <<slot, held, toRouter>>
    BY <1>1, <1>10 DEF FindsNoSlot, Awake, Ended
  <2>2. QED
    BY <1>1, <1>2, <1>7, <2>1 DEF EntriesInv, Untouched
<1>11. CASE FindsAnswer(r)
  <2>1. /\ gen'[r] = "yielded" /\ gen[r] = "waiting"
        /\ held'[r] = slot[r] /\ slot'[r] = EmptySlot(slot[r].finished)
        /\ UNCHANGED toRouter
    BY <1>1, <1>11 DEF FindsAnswer, Awake, Taken
  <2>2. QED
    BY <1>1, <1>2, <1>5, <1>7, <2>1 DEF EntriesInv, Untouched
<1>12. CASE Consume(r)
  <2>1. /\ gen[r] = "yielded" /\ UNCHANGED toRouter
        /\ held'[r] = NoSlot
        /\ \/ held[r].finished /\ gen'[r] \in {"ended", "gone"} /\ slot'[r] = NoSlot
           \/ ~held[r].finished /\ gen'[r] = "waiting" /\ slot'[r] = slot[r]
    BY <1>1, <1>12 DEF Consume, Ended
  <2>2. QED
    BY <1>1, <1>2, <1>4, <1>7, <2>1 DEF EntriesInv, Untouched
<1>13. CASE Disconnect(r) \/ BackgroundAbort(r)
  <2> DEFINE m == [type |-> "abort", req |-> r]
  <2>1. /\ gen[r] \in {"waiting", "yielded", "ended"} /\ gen'[r] = "gone"
        /\ toRouter' = Append(toRouter, m)
        /\ slot'[r] = NoSlot
        /\ ~held'[r].finished
    BY <1>1, <1>4, <1>13 DEF Disconnect, BackgroundAbort, HttpAbort, ClientInv
  <2>2. m \in Calls /\ ~Starts(m, r) /\ Ends(m, r)
    BY NewCalls DEF Starts, Ends
  <2>3. /\ HasStart(toRouter', r) <=> HasStart(toRouter, r)
        /\ HasEnd(toRouter', r)
        /\ OneStart(toRouter', r) /\ StartsFirst(toRouter', r)
    BY <1>1, <2>1, <2>2, JoinsEntries DEF PipesInv
  <2>4. PipesInv(r)'
    BY <1>1, <1>2, <2>3, EntriesPrimed DEF PipesInv
  <2>5. EntriesInv(r)'
    BY <1>1, <1>2, <1>4, <2>1, <2>3, EntriesPrimed DEF EntriesInv, Settled
  <2>6. QED
    BY <2>4, <2>5
<1>14. QED
  BY <1>6, <1>8, <1>9, <1>10, <1>11, <1>12, <1>13 DEF Generator

LEMMA RouterEntries ==
  ASSUME TypeInv, ClientInv, LeakInv, NEW r \in Req, Router
  PROVE  PipesInv(r)' /\ EntriesInv(r)'
<1> USE DEF routerVars, detokVars, httpVars
<1>1. /\ toRouter \in Seq(Calls) /\ toDetok \in Seq(ToDetok) /\ PipesInv(r) /\ EntriesInv(r)
  BY DEF TypeInv, LeakInv
<1>2. UNCHANGED <<toHttp, known, shown, gen, slot, held>>
  BY DEF Router, RouterReceives, RouterAnswers, RouterDrops, RouterRefuses
<1>3. UNCHANGED toRouter => Neutral(toRouter, toRouter', Calls, r)
  BY DEF Neutral
<1>4. ASSUME Neutral(toRouter, toRouter', Calls, r), Neutral(toDetok, toDetok', ToDetok, r),
             serving' \subseteq serving
      PROVE  PipesInv(r)' /\ EntriesInv(r)'
  BY <1>1, <1>2, <1>4, EntriesKept DEF EntriesInv
<1>5. CASE RouterReceives
  <2> DEFINE m == Head(toRouter)
  <2>1. /\ toRouter # <<>> /\ toRouter' = Tail(toRouter) /\ toDetok' = Append(toDetok, m)
        /\ \/ m.type = "request" /\ serving' = serving \cup {m.req}
           \/ m.type = "abort" /\ UNCHANGED serving
    BY <1>5 DEF RouterReceives
  <2>2. m \in Calls /\ m \in ToDetok
    BY <2>1, Heads, NewCalls
  <2>3. /\ Starts(m, r) <=> m.type = "request" /\ m.req = r
        /\ Ends(m, r) <=> m.type = "abort" /\ m.req = r
    BY <2>1 DEF Starts, Ends
  <2> HIDE DEF m
  <2>4. CASE m.req # r
    <3>1. /\ Neutral(toDetok, toDetok', ToDetok, r)
          /\ Neutral(toRouter, toRouter', Calls, r)
      BY <2>1, <2>2, <2>3, <2>4 DEF Neutral, m
    <3>2. r \in serving' <=> r \in serving
      BY <2>1, <2>4
    <3>3. toRouter' = Tail(toRouter) /\ toDetok' = Append(toDetok, m)
      BY <2>1
    <3>4. /\ HasStart(toDetok', r) = HasStart(toDetok, r)
          /\ HasEnd(toDetok', r) = HasEnd(toDetok, r)
          /\ OneStart(toDetok', r) /\ StartsFirst(toDetok', r)
          /\ HasStart(toRouter', r) = HasStart(toRouter, r)
          /\ HasEnd(toRouter', r) = HasEnd(toRouter, r)
          /\ OneStart(toRouter', r) /\ StartsFirst(toRouter', r)
      BY <1>1, <3>1, NeutralKeeps DEF PipesInv
    <3>5. QED
      BY <1>1, <1>2, <3>2, <3>4, EntriesPrimed DEF PipesInv, EntriesInv, Settled, Untouched
  <2>5. CASE m.type = "request" /\ m.req = r
    <3>1. /\ Starts(m, r) /\ ~Ends(m, r) /\ HasStart(toRouter, r)
          /\ ~HasStart(toDetok, r) /\ ~HasEnd(toDetok, r) /\ r \notin known
      BY <1>1, <2>1, <2>3, <2>5, LeavesEntries DEF PipesInv, m
    <3>2. /\ ~HasStart(toRouter', r) /\ OneStart(toRouter', r) /\ StartsFirst(toRouter', r)
          /\ HasEnd(toRouter', r) <=> HasEnd(toRouter, r)
      BY <1>1, <2>1, <3>1, LeavesEntries DEF PipesInv, m
    <3>3. OneStart(toDetok', r) /\ StartsFirst(toDetok', r)
      BY <1>1, <2>1, <2>2, <3>1, JoinsEntries DEF PipesInv
    <3>4. ~Settled(r)
      BY <3>1 DEF Settled
    <3>5. PipesInv(r)'
      BY <1>2, <3>1, <3>2, <3>3, EntriesPrimed DEF PipesInv
    <3>6. EntriesInv(r)'
      BY <1>1, <1>2, <3>1, <3>2, <3>4, EntriesPrimed DEF EntriesInv, Untouched
    <3>7. QED
      BY <3>5, <3>6
  <2>6. CASE m.type = "abort" /\ m.req = r
    <3>1. ~Starts(m, r) /\ Ends(m, r) /\ UNCHANGED serving
      BY <2>1, <2>3, <2>6
    <3>2. /\ ~HasStart(toRouter', r) /\ OneStart(toRouter', r) /\ StartsFirst(toRouter', r)
          /\ HasStart(toRouter', r) <=> HasStart(toRouter, r)
          /\ HasEnd(toRouter, r)
      BY <1>1, <2>1, <3>1, LeavesEntries DEF PipesInv, m
    <3>3. /\ OneStart(toDetok', r) /\ StartsFirst(toDetok', r)
          /\ HasStart(toDetok', r) <=> HasStart(toDetok, r)
          /\ HasEnd(toDetok', r)
      BY <1>1, <2>1, <2>2, <3>1, JoinsEntries DEF PipesInv
    <3>4. PipesInv(r)'
      BY <1>1, <1>2, <3>1, <3>2, <3>3, EntriesPrimed DEF PipesInv
    <3>5. EntriesInv(r)'
      BY <1>1, <1>2, <3>2, <3>3, EntriesPrimed DEF EntriesInv, Untouched, Settled
    <3>6. QED
      BY <3>4, <3>5
  <2>7. QED
    BY <2>1, <2>4, <2>5, <2>6
<1>6. ASSUME NEW S \in SUBSET serving, NEW F \in SUBSET S, RouterAnswers(S, F)
      PROVE  PipesInv(r)' /\ EntriesInv(r)'
  <2> DEFINE f == [q \in S |-> [number |-> generated[q] + 1, finished |-> q \in F,
                                abort |-> q \in cancelled]]
             m == [type |-> "tokens", of |-> f]
  <2>1. /\ UNCHANGED toRouter /\ serving' \subseteq serving /\ toDetok' = Append(toDetok, m)
    BY <1>6 DEF RouterAnswers
  <2>2. m \in ToDetok
    <3>1. f \in [S -> Token] /\ S \in SUBSET Req
      BY DEF Token, TypeInv
    <3>2. QED
      BY <3>1, NewMessages
  <2>3. ~Starts(m, r) /\ ~Ends(m, r)
    BY DEF Starts, Ends
  <2>4. QED
    BY <1>3, <1>4, <2>1, <2>2, <2>3 DEF Neutral
<1>7. ASSUME NEW q \in serving, RouterDrops(q)
      PROVE  PipesInv(r)' /\ EntriesInv(r)'
  BY <1>3, <1>4, <1>7 DEF RouterDrops, Neutral
<1>8. ASSUME NEW S \in SUBSET serving, RouterRefuses(S)
      PROVE  PipesInv(r)' /\ EntriesInv(r)'
  <2> DEFINE m == [type |-> "refuse", reqs |-> S]
  <2>1. /\ UNCHANGED toRouter /\ serving' = serving \ S /\ toDetok' = Append(toDetok, m)
        /\ m \in ToDetok
    BY <1>8, NewMessages DEF RouterRefuses, TypeInv
  <2>2. ~Starts(m, r) /\ (Ends(m, r) <=> r \in S)
    BY DEF Starts, Ends
  <2>3. CASE r \notin S
    BY <1>3, <1>4, <2>1, <2>2, <2>3 DEF Neutral
  <2>4. CASE r \in S
    <3>1. r \in serving /\ ~HasStart(toRouter, r)
      BY <1>1, <2>4 DEF PipesInv
    <3>2. /\ OneStart(toDetok', r) /\ StartsFirst(toDetok', r)
          /\ HasStart(toDetok', r) <=> HasStart(toDetok, r)
          /\ HasEnd(toDetok', r)
      BY <1>1, <2>1, <2>2, <2>4, JoinsEntries DEF PipesInv
    <3>3. PipesInv(r)'
      BY <1>1, <1>2, <2>1, <3>1, <3>2, EntriesPrimed DEF PipesInv
    <3>4. EntriesInv(r)'
      BY <1>1, <1>2, <2>1, <3>1, <3>2, EntriesPrimed DEF EntriesInv, Untouched, Settled
    <3>5. QED
      BY <3>3, <3>4
  <2>5. QED
    BY <2>3, <2>4
<1>9. QED
  BY <1>5, <1>6, <1>7, <1>8 DEF Router

LEMMA DetokEntries ==
  ASSUME TypeInv, ClientInv, OrderInv, LeakInv, NEW r \in Req, Detokenization
  PROVE  PipesInv(r)' /\ EntriesInv(r)'
<1> USE DEF routerVars, detokVars, httpVars
<1> DEFINE m == Head(toDetok)
<1>1. /\ toDetok \in Seq(ToDetok) /\ toHttp \in Seq(ToHttp) /\ PipesInv(r) /\ EntriesInv(r)
  BY DEF TypeInv, LeakInv
<1>2. /\ UNCHANGED <<toRouter, serving, gen, slot, held>>
      /\ toDetok # <<>> /\ toDetok' = Tail(toDetok)
  BY DEF Detokenization, DetokRegisters, DetokForgets, DetokDecodes
<1>3. Neutral(toRouter, toRouter', Calls, r)
  BY <1>2 DEF Neutral
<1>4. m \in ToDetok
  BY <1>2, Heads
<1>5. /\ HasStart(toDetok, r) <=> Starts(m, r) \/ HasStart(toDetok', r)
      /\ HasEnd(toDetok, r) <=> Ends(m, r) \/ HasEnd(toDetok', r)
      /\ OneStart(toDetok', r) /\ StartsFirst(toDetok', r)
      /\ Starts(m, r) => ~HasStart(toDetok', r)
      /\ Ends(m, r) => ~HasStart(toDetok', r)
  BY <1>1, <1>2, LeavesEntries DEF PipesInv
<1>6. ~Starts(m, r) /\ ~Ends(m, r) => Neutral(toDetok, toDetok', ToDetok, r)
  BY <1>2 DEF Neutral
<1> HIDE DEF m
<1>7. CASE DetokRegisters
  <2>1. /\ m.type = "request" /\ known' = known \cup {m.req} /\ UNCHANGED <<toHttp, shown>>
    BY <1>7 DEF DetokRegisters, m
  <2>2. ~Ends(m, r) /\ (Starts(m, r) <=> m.req = r)
    BY <2>1 DEF Starts, Ends
  <2>3. r \in known' <=> r \in known \/ Starts(m, r)
    BY <2>1, <2>2
  <2>4. PipesInv(r)'
    BY <1>1, <1>2, <1>5, <2>2, <2>3, EntriesPrimed DEF PipesInv
  <2>5. EntriesInv(r)'
    BY <1>1, <1>2, <1>5, <2>1, <2>2, <2>3, EntriesPrimed DEF EntriesInv, Untouched, Settled
  <2>6. QED
    BY <2>4, <2>5
<1>8. CASE DetokForgets
  <2>1. /\ m.type \in {"abort", "refuse"} /\ UNCHANGED shown
        /\ known' \subseteq known
        /\ Ends(m, r) => r \notin known'
        /\ \/ UNCHANGED toHttp
           \/ m.type = "refuse" /\ toHttp' = Append(toHttp, m)
    BY <1>8 DEF DetokForgets, Ends, m
  <2>2. ~Starts(m, r)
    BY <2>1 DEF Starts
  <2>3. HasClose(toHttp', r) => HasClose(toHttp, r) \/ Ends(m, r)
    <3>1. CASE UNCHANGED toHttp
      BY <3>1
    <3>2. CASE m.type = "refuse" /\ toHttp' = Append(toHttp, m)
      <4>1. m \in ToHttp
        BY <1>4, <3>2, DetokMessages DEF ToHttp
      <4>2. Closes(m, r) => Ends(m, r)
        BY <3>2 DEF Closes, Ends, HasText
      <4>3. QED
        BY <1>1, <3>2, <4>1, <4>2, JoinsEntries
    <3>3. QED
      BY <2>1, <3>1, <3>2
  <2>4. CASE ~Ends(m, r)
    BY <1>1, <1>2, <1>3, <1>6, <2>1, <2>2, <2>3, <2>4, EntriesKept DEF EntriesInv
  <2>5. CASE Ends(m, r)
    <3>1. HasEnd(toDetok, r) /\ ~HasStart(toRouter, r) /\ ~HasStart(toDetok', r)
      BY <1>1, <1>5, <2>5 DEF PipesInv
    <3>2. Settled(r)' /\ PipesInv(r)'
      BY <1>1, <1>2, <1>5, <2>1, <2>5, <3>1, EntriesPrimed DEF Settled, PipesInv
    <3>3. ~Untouched(r)
      BY <3>1 DEF Untouched
    <3>4. EntriesInv(r)'
      BY <1>1, <1>2, <3>2, <3>3 DEF EntriesInv
    <3>5. QED
      BY <3>2, <3>4
  <2>6. QED
    BY <2>4, <2>5
<1>9. ASSUME NEW withheld \in SUBSET known, DetokDecodes(withheld)
      PROVE  PipesInv(r)' /\ EntriesInv(r)'
  <2> DEFINE us == DOMAIN m.of \cap known
             f == [q \in us |-> [text     |-> IF q \in withheld THEN <<>>
                                              ELSE NewText(q, m.of[q].number),
                                 finished |-> m.of[q].abort \/ m.of[q].finished,
                                 abort    |-> m.of[q].abort]]
             e == [type |-> "text", of |-> f]
  <2>1. /\ m.type = "tokens" /\ toHttp' = Append(toHttp, e)
        /\ known' = known \ {q \in us : m.of[q].finished \/ m.of[q].abort}
        /\ shown'[r] = IF r \in us \ withheld THEN m.of[r].number ELSE shown[r]
    BY <1>9 DEF DetokDecodes, Appended, m
  <2>2. ~Starts(m, r) /\ ~Ends(m, r)
    BY <2>1 DEF Starts, Ends
  <2>3. e \in ToHttp
    <3>1. toHttp' \in Seq(ToHttp) /\ Len(toHttp) \in Nat
      BY <1>1, <1>9, TypeStays DEF Next, Detokenization, TypeInv
    <3>2. /\ Len(Append(toHttp, e)) = Len(toHttp) + 1
          /\ Append(toHttp, e)[Len(toHttp) + 1] = e
      BY <1>1, <3>1
    <3>3. QED
      BY <2>1, <3>1, <3>2
  <2>4. Closes(e, r) => r \in known /\ r \notin known'
    <3>1. ASSUME Closes(e, r) PROVE r \in us /\ (m.of[r].finished \/ m.of[r].abort)
      <4>1. r \in us /\ (f[r].finished \/ f[r].abort)
        BY <3>1 DEF Closes, HasText
      <4>2. QED
        BY <4>1
    <3>2. QED
      BY <2>1, <3>1
  <2>5. /\ PipesInv(r)'
        /\ Settled(r) => Settled(r)'
        /\ HasEnd(toRouter, r)' = HasEnd(toRouter, r)
        /\ HasEnd(toDetok, r)' = HasEnd(toDetok, r)
    BY <1>2, <1>3, <1>6, <2>1, <2>2, EntriesFrame
  <2>6. HasClose(toHttp', r) => HasClose(toHttp, r) \/ (r \in known /\ r \notin known')
    BY <1>1, <2>1, <2>3, <2>4, JoinsEntries
  <2>7. HasClose(toHttp', r) => Settled(r)'
    <3>1. CASE HasClose(toHttp, r)
      BY <1>1, <2>5, <3>1 DEF EntriesInv
    <3>2. CASE r \in known /\ r \notin known'
      <4>1. ~HasStart(toRouter, r) /\ ~HasStart(toDetok, r)
        BY <1>1, <3>2 DEF PipesInv
      <4>2. QED
        BY <1>2, <1>5, <3>2, <4>1, EntriesPrimed DEF Settled
    <3>3. QED
      BY <2>6, <3>1, <3>2
  <2>8. Untouched(r) => Untouched(r)'
    <3>1. Untouched(r) => r \notin known
      BY DEF Untouched, Settled
    <3>2. QED
      BY <1>2, <2>1, <2>5, <2>6, <3>1, EntriesPrimed DEF Untouched
  <2>9. EntriesInv(r)'
    BY <1>1, <1>2, <2>5, <2>7, <2>8, EntriesPrimed DEF EntriesInv
  <2>10. QED
    BY <2>5, <2>9
<1>10. QED
  BY <1>7, <1>8, <1>9 DEF Detokenization

LEMMA HttpEntries ==
  ASSUME TypeInv, ClientInv, LeakInv, NEW r \in Req, HandleLoop
  PROVE  PipesInv(r)' /\ EntriesInv(r)'
<1> USE DEF routerVars, detokVars, httpVars
<1> DEFINE m == Head(toHttp)
<1>1. toHttp \in Seq(ToHttp) /\ EntriesInv(r)
  BY DEF TypeInv, LeakInv
<1>2. /\ UNCHANGED <<toRouter, toDetok, known, serving, shown, gen, held>>
      /\ toHttp # <<>> /\ toHttp' = Tail(toHttp)
  BY DEF HandleLoop, HttpReceivesText, HttpReceivesRefusal
<1>3. Neutral(toRouter, toRouter', Calls, r) /\ Neutral(toDetok, toDetok', ToDetok, r)
  BY <1>2 DEF Neutral
<1>4. /\ HasClose(toHttp', r) => HasClose(toHttp, r)
      /\ Closes(m, r) => Settled(r)
  BY <1>1, <1>2, LeavesEntries DEF EntriesInv
<1>5. ~NoSlot.finished
  BY DEF NoSlot
<1> HIDE DEF m
<1>6. \/ slot'[r] = slot[r]
      \/ slot'[r].there /\ (slot'[r].finished => Closes(m, r))
      \/ slot'[r] = NoSlot /\ Closes(m, r)
  <2>1. CASE HttpReceivesText
    <3> DEFINE us == {q \in DOMAIN m.of : Found(q) /\ ~m.of[q].abort}
               ts == {q \in DOMAIN m.of : m.of[q].abort}
    <3>1. m.type = "text"
      BY <2>1 DEF HttpReceivesText, m
    <3>2. CASE r \in us
      <4>1. slot'[r] = [text |-> m.of[r].text, meta |-> TRUE,
                        finished |-> m.of[r].finished, there |-> TRUE]
        BY <2>1, <3>2 DEF HttpReceivesText, m
      <4>2. QED
        BY <3>1, <3>2, <4>1 DEF Closes, HasText
    <3>3. CASE r \notin us /\ r \in ts
      <4>1. slot'[r] = NoSlot
        BY <2>1, <3>3 DEF HttpReceivesText, m
      <4>2. QED
        BY <3>1, <3>3, <4>1 DEF Closes, HasText
    <3>4. CASE r \notin us /\ r \notin ts
      BY <2>1, <3>4 DEF HttpReceivesText, m
    <3>5. QED
      BY <3>2, <3>3, <3>4
  <2>2. CASE HttpReceivesRefusal
    BY <2>2 DEF HttpReceivesRefusal, Closes, m
  <2>3. QED
    BY <2>1, <2>2 DEF HandleLoop
<1>7. /\ slot'[r].finished \/ held'[r].finished => Settled(r)
      /\ ~slot'[r].there /\ gen[r] \in {"waiting", "yielded"} => Settled(r)
  BY <1>1, <1>2, <1>4, <1>5, <1>6 DEF EntriesInv
<1>8. QED
  BY <1>2, <1>3, <1>4, <1>7, EntriesKept

LEMMA EntriesStay ==
  ASSUME TypeInv, ClientInv, OrderInv, LeakInv, [Next]_vars
  PROVE  LeakInv'
<1>1. SUFFICES ASSUME NEW r \in Req PROVE PipesInv(r)' /\ EntriesInv(r)'
  BY DEF LeakInv
<1>2. CASE UNCHANGED vars
  <2>1. UNCHANGED <<toRouter, toDetok, toHttp, known, serving, shown, gen, slot, held>>
    BY <1>2 DEF vars, routerVars, detokVars, httpVars
  <2>2. Neutral(toRouter, toRouter', Calls, r) /\ Neutral(toDetok, toDetok', ToDetok, r)
    BY <2>1 DEF Neutral
  <2>3. QED
    BY <2>1, <2>2, EntriesKept DEF LeakInv, EntriesInv
<1>3. QED
  BY <1>2, ClientEntries, RouterEntries, DetokEntries, HttpEntries DEF Next, Client

-----------------------------------------------------------------------------
AnswerInv == TypeInv /\ ClientInv /\ OrderInv /\ CoverInv /\ LeakInv

(* The invariants above hold together: the order of what is in the pipes,  *)
(* who has an entry in which table, and where each number is.              *)
THEOREM AnswerInvariant == Spec => []AnswerInv
<1>1. Init => AnswerInv
  BY TypeHolds, ClientHolds, OrderHolds, EntriesHold DEF AnswerInv
<1>2. AnswerInv /\ [Next]_vars => AnswerInv'
  BY TypeStays, ClientStays, OrderStays, EntriesStay DEF AnswerInv
<1>3. QED
  BY <1>1, <1>2, PTL DEF Spec

(* No table entry is left behind: when the pipes are empty, the router has *)
(* nothing and every coroutine has ended, req_id_to_out is empty, and no   *)
(* slot of req_id_to_out_inf ever belongs to a coroutine that has ended.   *)
THEOREM TablesAreEmptied == Spec => []TablesEmptied
<1>1. AnswerInv => TablesEmptied
  <2> SUFFICES ASSUME AnswerInv PROVE TablesEmptied
    OBVIOUS
  <2>1. \A r \in Req : slot[r].there => gen[r] \in {"waiting", "yielded"}
    BY DEF AnswerInv, ClientInv
  <2>2. ASSUME Quiet, NEW r \in Req PROVE r \notin known
    <3>1. ~HasEnd(toRouter, r) /\ ~HasEnd(toDetok, r)
      BY <2>2 DEF Quiet, HasEnd
    <3>2. Settled(r)
      BY <2>2, <3>1 DEF AnswerInv, LeakInv, EntriesInv, Untouched, Quiet
    <3>3. QED
      BY <3>2 DEF Settled
  <2>3. known \subseteq Req
    BY DEF AnswerInv, TypeInv
  <2>4. QED
    BY <2>1, <2>2, <2>3 DEF TablesEmptied
<1>2. QED
  BY <1>1, AnswerInvariant, PTL

(* Nothing is lost on the way but by overwriting a slot: every token that  *)
(* detokenization showed of a request whose client waits is in exactly one *)
(* of the places an answer passes through, or was overwritten in its slot. *)
THEOREM OverwritesAlone == Spec => []OnlyOverwritesLose
<1>1. AnswerInv => OnlyOverwritesLose
  <2> SUFFICES ASSUME AnswerInv, NEW r \in Req, slot[r].there
               PROVE  LET places == <<Elements(received[r]), Elements(held[r].text),
                                      Elements(slot[r].text), OnTheWay(r), lost[r]>>
                      IN  /\ UNION {places[i] : i \in 1..5} = 1..shown[r]
                          /\ \A i, j \in 1..5 : i # j => places[i] \cap places[j] = {}
    BY DEF OnlyOverwritesLose
  <2> DEFINE places == <<Elements(received[r]), Elements(held[r].text),
                         Elements(slot[r].text), OnTheWay(r), lost[r]>>
             W == Sent(toHttp, r)
  <2>1. /\ TextsInOrder(r) /\ shown[r] \in Nat /\ toHttp \in Seq(ToHttp)
        /\ Arrived(r) \subseteq 1..shown[r] /\ Got(r) \subseteq Nat
        /\ Held(r) \subseteq Nat /\ InSlot(r) \subseteq Nat /\ lost[r] \subseteq Nat
        /\ 1..shown[r] \subseteq Arrived(r) \cup W
    BY TextFacts DEF AnswerInv, CoverInv
  <2>2. OnTheWay(r) = W
    BY DEF OnTheWay, Sent, HasText
  <2>3. W \subseteq 1..shown[r] /\ Before(Arrived(r), W)
    <3>1. ASSUME NEW x \in W
          PROVE  x \in 1..shown[r] /\ \A y \in Arrived(r) : y < x
      <4>1. PICK i \in DOMAIN toHttp : HasText(toHttp[i], r) /\ x \in Elements(toHttp[i].of[r].text)
        BY DEF Sent
      <4>2. i \in 1..Len(toHttp)
        BY <2>1, <4>1, LenProperties
      <4>3. /\ toHttp[i].of[r].text \in PiecesTo(shown[r])
            /\ Before(Arrived(r), Elements(toHttp[i].of[r].text))
        BY <2>1, <4>1, <4>2 DEF TextsInOrder, TextsAfter
      <4>4. QED
        BY <2>1, <4>1, <4>3, PieceElements DEF Before
    <3>2. QED
      BY <3>1 DEF Before
  <2>4. /\ places[1] = Got(r) /\ places[2] = Held(r) /\ places[3] = InSlot(r)
        /\ places[4] = W /\ places[5] = lost[r]
    BY <2>2 DEF Got, Held, InSlot
  <2> HIDE DEF places, W
  <2>5. ASSUME NEW A, NEW B, Before(A, B), A \subseteq Nat PROVE A \cap B = {}
    <3>1. \A x \in Nat : ~(x < x)
      OBVIOUS
    <3>2. \A x \in A \cap B : FALSE
      BY <2>5, <3>1 DEF Before
    <3>3. QED
      BY <3>2
  <2>6. /\ Got(r) \cap Held(r) = {} /\ Got(r) \cap InSlot(r) = {} /\ Held(r) \cap InSlot(r) = {}
        /\ lost[r] \cap InSlot(r) = {} /\ lost[r] \cap Got(r) = {} /\ lost[r] \cap Held(r) = {}
    <3>1. Before(Got(r), Held(r)) /\ Before(Got(r) \cup Held(r) \cup lost[r], InSlot(r))
      BY <2>1 DEF TextsInOrder
    <3>2. (Got(r) \cup Held(r) \cup lost[r]) \cap InSlot(r) = {}
      BY <2>1, <2>5, <3>1
    <3>3. QED
      BY <2>1, <2>5, <3>1, <3>2 DEF TextsInOrder
  <2>7. Arrived(r) \cap W = {}
    BY <2>1, <2>3, <2>5 DEF Arrived
  <2>8. Got(r) \cap W = {} /\ Held(r) \cap W = {} /\ InSlot(r) \cap W = {} /\ lost[r] \cap W = {}
    BY <2>7 DEF Arrived
  <2>9. UNION {places[i] : i \in 1..5} = 1..shown[r]
    <3>1. 1..5 = {1, 2, 3, 4, 5}
      OBVIOUS
    <3>2. UNION {places[i] : i \in 1..5} = Arrived(r) \cup W
      BY <2>4, <3>1 DEF Arrived
    <3>3. QED
      BY <2>1, <2>3, <3>2
  <2>10. \A i, j \in 1..5 : i # j => places[i] \cap places[j] = {}
    <3>1. 1..5 = {1, 2, 3, 4, 5}
      OBVIOUS
    <3>2. ASSUME NEW i \in 1..5, NEW j \in 1..5, i < j PROVE places[i] \cap places[j] = {}
      BY <2>4, <2>6, <2>8, <3>1, <3>2
    <3>3. \A i, j \in 1..5 : i # j => i < j \/ j < i
      OBVIOUS
    <3>4. QED
      BY <3>2, <3>3
  <2>11. QED
    BY <2>9, <2>10 DEF places
<1>2. QED
  BY <1>1, AnswerInvariant, PTL

(* The answer contract is kept: whatever order the three pipes, the        *)
(* timeouts and the aborts take, what a client gets of its answer is in    *)
(* order, never twice, never more than was generated, and nothing after    *)
(* its request was closed.  Each step of the pipeline generates, delivers  *)
(* a piece, closes a request, or leaves what the contract speaks of alone. *)
THEOREM ContractKept == Spec => KeepsContract
<1> USE DEF routerVars, detokVars, httpVars
<1> DEFINE seen == <<generated, received, outcome>>
<1>1. Init => Contract!Init
  BY DEF Init, Contract!Init
<1>2. AnswerInv /\ [Next]_vars => [Contract!Next]_seen
  <2> SUFFICES ASSUME AnswerInv, [Next]_vars PROVE [Contract!Next]_seen
    OBVIOUS
  <2>1. ASSUME NEW S \in SUBSET serving, NEW F \in SUBSET S, RouterAnswers(S, F)
        PROVE  Contract!Next
    <3>1. S \in SUBSET Req
      BY DEF AnswerInv, TypeInv
    <3>2. Contract!Generate
      BY <2>1, <3>1 DEF RouterAnswers, Contract!Generate
    <3>3. QED
      BY <3>2 DEF Contract!Next
  <2>2. ASSUME NEW r \in Req, Consume(r)
        PROVE  Contract!Next
    <3> DEFINE piece == held[r].text
    <3>1. /\ gen[r] = "yielded" /\ received' = [received EXCEPT ![r] = @ \o piece]
          /\ outcome' \in {outcome, [outcome EXCEPT ![r] = "complete"]}
          /\ UNCHANGED generated
      BY <2>2 DEF Consume
    <3>2. outcome[r] = "open"
      BY <3>1 DEF AnswerInv, ClientInv
    <3>3. /\ shown[r] \in Nat /\ generated[r] \in Nat /\ shown[r] <= generated[r]
          /\ piece \in PiecesTo(shown[r]) /\ Before(Got(r), Held(r))
      BY DEF AnswerInv, TypeInv, OrderInv, Ascending, TextsInOrder
    <3>4. piece \in PiecesTo(generated[r])
      BY <3>3, PiecesGrow
    <3>5. /\ Elements(piece) \subseteq 1..generated[r]
          /\ \A i \in DOMAIN piece : piece[i] \in Elements(piece)
          /\ \A i, j \in DOMAIN piece : i < j => piece[i] < piece[j]
      BY <3>3, <3>4, PieceElements
    <3>6. \A i \in DOMAIN piece, j \in DOMAIN received[r] : received[r][j] < piece[i]
      BY <3>3 DEF Before, Got, Held, Elements
    <3>7. Contract!Follows(piece, r)
      BY <3>3, <3>5, <3>6 DEF Contract!Follows
    <3>8. piece \in Contract!Pieces(r)
      BY <3>4 DEF PiecesTo, Piece, Contract!Pieces
    <3>9. Contract!Deliver(r, piece)
      BY <3>1, <3>2, <3>7 DEF Contract!Deliver
    <3>10. QED
      BY <3>8, <3>9 DEF Contract!Next
  <2>3. ASSUME NEW r \in Req, FindsNoSlot(r) \/ ChatFails(r) \/ Disconnect(r)
        PROVE  Contract!Next
    <3>1. outcome[r] = "open"
      BY <2>3 DEF FindsNoSlot, Awake, ChatFails, Disconnect, AnswerInv, ClientInv
    <3>2. /\ \E o \in {"refused", "left", "error"} : outcome' = [outcome EXCEPT ![r] = o]
          /\ UNCHANGED <<generated, received>>
      BY <2>3 DEF FindsNoSlot, ChatFails, Disconnect, HttpAbort
    <3>3. Contract!Close(r)
      BY <3>1, <3>2 DEF Contract!Close
    <3>4. QED
      BY <3>3 DEF Contract!Next
  <2>4. CASE \/ RouterReceives \/ Detokenization \/ HandleLoop \/ UNCHANGED vars
             \/ \E S \in SUBSET serving : RouterRefuses(S)
             \/ \E r \in serving : RouterDrops(r)
             \/ \E r \in Req : Submit(r) \/ FindsAnswer(r) \/ BackgroundAbort(r)
    <3>1. UNCHANGED seen
      BY <2>4
         DEF RouterReceives, Detokenization, DetokRegisters, DetokForgets, DetokDecodes,
             HandleLoop, HttpReceivesText, HttpReceivesRefusal, vars, RouterRefuses,
             RouterDrops, Submit, FindsAnswer, BackgroundAbort, HttpAbort
    <3>2. QED
      BY <3>1
  <2>5. QED
    BY <2>1, <2>2, <2>3, <2>4 DEF Next, Client, Router, Generator
<1>3. QED
  BY <1>1, <1>2, AnswerInvariant, PTL DEF Spec, KeepsContract, Contract!Spec

-----------------------------------------------------------------------------
(* No request is given more tokens than it may have.                       *)
Bound(r) ==
  /\ generated[r] <= max_new_tokens[r]
  /\ r \in serving => generated[r] < max_new_tokens[r]
  /\ gen[r] = "new" \/ HasStart(toRouter, r) => generated[r] = 0

BoundInv == \A r \in Req : Bound(r)

LEMMA BoundStays ==
  ASSUME AnswerInv, BoundInv, [Next]_vars
  PROVE  BoundInv'
<1> USE DEF routerVars, detokVars, httpVars
<1> SUFFICES ASSUME NEW r \in Req PROVE Bound(r)'
  BY DEF BoundInv
<1>1. /\ Bound(r) /\ PipesInv(r) /\ (gen[r] = "new" => r \notin serving)
      /\ toRouter \in Seq(Calls) /\ generated \in [Req -> Nat] /\ max_new_tokens[r] \in Nat \ {0}
      /\ gen \in [Req -> {"new", "waiting", "yielded", "ended", "gone"}]
  BY AnswerAssumption DEF BoundInv, AnswerInv, TypeInv, LeakInv, EntriesInv, Untouched
<1>2. ASSUME generated'[r] = generated[r], r \in serving' => r \in serving,
             gen'[r] = "new" => gen[r] = "new",
             HasStart(toRouter', r) => HasStart(toRouter, r) \/ gen[r] = "new"
      PROVE  Bound(r)'
  BY <1>1, <1>2, EntriesPrimed DEF Bound
<1>3. ASSUME NEW q \in Req,
             \/ Submit(q) \/ ChatFails(q) \/ Disconnect(q)
             \/ Generator(q) \/ Consume(q) \/ BackgroundAbort(q)
      PROVE  Bound(r)'
  <2>1. UNCHANGED <<generated, serving>> /\ (gen'[r] = "new" => gen[r] = "new")
    BY <1>1, <1>3
       DEF Submit, ChatFails, Disconnect, HttpAbort, Generator, FindsNoSlot, FindsAnswer,
           Consume, BackgroundAbort, Ended
  <2>2. \/ UNCHANGED toRouter
        \/ toRouter' = Append(toRouter, [type |-> "abort", req |-> q])
        \/ toRouter' = Append(toRouter, [type |-> "request", req |-> q]) /\ gen[q] = "new"
    BY <1>3
       DEF Submit, ChatFails, Disconnect, HttpAbort, Generator, FindsNoSlot, FindsAnswer,
           Consume, BackgroundAbort
  <2>3. HasStart(toRouter', r) => HasStart(toRouter, r) \/ gen[r] = "new"
    <3>1. CASE UNCHANGED toRouter
      BY <3>1
    <3>2. ASSUME toRouter' = Append(toRouter, [type |-> "abort", req |-> q])
          PROVE  HasStart(toRouter', r) => HasStart(toRouter, r)
      <4> DEFINE m == [type |-> "abort", req |-> q]
      <4>1. m \in Calls /\ ~Starts(m, r)
        BY NewCalls DEF Starts
      <4>2. QED
        BY <1>1, <3>2, <4>1, JoinsEntries
    <3>3. ASSUME toRouter' = Append(toRouter, [type |-> "request", req |-> q]), gen[q] = "new"
          PROVE  HasStart(toRouter', r) => HasStart(toRouter, r) \/ gen[r] = "new"
      <4> DEFINE m == [type |-> "request", req |-> q]
      <4>1. m \in Calls /\ (Starts(m, r) => q = r)
        BY NewCalls DEF Starts
      <4>2. QED
        BY <1>1, <3>3, <4>1, JoinsEntries
    <3>4. QED
      BY <2>2, <3>1, <3>2, <3>3
  <2>4. QED
    BY <1>2, <2>1, <2>3
<1>4. CASE RouterReceives
  <2> DEFINE m == Head(toRouter)
  <2>1. /\ toRouter # <<>> /\ toRouter' = Tail(toRouter)
        /\ \/ m.type = "request" /\ serving' = serving \cup {m.req}
           \/ UNCHANGED serving
        /\ UNCHANGED <<generated, gen>>
    BY <1>4 DEF RouterReceives
  <2>2. HasStart(toRouter', r) => HasStart(toRouter, r)
    BY <1>1, <2>1, LeavesEntries
  <2>3. CASE r \in serving' /\ r \notin serving
    <3>1. HasStart(toRouter, r)
      BY <1>1, <2>1, <2>3, LeavesEntries DEF Starts
    <3>2. generated[r] = 0
      BY <1>1, <3>1 DEF Bound
    <3>3. QED
      BY <1>1, <2>1, <3>2, EntriesPrimed DEF Bound
  <2>4. QED
    BY <1>2, <2>1, <2>2, <2>3
<1>5. ASSUME NEW S \in SUBSET serving, NEW F \in SUBSET S, RouterAnswers(S, F)
      PROVE  Bound(r)'
  <2>1. UNCHANGED <<toRouter, gen>> /\ serving' = serving \ F
    BY <1>5 DEF RouterAnswers
  <2>2. CASE r \notin S
    <3>1. generated'[r] = generated[r]
      BY <1>5, <2>2 DEF RouterAnswers
    <3>2. QED
      BY <1>2, <2>1, <3>1
  <2>3. CASE r \in S
    <3>1. /\ generated'[r] = generated[r] + 1
          /\ r \notin F => generated[r] + 1 < max_new_tokens[r]
      BY <1>1, <1>5, <2>3 DEF RouterAnswers, MustFinish
    <3>2. /\ generated[r] < max_new_tokens[r] /\ generated[r] \in Nat
          /\ gen[r] # "new" /\ ~HasStart(toRouter, r)
      BY <1>1, <2>3 DEF Bound, PipesInv
    <3>3. QED
      BY <1>1, <2>1, <3>1, <3>2, EntriesPrimed DEF Bound
  <2>4. QED
    BY <2>2, <2>3
<1>6. CASE UNCHANGED <<toRouter, generated, gen>> /\ serving' \subseteq serving
  BY <1>2, <1>6
<1>7. CASE \/ Detokenization \/ HandleLoop \/ UNCHANGED vars
           \/ \E S \in SUBSET serving : RouterRefuses(S)
           \/ \E q \in serving : RouterDrops(q)
  BY <1>6, <1>7
     DEF Detokenization, DetokRegisters, DetokForgets, DetokDecodes, HandleLoop,
         HttpReceivesText, HttpReceivesRefusal, vars, RouterRefuses, RouterDrops
<1>8. QED
  BY <1>3, <1>4, <1>5, <1>7 DEF Next, Client, Router

(* Max is the greatest of finitely many numbers: of the sets of those      *)
(* above some number, one holds no other.                                  *)
LEMMA Longest ==
  ASSUME NEW N \in SUBSET Nat, IsFiniteSet(N), N # {}
  PROVE  Max(N) \in N /\ \A y \in N : y <= Max(N)
<1> DEFINE above(x) == {y \in N : y > x}
           tops == {above(x) : x \in N}
<1>1. tops \subseteq FiniteSubsetsOf(N) /\ tops # {}
  <2>1. tops \subseteq SUBSET N /\ tops # {}
    OBVIOUS
  <2>2. FiniteSubsetsOf(N) = SUBSET N
    BY FS_FiniteSubsetsOfFinite, Zenon
  <2>3. QED
    BY <2>1, <2>2, Zenon
<1>2. PICK top \in tops : \A T \in tops : <<T, top>> \notin StrictSubsetOrdering(N)
  <2> HIDE DEF tops
  <2>1. IsWellFoundedOn(StrictSubsetOrdering(N), FiniteSubsetsOf(N))
    BY FS_StrictSubsetOrderingWellFounded, Zenon
  <2>2. QED
    BY <1>1, <2>1, WFMin, Zenon
<1>3. PICK x \in N : top = above(x)
  BY <1>2
<1>4. ASSUME NEW y \in N, y > x PROVE FALSE
  <2>1. above(y) \subseteq above(x) /\ y \in above(x) /\ y \notin above(y)
    <3>1. \A z \in N : z \in Nat
      OBVIOUS
    <3>2. ~(y > y) /\ \A z \in N : z > y => z > x
      BY <1>4, <3>1
    <3>3. QED
      BY <1>4, <3>2
  <2>2. <<above(y), above(x)>> \in StrictSubsetOrdering(N)
    BY <2>1 DEF StrictSubsetOrdering
  <2>3. QED
    BY <1>2, <1>3, <2>2
<1>5. \E m \in N : \A y \in N : m >= y
  BY <1>4
<1>6. QED
  BY <1>5 DEF Max

(* What is in the tables and slots, and what a client has, are pieces of   *)
(* answers no longer than max_new_tokens allows.                           *)
THEOREM AnswerTypes == ASSUME IsFiniteSet(Req) PROVE Spec => []TypeOK
<1>1. Init => BoundInv
  <2>1. \A r \in Req : max_new_tokens[r] \in Nat \ {0}
    BY AnswerAssumption
  <2>2. \A r : ~HasStart(<<>>, r)
    BY DEF HasStart
  <2>3. QED
    BY <2>1, <2>2 DEF Init, BoundInv, Bound
<1>2. AnswerInv /\ BoundInv => TypeOK
  <2> SUFFICES ASSUME AnswerInv, BoundInv PROVE TypeOK
    OBVIOUS
  <2>1. TypeInv
    BY DEF AnswerInv
  <2>2. ASSUME NEW r \in Req
        PROVE  /\ MaxTokens \in Nat
               /\ generated[r] \in 0..MaxTokens /\ shown[r] \in 0..MaxTokens
               /\ slot[r] \in Slots /\ held[r] \in Slots
               /\ received[r] \in Seq(1..MaxTokens)
               /\ lost[r] \in SUBSET (1..MaxTokens)
    <3> DEFINE N == {max_new_tokens[q] : q \in Req}
    <3>1. IsFiniteSet(N) /\ N \in SUBSET Nat /\ max_new_tokens[r] \in N
      <4>1. max_new_tokens \in Surjection(Req, N)
        BY AnswerAssumption DEF Surjection
      <4>2. QED
        BY <4>1, FS_Surjection, AnswerAssumption
    <3>2. MaxTokens \in Nat /\ max_new_tokens[r] <= MaxTokens
      BY <3>1, Longest DEF MaxTokens
    <3>3. /\ generated[r] \in Nat /\ shown[r] \in Nat /\ shown[r] <= generated[r]
          /\ generated[r] <= max_new_tokens[r] /\ max_new_tokens[r] \in Nat
      BY AnswerAssumption DEF BoundInv, Bound, AnswerInv, TypeInv, OrderInv, Ascending
    <3>4. /\ generated[r] \in 0..MaxTokens /\ shown[r] \in 0..MaxTokens
          /\ shown[r] <= MaxTokens /\ 1..shown[r] \subseteq 1..MaxTokens
      BY <3>2, <3>3
    <3>5. /\ held[r].text \in PiecesTo(shown[r]) /\ slot[r].text \in PiecesTo(shown[r])
          /\ Got(r) \subseteq 1..shown[r] /\ lost[r] \subseteq 1..shown[r]
      BY DEF AnswerInv, OrderInv, TextsInOrder
    <3>6. PiecesTo(MaxTokens) = Texts
      BY DEF PiecesTo, Piece, Texts
    <3>7. held[r].text \in Texts /\ slot[r].text \in Texts
      BY <3>2, <3>3, <3>4, <3>5, <3>6, PiecesGrow
    <3>8. held[r] \in Slots /\ slot[r] \in Slots
      <4>1. held[r] \in Slot /\ slot[r] \in Slot
        BY <2>1 DEF TypeInv
      <4>2. \A s \in Slot : s.text \in Texts => s \in Slots
        BY DEF Slot, Slots
      <4>3. QED
        BY <3>7, <4>1, <4>2
    <3>9. received[r] \in Seq(1..MaxTokens)
      <4>1. received[r] \in Seq(Nat)
        BY <2>1 DEF TypeInv
      <4>2. /\ Len(received[r]) \in Nat /\ DOMAIN received[r] = 1..Len(received[r])
            /\ received[r] \in [1..Len(received[r]) -> Nat]
        BY <4>1, LenProperties
      <4>3. \A i \in 1..Len(received[r]) : received[r][i] \in 1..MaxTokens
        BY <3>4, <3>5, <4>2 DEF Got, Elements
      <4>4. received[r] \in [1..Len(received[r]) -> 1..MaxTokens]
        BY <4>2, <4>3
      <4>5. QED
        BY <4>2, <4>4, SeqDef
    <3>10. QED
      BY <3>2, <3>4, <3>5, <3>8, <3>9
  <2>3. /\ generated \in [Req -> 0..MaxTokens] /\ shown \in [Req -> 0..MaxTokens]
        /\ slot \in [Req -> Slots] /\ held \in [Req -> Slots]
        /\ received \in [Req -> Seq(1..MaxTokens)]
        /\ lost \in [Req -> SUBSET (1..MaxTokens)]
    BY <2>1, <2>2 DEF TypeInv
  <2>4. QED
    BY <2>1, <2>3 DEF TypeInv, TypeOK
<1>3. QED
  BY <1>1, <1>2, BoundStays, AnswerInvariant, PTL DEF Spec
=============================================================================
