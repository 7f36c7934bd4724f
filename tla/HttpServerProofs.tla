-------------------------- MODULE HttpServerProofs --------------------------
(***************************************************************************)
(* That a connection answers each request once, in order and by what it     *)
(* asked for, for any number of requests and wherever reads cut the stream. *)
(***************************************************************************)
EXTENDS HttpServer, NaturalsInduction, WellFoundedInduction, TLAPS

(* Every nonempty set of natural numbers has a least element. *)
LEMMA LeastElement ==
    ASSUME NEW T, T \subseteq Nat, T # {}
    PROVE  \E x \in T : \A y \in T : x <= y
<1>1. IsWellFoundedOn(OpToRel(<, Nat), Nat)
  BY NatLessThanWellFounded
<1>2. PICK x \in T : \A y \in T : ~(<<y, x>> \in OpToRel(<, Nat))
  BY <1>1, WFMin
<1>3. ASSUME NEW y \in T PROVE x <= y
  <2>1. ~(y < x)
    BY <1>2 DEF OpToRel
  <2> QED
    BY <2>1
<1> QED
  BY <1>3

----------------------------------------------------------------------------
(* The tokens of a stream, seen from the requests they belong to.           *)

Parsers == [state : {"start", "header", "sized", "payload"},
            req : 0..MaxRequests, kind : Kinds \cup {"none"}]

Requests == [kind : Kinds, bad : BOOLEAN]

(* A position in the stream: how much of request number req has gone by. *)
Positions == [state : {"start", "header", "sized", "payload"}, req : Nat]

At(state, n) == [state |-> state, req |-> n]

(* A token takes the stream from one position to the next. *)
Moves(p, t, q) ==
    /\ t.req = p.req
    /\ \/ t.word = "line" /\ p.state = "start" /\ q = At("header", p.req)
       \/ t.word = "length" /\ p.state = "header" /\ q = At("sized", p.req)
       \/ t.word = "blank" /\ p.state = "header" /\ q = At("start", p.req + 1)
       \/ t.word = "blank" /\ p.state = "sized" /\ q = At("payload", p.req)
       \/ t.word = "payload" /\ p.state = "payload" /\ q = At("start", p.req + 1)
       \/ t.word = "control" /\ p.state # "payload" /\ q = At("start", p.req + 1)

(* A token is of a request that was asked, unless the client went in the    *)
(* middle of it; what ends a request says whether it was a bad one.         *)
Meant(t, asked, ended) ==
    /\ t.req \in 1..Len(asked) \/ ended
    /\ t.req \in 1..Len(asked) => t.kind = asked[t.req].kind
    /\ t.word = "blank" \/ t.word = "payload" => t.req \in 1..Len(asked) /\ ~asked[t.req].bad
    /\ t.word = "control" => t.req \in 1..Len(asked) /\ asked[t.req].bad

(* A request that has begun was asked, unless the client went. *)
Begun(p, asked, ended) == p.state = "start" \/ p.req \in 1..Len(asked) \/ ended

(* q are the positions between the tokens of s. *)
IsPath(q, s, asked, ended) ==
    /\ q \in [1..(Len(s) + 1) -> Positions]
    /\ \A i \in 1..(Len(s) + 1) : Begun(q[i], asked, ended)
    /\ \A i \in 1..Len(s) : Moves(q[i], s[i], q[i + 1]) /\ Meant(s[i], asked, ended)

(* The tokens of s lead from position p to position r. *)
Leads(s, p, r, asked, ended) ==
    \E q : IsPath(q, s, asked, ended) /\ q[1] = p /\ q[Len(s) + 1] = r

(* A parser that has read up to a position. *)
ParserAt(ps, p, asked) ==
    /\ ps \in Parsers
    /\ ps.state = p.state
    /\ ps.state # "start" => ps.req = p.req /\ (p.req \in 1..Len(asked) => ps.kind = asked[p.req].kind)

----------------------------------------------------------------------------
(* Streams are cut and joined.                                              *)

LEMMA LeadsEmpty ==
    ASSUME NEW p \in Positions, NEW asked, NEW ended \in BOOLEAN, Begun(p, asked, ended)
    PROVE  Leads(<< >>, p, p, asked, ended)
<1> DEFINE q == [i \in 1..1 |-> p]
<1>1. Len(<< >>) = 0
  OBVIOUS
<1>2. q \in [1..(0 + 1) -> Positions] /\ q[1] = p /\ q[0 + 1] = p
  OBVIOUS
<1>3. \A i \in 1..(0 + 1) : q[i] = p
  OBVIOUS
<1> HIDE DEF q
<1>4. IsPath(q, << >>, asked, ended)
  BY <1>1, <1>2, <1>3 DEF IsPath
<1> QED
  BY <1>1, <1>2, <1>4 DEF Leads

LEMMA LeadsNowhere ==
    ASSUME NEW p, NEW r, NEW asked, NEW ended, Leads(<< >>, p, r, asked, ended)
    PROVE  p = r /\ p \in Positions /\ Begun(p, asked, ended)
<1>1. Len(<< >>) = 0
  OBVIOUS
<1> QED
  BY <1>1 DEF Leads, IsPath

LEMMA LeadsTypes ==
    ASSUME NEW s \in Seq(Token), NEW p, NEW r, NEW asked, NEW ended, Leads(s, p, r, asked, ended)
    PROVE  /\ p \in Positions /\ Begun(p, asked, ended)
           /\ r \in Positions /\ Begun(r, asked, ended)
<1>1. Len(s) \in Nat /\ 1 \in 1..(Len(s) + 1) /\ Len(s) + 1 \in 1..(Len(s) + 1)
  OBVIOUS
<1> QED
  BY <1>1 DEF Leads, IsPath

(* The part of a sequence from i + 1 to j. *)
LEMMA PartFacts ==
    ASSUME NEW s \in Seq(Token), NEW i \in Nat, NEW j \in Nat, i <= j, j <= Len(s)
    PROVE  /\ SubSeq(s, i + 1, j) \in Seq(Token)
           /\ Len(SubSeq(s, i + 1, j)) = j - i
           /\ \A k \in 1..(j - i) : SubSeq(s, i + 1, j)[k] = s[i + k]
  OBVIOUS

LEMMA LeadsPart ==
    ASSUME NEW s \in Seq(Token), NEW asked, NEW ended, NEW q, IsPath(q, s, asked, ended),
           NEW i \in Nat, NEW j \in Nat, i <= j, j <= Len(s)
    PROVE  Leads(SubSeq(s, i + 1, j), q[i + 1], q[j + 1], asked, ended)
<1> DEFINE t == SubSeq(s, i + 1, j)
           w == [k \in 1..(j - i + 1) |-> q[i + k]]
<1>1. Len(t) = j - i /\ \A k \in 1..(j - i) : t[k] = s[i + k]
  BY PartFacts
<1>2. \A k \in 1..(j - i + 1) : i + k \in 1..(Len(s) + 1) /\ w[k] = q[i + k]
  OBVIOUS
<1>3. w \in [1..(j - i + 1) -> Positions] /\ \A k \in 1..(j - i + 1) : Begun(w[k], asked, ended)
  BY <1>2 DEF IsPath
<1>4. w[1] = q[i + 1] /\ w[j - i + 1] = q[j + 1]
  OBVIOUS
<1>5. ASSUME NEW k \in 1..(j - i)
      PROVE  Moves(w[k], t[k], w[k + 1]) /\ Meant(t[k], asked, ended)
  <2>1. i + k \in 1..Len(s) /\ i + (k + 1) = (i + k) + 1
        /\ k \in 1..(j - i + 1) /\ k + 1 \in 1..(j - i + 1)
    OBVIOUS
  <2>2. w[k] = q[i + k] /\ w[k + 1] = q[(i + k) + 1] /\ t[k] = s[i + k]
    BY <1>1, <1>2, <2>1
  <2> QED
    BY <2>1, <2>2 DEF IsPath
<1> HIDE DEF t, w
<1>6. IsPath(w, t, asked, ended)
  BY <1>1, <1>3, <1>5 DEF IsPath
<1>7. w[Len(t) + 1] = q[j + 1]
  BY <1>1, <1>4
<1>8. Leads(t, q[i + 1], q[j + 1], asked, ended)
  BY <1>4, <1>6, <1>7 DEF Leads
<1> QED
  BY <1>8 DEF t

LEMMA WholePart ==
    ASSUME NEW s \in Seq(Token)
    PROVE  SubSeq(s, 1, Len(s)) = s
  OBVIOUS

(* A stream is cut anywhere. *)
LEMMA LeadsCut ==
    ASSUME NEW s \in Seq(Token), NEW p, NEW r, NEW asked, NEW ended,
           Leads(s, p, r, asked, ended), NEW n \in 0..Len(s)
    PROVE  \E m : /\ Leads(SubSeq(s, 1, n), p, m, asked, ended)
                  /\ Leads(SubSeq(s, n + 1, Len(s)), m, r, asked, ended)
<1>1. PICK q : IsPath(q, s, asked, ended) /\ q[1] = p /\ q[Len(s) + 1] = r
  BY DEF Leads
<1>2. Leads(SubSeq(s, 0 + 1, n), q[0 + 1], q[n + 1], asked, ended)
  BY <1>1, LeadsPart
<1>3. Leads(SubSeq(s, n + 1, Len(s)), q[n + 1], q[Len(s) + 1], asked, ended)
  BY <1>1, LeadsPart
<1> QED
  BY <1>1, <1>2, <1>3

LEMMA ConcatFacts ==
    ASSUME NEW s \in Seq(Token), NEW t \in Seq(Token)
    PROVE  /\ s \o t \in Seq(Token)
           /\ Len(s \o t) = Len(s) + Len(t)
           /\ \A i \in 1..Len(s) : (s \o t)[i] = s[i]
           /\ \A i \in 1..Len(t) : (s \o t)[Len(s) + i] = t[i]
  OBVIOUS

(* Streams are joined. *)
LEMMA LeadsJoin ==
    ASSUME NEW s \in Seq(Token), NEW t \in Seq(Token), NEW p, NEW m, NEW r, NEW asked, NEW ended,
           Leads(s, p, m, asked, ended), Leads(t, m, r, asked, ended)
    PROVE  Leads(s \o t, p, r, asked, ended)
<1>1. PICK q : IsPath(q, s, asked, ended) /\ q[1] = p /\ q[Len(s) + 1] = m
  BY DEF Leads
<1>2. PICK w : IsPath(w, t, asked, ended) /\ w[1] = m /\ w[Len(t) + 1] = r
  BY DEF Leads
<1> DEFINE a == Len(s)
           b == Len(t)
           u == s \o t
           v == [i \in 1..(a + b + 1) |-> IF i <= a + 1 THEN q[i] ELSE w[i - a]]
<1>0. a \in Nat /\ b \in Nat
  OBVIOUS
<1>3. /\ Len(u) = a + b
      /\ \A i \in 1..a : u[i] = s[i]
      /\ \A i \in 1..b : u[a + i] = t[i]
  BY ConcatFacts
<1>4. /\ q \in [1..(a + 1) -> Positions] /\ \A i \in 1..(a + 1) : Begun(q[i], asked, ended)
      /\ w \in [1..(b + 1) -> Positions] /\ \A i \in 1..(b + 1) : Begun(w[i], asked, ended)
      /\ q[a + 1] = w[1]
  BY <1>1, <1>2 DEF IsPath
<1>5. /\ \A i \in 1..a : Moves(q[i], s[i], q[i + 1]) /\ Meant(s[i], asked, ended)
      /\ \A i \in 1..b : Moves(w[i], t[i], w[i + 1]) /\ Meant(t[i], asked, ended)
  BY <1>1, <1>2 DEF IsPath
<1>6. \A i \in 1..(a + 1) : v[i] = q[i]
  BY <1>0
<1>7. ASSUME NEW i \in 1..(b + 1) PROVE v[a + i] = w[i]
  <2>1. CASE i = 1
    BY <1>0, <1>4, <2>1
  <2>2. CASE i # 1
    <3>1. a + i \in 1..(a + b + 1) /\ ~(a + i <= a + 1) /\ (a + i) - a = i
      BY <1>0, <2>2
    <3> QED
      BY <3>1
  <2> QED
    BY <2>1, <2>2
<1>8. ASSUME NEW i \in 1..(a + b + 1)
      PROVE  v[i] \in Positions /\ Begun(v[i], asked, ended)
  <2>1. CASE i <= a + 1
    <3>1. i \in 1..(a + 1)
      BY <1>0, <2>1
    <3> QED
      BY <1>4, <1>6, <3>1
  <2>2. CASE ~(i <= a + 1)
    <3>1. i - a \in 1..(b + 1) /\ a + (i - a) = i
      BY <1>0, <2>2
    <3> QED
      BY <1>4, <1>7, <3>1
  <2> QED
    BY <2>1, <2>2
<1>9. v \in [1..(a + b + 1) -> Positions]
  BY <1>8
<1> HIDE DEF v, u, a, b
<1>10. ASSUME NEW i \in 1..(a + b)
       PROVE  Moves(v[i], u[i], v[i + 1]) /\ Meant(u[i], asked, ended)
  <2>1. CASE i <= a
    <3>1. i \in 1..a /\ i \in 1..(a + 1) /\ i + 1 \in 1..(a + 1)
      BY <1>0, <2>1
    <3>2. v[i] = q[i] /\ v[i + 1] = q[i + 1] /\ u[i] = s[i]
      BY <1>3, <1>6, <3>1
    <3> QED
      BY <1>5, <3>1, <3>2
  <2>2. CASE ~(i <= a)
    <3> DEFINE k == i - a
    <3>1. k \in 1..b /\ k \in 1..(b + 1) /\ k + 1 \in 1..(b + 1) /\ a + k = i /\ a + (k + 1) = i + 1
      BY <1>0, <2>2
    <3> HIDE DEF k
    <3>2. v[i] = w[k] /\ v[i + 1] = w[k + 1] /\ u[i] = t[k]
      BY <1>3, <1>7, <3>1
    <3> QED
      BY <1>5, <3>1, <3>2
  <2> QED
    BY <2>1, <2>2
<1>11. IsPath(v, u, asked, ended)
  BY <1>3, <1>8, <1>9, <1>10 DEF IsPath
<1>12. v[1] = p
  <2>1. 1 \in 1..(a + 1)
    BY <1>0
  <2> QED
    BY <1>1, <1>6, <2>1
<1>13. v[Len(u) + 1] = r
  <2>1. b + 1 \in 1..(b + 1) /\ a + (b + 1) = Len(u) + 1
    BY <1>0, <1>3
  <2>2. v[a + (b + 1)] = w[b + 1]
    BY <1>7, <2>1
  <2>3. w[b + 1] = r
    BY <1>2 DEF b
  <2> QED
    BY <2>1, <2>2, <2>3
<1>14. Leads(u, p, r, asked, ended)
  BY <1>11, <1>12, <1>13 DEF Leads
<1> QED
  BY <1>14 DEF u

(* More is asked, or the client goes: the stream is what it was. *)
LEMMA LeadsOn ==
    ASSUME NEW s \in Seq(Token), NEW p, NEW r, NEW asked \in Seq(Requests), NEW ended \in BOOLEAN,
           NEW more \in Seq(Requests), NEW over \in BOOLEAN,
           Leads(s, p, r, asked, ended),
           \/ more = asked /\ (ended => over)
           \/ /\ ~ended
              /\ Len(more) >= Len(asked)
              /\ \A i \in 1..Len(asked) : more[i] = asked[i]
    PROVE  Leads(s, p, r, more, over)
<1>0. Len(asked) \in Nat /\ Len(more) \in Nat
  OBVIOUS
<1>1. ASSUME NEW x \in Positions, Begun(x, asked, ended) PROVE Begun(x, more, over)
  BY <1>0, <1>1 DEF Begun, Positions
<1>2. ASSUME NEW t \in Token, Meant(t, asked, ended) PROVE Meant(t, more, over)
  <2>1. CASE more = asked /\ (ended => over)
    BY <1>2, <2>1 DEF Meant
  <2>2. CASE /\ ~ended
             /\ Len(more) >= Len(asked)
             /\ \A i \in 1..Len(asked) : more[i] = asked[i]
    <3>1. t.req \in 1..Len(asked)
      BY <1>2, <2>2 DEF Meant
    <3>2. t.req \in 1..Len(more) /\ more[t.req] = asked[t.req]
      BY <1>0, <2>2, <3>1
    <3> QED
      BY <1>2, <3>1, <3>2 DEF Meant
  <2> QED
    BY <2>1, <2>2
<1>3. PICK q : IsPath(q, s, asked, ended) /\ q[1] = p /\ q[Len(s) + 1] = r
  BY DEF Leads
<1>4. \A i \in 1..Len(s) : s[i] \in Token
  OBVIOUS
<1>5. IsPath(q, s, more, over)
  BY <1>1, <1>2, <1>3, <1>4 DEF IsPath
<1> QED
  BY <1>3, <1>5 DEF Leads

----------------------------------------------------------------------------
(* RequestParser *)

(* Request number n is over: it was asked, was bad if the parser failed, and *)
(* the parser, which says what it asks for, is ready for another.           *)
Decided(ps, n, result, asked) ==
    /\ result \in {"true", "false"}
    /\ ps \in Parsers
    /\ ps.state = "start"
    /\ ps.req = n
    /\ n \in 1..Len(asked)
    /\ result = "true" => ~asked[n].bad /\ ps.kind = asked[n].kind
    /\ result = "false" => asked[n].bad

(* consume() follows the stream. *)
LEMMA ConsumeOK ==
    ASSUME NEW asked \in Seq(Requests), NEW ended \in BOOLEAN,
           NEW p \in Positions, NEW q \in Positions, NEW t \in Token, NEW ps,
           Moves(p, t, q), Meant(t, asked, ended), ParserAt(ps, p, asked)
    PROVE  LET c == Consume(ps, t) IN
           /\ c = <<c[1], c[2]>>
           /\ \/ c[2] = "more" /\ ParserAt(c[1], q, asked) /\ q.req = p.req
              \/ q = At("start", p.req + 1) /\ Decided(c[1], p.req, c[2], asked)
<1> DEFINE c == Consume(ps, t)
<1>1. ps \in Parsers /\ ps.state = p.state
  BY DEF ParserAt
<1>2. ps = [state |-> ps.state, req |-> ps.req, kind |-> ps.kind]
      /\ ps.req \in 0..MaxRequests /\ ps.kind \in Kinds \cup {"none"}
  BY <1>1 DEF Parsers
<1>3. t.req = p.req /\ t.req \in 1..MaxRequests /\ t.kind \in Kinds /\ MaxRequests \in Nat
  BY HttpAssumption DEF Moves, Token
<1>4. /\ [ps EXCEPT !.state = "sized"] = [state |-> "sized", req |-> ps.req, kind |-> ps.kind]
      /\ [ps EXCEPT !.state = "payload"] = [state |-> "payload", req |-> ps.req, kind |-> ps.kind]
      /\ [ps EXCEPT !.state = "start"] = [state |-> "start", req |-> ps.req, kind |-> ps.kind]
  BY <1>2
<1>5. CASE t.word = "line"
  <2>1. c = <<[state |-> "header", req |-> t.req, kind |-> t.kind], "more">>
    BY <1>1, <1>5 DEF Consume, Moves
  <2>2. q = At("header", p.req)
    BY <1>5 DEF Moves
  <2>3. ParserAt([state |-> "header", req |-> t.req, kind |-> t.kind], q, asked)
    BY <1>3, <2>2 DEF ParserAt, Parsers, At, Meant
  <2> QED
    BY <2>1, <2>2, <2>3 DEF At
<1>6. CASE t.word = "length"
  <2>0. c = <<[ps EXCEPT !.state = "sized"], "more">>
    BY <1>1, <1>6 DEF Consume, Moves
  <2>1. c = <<[state |-> "sized", req |-> ps.req, kind |-> ps.kind], "more">>
    BY <1>4, <2>0
  <2>2. p.state = "header" /\ q = At("sized", p.req)
    BY <1>6 DEF Moves
  <2>3. ParserAt([state |-> "sized", req |-> ps.req, kind |-> ps.kind], q, asked)
    BY <1>1, <1>2, <2>2 DEF ParserAt, Parsers, At
  <2> QED
    BY <2>1, <2>2, <2>3 DEF At
<1>7. CASE t.word = "blank" /\ p.state = "sized"
  <2>1. c = <<[state |-> "payload", req |-> ps.req, kind |-> ps.kind], "more">>
    BY <1>1, <1>4, <1>7 DEF Consume
  <2>2. q = At("payload", p.req)
    BY <1>7 DEF Moves
  <2>3. ParserAt([state |-> "payload", req |-> ps.req, kind |-> ps.kind], q, asked)
    BY <1>1, <1>2, <1>7, <2>2 DEF ParserAt, Parsers, At
  <2> QED
    BY <2>1, <2>2, <2>3 DEF At
<1>8. CASE (t.word = "blank" /\ p.state = "header") \/ (t.word = "payload" /\ p.state = "payload")
  <2>1. c = <<[state |-> "start", req |-> ps.req, kind |-> ps.kind], "true">>
    BY <1>1, <1>4, <1>8 DEF Consume
  <2>2. q = At("start", p.req + 1)
    BY <1>8 DEF Moves
  <2>3. /\ ps.req = p.req /\ p.req \in 1..Len(asked)
        /\ ~asked[p.req].bad /\ ps.kind = asked[p.req].kind
    BY <1>1, <1>3, <1>8 DEF Meant, ParserAt
  <2>5. Decided([state |-> "start", req |-> ps.req, kind |-> ps.kind], p.req, "true", asked)
    BY <1>2, <2>3 DEF Decided, Parsers
  <2> QED
    BY <2>1, <2>2, <2>5
<1>9. CASE t.word = "control" /\ p.state # "payload"
  <2>1. c = <<[state |-> "start", req |-> t.req, kind |-> ps.kind], "false">>
    BY <1>1, <1>4, <1>9 DEF Consume
  <2>2. q = At("start", p.req + 1)
    BY <1>9 DEF Moves
  <2>3. t.req = p.req /\ p.req \in 1..Len(asked) /\ asked[p.req].bad
    BY <1>3, <1>9 DEF Meant
  <2>5. Decided([state |-> "start", req |-> t.req, kind |-> ps.kind], p.req, "false", asked)
    BY <1>2, <1>3, <2>3 DEF Decided, Parsers
  <2> QED
    BY <2>1, <2>2, <2>5
<1> HIDE DEF c
<1> QED
  BY <1>5, <1>6, <1>7, <1>8, <1>9 DEF Moves

(* What parse() has after some tokens. *)
IsParse(d) == d = [parser |-> d.parser, result |-> d.result, rest |-> d.rest]

(* After n tokens of s, whose positions are q, from a request number req. *)
ParsedTo(d, n, s, q, asked) ==
    /\ IsParse(d)
    /\ \/ /\ d.result = "more"
          /\ d.rest = << >>
          /\ ParserAt(d.parser, q[n + 1], asked)
          /\ q[n + 1].req = q[1].req
       \/ \E k \in 1..n :
             /\ d.rest = SubSeq(s, k + 1, n)
             /\ q[k + 1] = At("start", q[1].req + 1)
             /\ Decided(d.parser, q[1].req, d.result, asked)

LEMMA PartGrows ==
    ASSUME NEW s \in Seq(Token), NEW k \in 1..Len(s), NEW n \in 0..Len(s), k <= n, n < Len(s)
    PROVE  Append(SubSeq(s, k + 1, n), s[n + 1]) = SubSeq(s, k + 1, n + 1)
  OBVIOUS

LEMMA PartEmpty ==
    ASSUME NEW s \in Seq(Token), NEW k \in 1..Len(s)
    PROVE  SubSeq(s, k + 1, k) = << >>
  OBVIOUS

(* One more token. *)
LEMMA AdvanceOK ==
    ASSUME NEW asked \in Seq(Requests), NEW ended \in BOOLEAN, NEW s \in Seq(Token), NEW q,
           IsPath(q, s, asked, ended), NEW n \in 1..Len(s), NEW d,
           ParsedTo(d, n - 1, s, q, asked)
    PROVE  ParsedTo(Advance(d, s[n]), n, s, q, asked)
<1> DEFINE e == Advance(d, s[n])
           c == Consume(d.parser, s[n])
<1>0. n \in Nat /\ Len(s) \in Nat /\ (n - 1) + 1 = n
  OBVIOUS
<1>1. IsParse(d)
  BY DEF ParsedTo
<1>2. CASE /\ d.result = "more"
           /\ d.rest = << >>
           /\ ParserAt(d.parser, q[n], asked)
           /\ q[n].req = q[1].req
  <2>1. q[n] \in Positions /\ q[n + 1] \in Positions /\ s[n] \in Token
        /\ Moves(q[n], s[n], q[n + 1]) /\ Meant(s[n], asked, ended)
    BY DEF IsPath
  <2>2. \/ c[2] = "more" /\ ParserAt(c[1], q[n + 1], asked) /\ q[n + 1].req = q[n].req
        \/ q[n + 1] = At("start", q[n].req + 1) /\ Decided(c[1], q[n].req, c[2], asked)
    BY <1>2, <2>1, ConsumeOK
  <2>3. e = [d EXCEPT !.parser = c[1], !.result = c[2]]
    BY <1>2 DEF Advance
  <2> HIDE DEF c, e
  <2>4. e = [parser |-> c[1], result |-> c[2], rest |-> << >>]
    BY <1>1, <1>2, <2>3 DEF IsParse
  <2>5. IsParse(e) /\ e.parser = c[1] /\ e.result = c[2] /\ e.rest = << >>
    BY <2>4 DEF IsParse
  <2>6. n \in 1..n /\ SubSeq(s, n + 1, n) = << >>
    BY <1>0, PartEmpty
  <2>7. ParsedTo(e, n, s, q, asked)
    <3>1. CASE c[2] = "more" /\ ParserAt(c[1], q[n + 1], asked) /\ q[n + 1].req = q[n].req
      BY <1>2, <2>5, <3>1 DEF ParsedTo
    <3>2. CASE q[n + 1] = At("start", q[n].req + 1) /\ Decided(c[1], q[n].req, c[2], asked)
      BY <1>2, <2>5, <2>6, <3>2 DEF ParsedTo
    <3> QED
      BY <2>2, <3>1, <3>2
  <2> QED
    BY <2>7 DEF e
<1>3. ASSUME NEW k \in 1..(n - 1),
             d.rest = SubSeq(s, k + 1, n - 1),
             q[k + 1] = At("start", q[1].req + 1),
             Decided(d.parser, q[1].req, d.result, asked)
      PROVE  ParsedTo(e, n, s, q, asked)
  <2>1. e = [d EXCEPT !.rest = Append(d.rest, s[n])]
    BY <1>3 DEF Advance, Decided, IsParse
  <2>2. k \in 1..n /\ k \in 1..Len(s) /\ n - 1 \in 0..Len(s) /\ k <= n - 1 /\ n - 1 < Len(s)
    BY <1>0
  <2>3. Append(SubSeq(s, k + 1, n - 1), s[(n - 1) + 1]) = SubSeq(s, k + 1, (n - 1) + 1)
    BY <2>2, PartGrows
  <2> HIDE DEF e
  <2>4. e = [parser |-> d.parser, result |-> d.result, rest |-> Append(d.rest, s[n])]
    BY <1>1, <2>1 DEF IsParse
  <2>5. IsParse(e) /\ e.parser = d.parser /\ e.result = d.result
        /\ e.rest = Append(d.rest, s[n])
    BY <2>4 DEF IsParse
  <2>6. e.rest = SubSeq(s, k + 1, n)
    BY <1>0, <1>3, <2>3, <2>5
  <2> QED
    BY <1>3, <2>2, <2>5, <2>6 DEF ParsedTo
<1> QED
  BY <1>0, <1>2, <1>3 DEF ParsedTo

(* parse() stops where the request ends, or reads all there is. *)
LEMMA ParseOK ==
    ASSUME NEW asked \in Seq(Requests), NEW ended \in BOOLEAN, NEW s \in Seq(Token),
           NEW p, NEW r, Leads(s, p, r, asked, ended), NEW ps, ParserAt(ps, p, asked)
    PROVE  LET d == Parse(ps, s) IN
           /\ d.rest \in Seq(Token)
           /\ \/ /\ d.result = "more" /\ d.rest = << >>
                 /\ ParserAt(d.parser, r, asked) /\ r.req = p.req
              \/ /\ Leads(d.rest, At("start", p.req + 1), r, asked, ended)
                 /\ Decided(d.parser, p.req, d.result, asked)
<1>0. PICK q : IsPath(q, s, asked, ended) /\ q[1] = p /\ q[Len(s) + 1] = r
  BY DEF Leads
<1> DEFINE D == 0..Len(s)
           z == [parser |-> ps, result |-> "more", rest |-> << >>]
           Step(f, i) == IF i = 0 THEN z ELSE Advance(f[i - 1], s[i])
           Defined(n) == \E f : f = [i \in 0..n |-> Step(f, i)]
           F == CHOOSE f : f = [i \in D |-> Step(f, i)]
<1>1. ASSUME NEW n \in Nat, n > 0 => Defined(n - 1)
      PROVE  Defined(n)
  <2>1. CASE n = 0
    <3> DEFINE f == [i \in 0..n |-> z]
    <3>1. f = [i \in 0..n |-> Step(f, i)]
      BY <2>1
    <3> QED
      BY <3>1
  <2>2. CASE n > 0
    <3>1. PICK f : f = [i \in 0..(n - 1) |-> Step(f, i)]
      BY <1>1, <2>2
    <3> DEFINE g == [i \in 0..n |-> Step(f, i)]
    <3>2. ASSUME NEW i \in 0..n, i # 0
          PROVE  g[i - 1] = f[i - 1]
      <4>1. i - 1 \in 0..(n - 1) /\ i - 1 \in 0..n
        BY <3>2
      <4> QED
        BY <3>1, <4>1
    <3>3. g = [i \in 0..n |-> Step(g, i)]
      BY <3>2
    <3> QED
      BY <3>3
  <2> HIDE DEF Defined
  <2> QED
    BY <2>1, <2>2
<1>2. \A n \in Nat : Defined(n)
  <2> DEFINE T == {n \in Nat : ~Defined(n)}
  <2> HIDE DEF Defined
  <2>1. SUFFICES ASSUME T # {} PROVE FALSE
    OBVIOUS
  <2>2. PICK n \in T : \A k \in T : n <= k
    BY <2>1, LeastElement
  <2>3. n > 0 => Defined(n - 1)
    BY <2>2
  <2> QED
    BY <1>1, <2>2, <2>3
<1>3. \E f : f = [i \in D |-> Step(f, i)]
  <2> HIDE DEF Defined
  <2>1. Len(s) \in Nat
    OBVIOUS
  <2>2. Defined(Len(s))
    BY <1>2, <2>1
  <2> QED
    BY <2>2 DEF Defined
<1>4. F = [i \in D |-> Step(F, i)]
  BY <1>3
<1>5. Parse(ps, s) = F[Len(s)]
  BY DEF Parse
<1> HIDE DEF F
<1>6. ASSUME NEW i \in D PROVE F[i] = Step(F, i)
  BY <1>4
<1>7. \A i \in D : ParsedTo(F[i], i, s, q, asked)
  <2> DEFINE T == {i \in D : ~ParsedTo(F[i], i, s, q, asked)}
  <2>1. SUFFICES ASSUME T # {} PROVE FALSE
    OBVIOUS
  <2>0. T \subseteq Nat
    OBVIOUS
  <2>2. PICK i \in T : \A k \in T : i <= k
    <3> HIDE DEF T
    <3> QED
      BY <2>0, <2>1, LeastElement
  <2>3. CASE i = 0
    <3>1. F[0] = z /\ 0 + 1 = 1
      BY <1>6, <2>2, <2>3
    <3>2. ParsedTo(F[0], 0, s, q, asked)
      BY <1>0, <3>1 DEF ParsedTo, IsParse
    <3> QED
      BY <2>2, <2>3, <3>2
  <2>4. CASE i # 0
    <3>1. i - 1 \in D /\ i - 1 \notin T /\ i \in 1..Len(s)
      BY <2>2, <2>4
    <3>2. F[i] = Advance(F[i - 1], s[i])
      BY <1>6, <2>2, <2>4
    <3>3. ParsedTo(F[i - 1], i - 1, s, q, asked)
      BY <3>1
    <3> QED
      BY <1>0, <2>2, <3>1, <3>2, <3>3, AdvanceOK
  <2> QED
    BY <2>3, <2>4
<1> DEFINE d == Parse(ps, s)
<1>8. ParsedTo(d, Len(s), s, q, asked) /\ Len(s) \in Nat
  BY <1>5, <1>7
<1> HIDE DEF d
<1>9. CASE /\ d.result = "more"
           /\ d.rest = << >>
           /\ ParserAt(d.parser, q[Len(s) + 1], asked)
           /\ q[Len(s) + 1].req = q[1].req
  BY <1>0, <1>9 DEF d
<1>10. ASSUME NEW k \in 1..Len(s),
              d.rest = SubSeq(s, k + 1, Len(s)),
              q[k + 1] = At("start", q[1].req + 1),
              Decided(d.parser, q[1].req, d.result, asked)
       PROVE  /\ d.rest \in Seq(Token)
              /\ Leads(d.rest, At("start", p.req + 1), r, asked, ended)
              /\ Decided(d.parser, p.req, d.result, asked)
  <2>1. k \in Nat /\ k <= Len(s) /\ Len(s) <= Len(s)
    BY <1>8
  <2>2. Leads(SubSeq(s, k + 1, Len(s)), q[k + 1], q[Len(s) + 1], asked, ended)
    BY <1>0, <1>8, <2>1, LeadsPart
  <2>3. SubSeq(s, k + 1, Len(s)) \in Seq(Token)
    BY <1>8, <2>1, PartFacts
  <2> QED
    BY <1>0, <1>10, <2>2, <2>3
<1>11. << >> \in Seq(Token)
  OBVIOUS
<1>12. /\ d.rest \in Seq(Token)
       /\ \/ /\ d.result = "more" /\ d.rest = << >>
             /\ ParserAt(d.parser, r, asked) /\ r.req = p.req
          \/ /\ Leads(d.rest, At("start", p.req + 1), r, asked, ended)
             /\ Decided(d.parser, p.req, d.result, asked)
  BY <1>0, <1>8, <1>9, <1>10, <1>11 DEF ParsedTo
<1> QED
  BY <1>12 DEF d

----------------------------------------------------------------------------
(* Connection *)

Conns == [state : {"none", "managed", "freed"},
          socket : {"open", "shut", "closed"},
          ops : SUBSET {"read", "exec", "write"},
          parser : Parsers,
          buffer : Seq(Token),
          reply : Replies \cup {NoReply},
          armed : BOOLEAN, due : BOOLEAN, passed : BOOLEAN]

(* What is right to answer. *)
Right(a) == IF a.bad THEN "bad_request" ELSE Answer(a.kind)

(* A connection that answers request number n next, p being where in the    *)
(* stream the tokens begin that it has not parsed.  It waits for that       *)
(* request, executes it or writes its reply.                                *)
Holds(c, p, n, asked) ==
    \/ /\ c.ops = {"read"}
       /\ c.buffer = << >>
       /\ p.req = n
       /\ ParserAt(c.parser, p, asked)
    \/ /\ c.ops = {"exec"}
       /\ p = At("start", n + 1)
       /\ n \in 1..Len(asked)
       /\ ~asked[n].bad /\ asked[n].kind = "deferred"
       /\ c.parser.state = "start" /\ c.parser.req = n
    \/ /\ c.ops = {"write"}
       /\ p = At("start", n + 1)
       /\ n \in 1..Len(asked)
       /\ c.parser.state = "start"
       /\ c.reply = [req |-> n, what |-> Right(asked[n])]

IsRecord(c) ==
    c = [state |-> c.state, socket |-> c.socket, ops |-> c.ops, parser |-> c.parser,
         buffer |-> c.buffer, reply |-> c.reply, armed |-> c.armed, due |-> c.due,
         passed |-> c.passed]

LEMMA ConnRecord ==
    ASSUME NEW c \in Conns
    PROVE  IsRecord(c)
  BY DEF Conns, IsRecord

LEMMA AnswerType ==
    ASSUME NEW kind \in Kinds
    PROVE  Answer(kind) \in {"result", "rpc_error", "not_found"}
  BY HttpAssumption DEF Answer

(* A reply to a request that was asked. *)
LEMMA ReplyType ==
    ASSUME NEW asked \in Seq(Requests), Len(asked) <= MaxRequests, NEW n \in 1..Len(asked)
    PROVE  /\ [req |-> n, what |-> Right(asked[n])] \in Replies
           /\ [req |-> n, what |-> "bad_request"] \in Replies
<1>1. asked[n] \in Requests /\ n \in 1..MaxRequests
  BY HttpAssumption
<1>2. Right(asked[n]) \in {"result", "rpc_error", "not_found", "bad_request"}
  BY <1>1, AnswerType DEF Right, Requests
<1> QED
  BY <1>1, <1>2 DEF Replies

(* handle_exec(): what is left in the buffer is as it was. *)
LEMMA RepliedOK ==
    ASSUME NEW c \in Conns, c.ops = {}, NEW asked \in Seq(Requests), Len(asked) <= MaxRequests,
           NEW n \in 1..Len(asked), c.parser.state = "start"
    PROVE  LET d == Replied(c, n, Right(asked[n])) IN
           /\ d \in Conns
           /\ d.buffer = c.buffer /\ d.state = c.state /\ d.socket = c.socket
           /\ d.armed = c.armed /\ d.passed = c.passed
           /\ Holds(d, At("start", n + 1), n, asked)
<1> DEFINE reply == [req |-> n, what |-> Right(asked[n])]
           d == Replied(c, n, Right(asked[n]))
<1>1. reply \in Replies
  BY ReplyType
<1> HIDE DEF reply
<1>2. IsRecord(c)
  BY ConnRecord
<1>3. d = [c EXCEPT !.reply = reply, !.ops = c.ops \cup {"write"}]
  BY DEF Replied, reply
<1>4. c.ops \cup {"write"} = {"write"}
  OBVIOUS
<1> HIDE DEF d
<1>5. d = [state |-> c.state, socket |-> c.socket, ops |-> {"write"}, parser |-> c.parser,
           buffer |-> c.buffer, reply |-> reply, armed |-> c.armed, due |-> c.due,
           passed |-> c.passed]
  BY <1>2, <1>3, <1>4 DEF IsRecord
<1>6. d \in Conns
  BY <1>1, <1>5 DEF Conns
<1>7. Holds(d, At("start", n + 1), n, asked)
  BY <1>5 DEF Holds, reply
<1> QED
  BY <1>5, <1>6, <1>7 DEF d

(* dispatch() *)
LEMMA DispatchOK ==
    ASSUME NEW c \in Conns, c.ops = {}, NEW asked \in Seq(Requests), Len(asked) <= MaxRequests,
           NEW n \in 1..Len(asked), c.parser.state = "start", c.parser.req = n, ~asked[n].bad
    PROVE  LET d == Dispatch(c, n, asked[n].kind) IN
           /\ d \in Conns
           /\ d.buffer = c.buffer /\ d.state = c.state /\ d.socket = c.socket
           /\ d.armed = c.armed /\ d.passed = c.passed
           /\ Holds(d, At("start", n + 1), n, asked)
<1> DEFINE d == Dispatch(c, n, asked[n].kind)
<1>1. CASE asked[n].kind = "deferred"
  <2>1. IsRecord(c)
    BY ConnRecord
  <2>2. d = [c EXCEPT !.ops = c.ops \cup {"exec"}]
    BY <1>1 DEF Dispatch
  <2>3. c.ops \cup {"exec"} = {"exec"}
    OBVIOUS
  <2> HIDE DEF d
  <2>4. d = [state |-> c.state, socket |-> c.socket, ops |-> {"exec"}, parser |-> c.parser,
             buffer |-> c.buffer, reply |-> c.reply, armed |-> c.armed, due |-> c.due,
             passed |-> c.passed]
    BY <2>1, <2>2, <2>3 DEF IsRecord
  <2>5. d \in Conns
    BY <2>4 DEF Conns
  <2>6. Holds(d, At("start", n + 1), n, asked)
    BY <1>1, <2>4 DEF Holds
  <2> QED
    BY <2>4, <2>5, <2>6 DEF d
<1>2. CASE asked[n].kind # "deferred"
  <2>1. d = Replied(c, n, Right(asked[n]))
    BY <1>2 DEF Dispatch, Right
  <2> HIDE DEF d
  <2> QED
    BY <2>1, RepliedOK DEF d
<1> QED
  BY <1>1, <1>2

(* handle_read(): whatever part of the stream was read, the request that is *)
(* answered next is still the same.                                         *)
LEMMA HandleReadOK ==
    ASSUME NEW c \in Conns, c.ops = {}, NEW asked \in Seq(Requests), Len(asked) <= MaxRequests,
           NEW ended \in BOOLEAN, NEW p, NEW r, Leads(c.buffer, p, r, asked, ended),
           NEW n, ParserAt(c.parser, p, asked), p.req = n
    PROVE  LET d == HandleRead(c) IN
           /\ d \in Conns
           /\ d.state = c.state /\ d.socket = c.socket
           /\ ~d.armed /\ d.passed = c.passed
           /\ \E x : Leads(d.buffer, x, r, asked, ended) /\ Holds(d, x, n, asked)
<1> DEFINE k == Cancelled(c)
           parsed == Parse(k.parser, k.buffer)
           next == [k EXCEPT !.parser = parsed.parser, !.buffer = parsed.rest]
           d == HandleRead(c)
<1>1. c.buffer \in Seq(Token)
  BY DEF Conns
<1>2. d = CASE parsed.result = "more" -> [next EXCEPT !.ops = @ \cup {"read"}]
            [] parsed.result = "false" -> Replied(next, parsed.parser.req, "bad_request")
            [] parsed.result = "true" -> Dispatch(next, parsed.parser.req, parsed.parser.kind)
  BY DEF HandleRead
<1>3. IsRecord(c)
  BY ConnRecord
<1>4. next = [k EXCEPT !.parser = parsed.parser, !.buffer = parsed.rest]
  OBVIOUS
<1>5. k = [c EXCEPT !.armed = FALSE]
  BY DEF Cancelled
<1> HIDE DEF k
<1>6. k = [state |-> c.state, socket |-> c.socket, ops |-> c.ops, parser |-> c.parser,
            buffer |-> c.buffer, reply |-> c.reply, armed |-> FALSE, due |-> c.due,
            passed |-> c.passed]
  BY <1>3, <1>5 DEF IsRecord
<1>7. k.parser = c.parser /\ k.buffer = c.buffer
  BY <1>6
<1>8. /\ parsed.rest \in Seq(Token)
      /\ \/ /\ parsed.result = "more" /\ parsed.rest = << >>
            /\ ParserAt(parsed.parser, r, asked) /\ r.req = p.req
         \/ /\ Leads(parsed.rest, At("start", p.req + 1), r, asked, ended)
            /\ Decided(parsed.parser, p.req, parsed.result, asked)
  BY <1>1, <1>7, ParseOK
<1> HIDE DEF next, d, parsed
<1>9. next = [state |-> c.state, socket |-> c.socket, ops |-> {}, parser |-> parsed.parser,
              buffer |-> parsed.rest, reply |-> c.reply, armed |-> FALSE, due |-> c.due,
              passed |-> c.passed]
  BY <1>4, <1>6
<1>10. parsed.parser \in Parsers
  BY <1>8 DEF ParserAt, Decided
<1>11. next \in Conns
  BY <1>8, <1>9, <1>10 DEF Conns
<1>12. CASE /\ parsed.result = "more" /\ parsed.rest = << >>
            /\ ParserAt(parsed.parser, r, asked) /\ r.req = p.req
  <2>1. d = [next EXCEPT !.ops = next.ops \cup {"read"}]
    BY <1>2, <1>12
  <2>2. next.ops \cup {"read"} = {"read"}
    BY <1>9
  <2>3. d = [state |-> c.state, socket |-> c.socket, ops |-> {"read"}, parser |-> parsed.parser,
             buffer |-> << >>, reply |-> c.reply, armed |-> FALSE, due |-> c.due,
             passed |-> c.passed]
    BY <1>9, <1>12, <2>1, <2>2
  <2>4. d \in Conns
    BY <1>10, <1>12, <1>8, <2>3 DEF Conns
  <2>5. Holds(d, r, n, asked)
    BY <1>12, <2>3 DEF Holds
  <2>6. r \in Positions /\ Begun(r, asked, ended)
    BY <1>1, LeadsTypes
  <2>7. d.buffer = << >> /\ d.state = c.state /\ d.socket = c.socket /\ ~d.armed
        /\ d.passed = c.passed
    BY <2>3
  <2>8. Leads(d.buffer, r, r, asked, ended)
    BY <2>6, <2>7, LeadsEmpty
  <2> QED
    BY <2>4, <2>5, <2>7, <2>8 DEF d
<1>13. CASE /\ Leads(parsed.rest, At("start", p.req + 1), r, asked, ended)
            /\ Decided(parsed.parser, p.req, parsed.result, asked)
  <2>1. /\ n \in 1..Len(asked)
        /\ parsed.parser.state = "start" /\ parsed.parser.req = n
    BY <1>13 DEF Decided
  <2>2. next.ops = {} /\ next.parser = parsed.parser /\ next.buffer = parsed.rest
        /\ next.state = c.state /\ next.socket = c.socket /\ next.armed = FALSE
        /\ next.passed = c.passed
    BY <1>9
  <2>3. CASE parsed.result = "true"
    <3>1. ~asked[n].bad /\ parsed.parser.kind = asked[n].kind
      BY <1>13, <2>3 DEF Decided
    <3>2. d = Dispatch(next, n, asked[n].kind)
      BY <1>2, <2>1, <2>3, <3>1
    <3>3. /\ d \in Conns
          /\ d.buffer = next.buffer /\ d.state = next.state /\ d.socket = next.socket
          /\ d.armed = next.armed /\ d.passed = next.passed
          /\ Holds(d, At("start", n + 1), n, asked)
      BY <1>11, <2>1, <2>2, <3>1, <3>2, DispatchOK
    <3> QED
      BY <1>13, <2>2, <3>3 DEF d
  <2>4. CASE parsed.result = "false"
    <3>1. asked[n].bad
      BY <1>13, <2>4 DEF Decided
    <3>2. d = Replied(next, n, Right(asked[n]))
      BY <1>2, <2>1, <2>4, <3>1 DEF Right
    <3>3. /\ d \in Conns
          /\ d.buffer = next.buffer /\ d.state = next.state /\ d.socket = next.socket
          /\ d.armed = next.armed /\ d.passed = next.passed
          /\ Holds(d, At("start", n + 1), n, asked)
      BY <1>11, <2>1, <2>2, <3>2, RepliedOK
    <3> QED
      BY <1>13, <2>2, <3>3 DEF d
  <2> QED
    BY <1>13, <2>3, <2>4 DEF Decided
<1> QED
  BY <1>8, <1>12, <1>13

----------------------------------------------------------------------------
(* The requests of the clients                                              *)

(* The requests the clients send, and the parts of one they leave with. *)
Parts == {<< >>, <<"line">>, <<"line", "length">>}

(* What follows what in a request. *)
Shaped(shape) ==
    /\ shape \in Seq(Words)
    /\ \A i \in 1..Len(shape) :
          \/ i = 1 /\ shape[i] = "line"
          \/ i # 1 /\ shape[i] = "length" /\ shape[i - 1] = "line"
          \/ i # 1 /\ shape[i] = "blank" /\ shape[i - 1] = "line" /\ i = Len(shape)
          \/ i # 1 /\ shape[i] = "blank" /\ shape[i - 1] = "length" /\ i < Len(shape)
          \/ i # 1 /\ shape[i] = "payload" /\ shape[i - 1] = "blank" /\ i = Len(shape)
          \/ i = 1 /\ shape[i] = "control" /\ i = Len(shape)
          \/ i # 1 /\ shape[i] = "control" /\ shape[i - 1] \in {"line", "length"} /\ i = Len(shape)

(* Where the stream is after i tokens of request number n. *)
After(shape, i, n) ==
    IF i = 0 THEN At("start", n)
    ELSE IF shape[i] = "line" THEN At("header", n)
    ELSE IF shape[i] = "length" THEN At("sized", n)
    ELSE IF shape[i] = "blank" /\ i < Len(shape) THEN At("payload", n)
    ELSE At("start", n + 1)

(* What the tokens of a shape tell of the request. *)
Tells(shape, request) ==
    \A i \in 1..Len(shape) :
        /\ shape[i] = "blank" \/ shape[i] = "payload" => ~request.bad
        /\ shape[i] = "control" => request.bad

(* A request that is not over. *)
Unended(shape) == \A i \in 1..Len(shape) : shape[i] = "line" \/ shape[i] = "length"

LEMMA ShapesShaped ==
    ASSUME NEW shape \in Shapes, NEW request,
           Last(shape) = "control" => request.bad,
           Last(shape) # "control" => ~request.bad
    PROVE  /\ Shaped(shape) /\ Len(shape) # 0 /\ Tells(shape, request)
           /\ shape[Len(shape)] # "line" /\ shape[Len(shape)] # "length"
<1>1. CASE shape = <<"line", "blank">>
  <2>1. Len(shape) = 2 /\ shape[1] = "line" /\ shape[2] = "blank"
    BY <1>1
  <2>2. shape \in Seq(Words)
    BY <1>1 DEF Words
  <2>3. \A i \in 1..2 : i = 1 \/ i = 2
    OBVIOUS
  <2>4. Shaped(shape)
    BY <2>1, <2>2, <2>3 DEF Shaped
  <2>5. ~request.bad
    BY <2>1 DEF Last
  <2>6. Tells(shape, request)
    BY <2>1, <2>3, <2>5 DEF Tells
  <2> QED
    BY <2>1, <2>4, <2>6
<1>2. CASE shape = <<"line", "length", "blank", "payload">>
  <2>1. Len(shape) = 4 /\ shape[1] = "line" /\ shape[2] = "length" /\ shape[3] = "blank" /\ shape[4] = "payload"
    BY <1>2
  <2>2. shape \in Seq(Words)
    BY <1>2 DEF Words
  <2>3. \A i \in 1..4 : i = 1 \/ i = 2 \/ i = 3 \/ i = 4
    OBVIOUS
  <2>4. Shaped(shape)
    BY <2>1, <2>2, <2>3 DEF Shaped
  <2>5. ~request.bad
    BY <2>1 DEF Last
  <2>6. Tells(shape, request)
    BY <2>1, <2>3, <2>5 DEF Tells
  <2> QED
    BY <2>1, <2>4, <2>6
<1>3. CASE shape = <<"control">>
  <2>1. Len(shape) = 1 /\ shape[1] = "control"
    BY <1>3
  <2>2. shape \in Seq(Words)
    BY <1>3 DEF Words
  <2>3. \A i \in 1..1 : i = 1
    OBVIOUS
  <2>4. Shaped(shape)
    BY <2>1, <2>2, <2>3 DEF Shaped
  <2>5. request.bad
    BY <2>1 DEF Last
  <2>6. Tells(shape, request)
    BY <2>1, <2>3, <2>5 DEF Tells
  <2> QED
    BY <2>1, <2>4, <2>6
<1>4. CASE shape = <<"line", "control">>
  <2>1. Len(shape) = 2 /\ shape[1] = "line" /\ shape[2] = "control"
    BY <1>4
  <2>2. shape \in Seq(Words)
    BY <1>4 DEF Words
  <2>3. \A i \in 1..2 : i = 1 \/ i = 2
    OBVIOUS
  <2>4. Shaped(shape)
    BY <2>1, <2>2, <2>3 DEF Shaped
  <2>5. request.bad
    BY <2>1 DEF Last
  <2>6. Tells(shape, request)
    BY <2>1, <2>3, <2>5 DEF Tells
  <2> QED
    BY <2>1, <2>4, <2>6
<1>5. CASE shape = <<"line", "length", "control">>
  <2>1. Len(shape) = 3 /\ shape[1] = "line" /\ shape[2] = "length" /\ shape[3] = "control"
    BY <1>5
  <2>2. shape \in Seq(Words)
    BY <1>5 DEF Words
  <2>3. \A i \in 1..3 : i = 1 \/ i = 2 \/ i = 3
    OBVIOUS
  <2>4. Shaped(shape)
    BY <2>1, <2>2, <2>3 DEF Shaped
  <2>5. request.bad
    BY <2>1 DEF Last
  <2>6. Tells(shape, request)
    BY <2>1, <2>3, <2>5 DEF Tells
  <2> QED
    BY <2>1, <2>4, <2>6
<1> QED
  BY <1>1, <1>2, <1>3, <1>4, <1>5 DEF Shapes

LEMMA PartsShaped ==
    ASSUME NEW shape \in Parts
    PROVE  Shaped(shape) /\ Unended(shape)
<1>1. CASE shape = << >>
  <2>1. Len(shape) = 0 /\ shape \in Seq(Words) /\ \A i \in 1..0 : FALSE
    BY <1>1
  <2> QED
    BY <2>1 DEF Shaped, Unended
<1>2. CASE shape = <<"line">>
  <2>1. Len(shape) = 1 /\ shape[1] = "line" /\ shape \in Seq(Words) /\ \A i \in 1..1 : i = 1
    BY <1>2 DEF Words
  <2> QED
    BY <2>1 DEF Shaped, Unended
<1>3. CASE shape = <<"line", "length">>
  <2>1. Len(shape) = 2 /\ shape[1] = "line" /\ shape[2] = "length" /\ shape \in Seq(Words)
        /\ \A i \in 1..2 : i = 1 \/ i = 2
    BY <1>3 DEF Words
  <2> QED
    BY <2>1 DEF Shaped, Unended
<1> QED
  BY <1>1, <1>2, <1>3 DEF Parts

LEMMA TokensFacts ==
    ASSUME NEW shape \in Seq(Words), NEW n \in 1..MaxRequests, NEW kind \in Kinds
    PROVE  /\ Tokens(shape, n, kind) \in Seq(Token)
           /\ Len(Tokens(shape, n, kind)) = Len(shape)
           /\ \A i \in 1..Len(shape) :
                 Tokens(shape, n, kind)[i] = [req |-> n, word |-> shape[i], kind |-> kind]
<1> DEFINE s == Tokens(shape, n, kind)
<1>1. Len(shape) \in Nat /\ DOMAIN shape = 1..Len(shape)
  OBVIOUS
<1>2. s = [i \in 1..Len(shape) |-> [req |-> n, word |-> shape[i], kind |-> kind]]
  BY <1>1 DEF Tokens
<1>3. ASSUME NEW i \in 1..Len(shape)
      PROVE  [req |-> n, word |-> shape[i], kind |-> kind] \in Token
  BY <1>1 DEF Token
<1> HIDE DEF s
<1>4. s \in [1..Len(shape) -> Token]
  BY <1>2, <1>3
<1>5. s \in Seq(Token)
  BY <1>1, <1>4
<1>6. Len(s) = Len(shape)
  BY <1>1, <1>2, <1>5
<1> QED
  BY <1>2, <1>5, <1>6 DEF s

(* The tokens of request number n lead through it. *)
LEMMA TokensLead ==
    ASSUME NEW shape, Shaped(shape), NEW n \in 1..MaxRequests, NEW kind \in Kinds,
           NEW asked \in Seq(Requests), NEW ended \in BOOLEAN,
           \/ /\ n \in 1..Len(asked) /\ asked[n].kind = kind
              /\ Tells(shape, asked[n])
           \/ /\ n = Len(asked) + 1 /\ ended
              /\ Unended(shape)
    PROVE  Leads(Tokens(shape, n, kind), At("start", n), After(shape, Len(shape), n), asked, ended)
<1> DEFINE s == Tokens(shape, n, kind)
           q == [i \in 1..(Len(shape) + 1) |-> After(shape, i - 1, n)]
<1>0. n \in Nat /\ MaxRequests \in Nat /\ Len(asked) \in Nat
  BY HttpAssumption
<1>1. shape \in Seq(Words) /\ Len(shape) \in Nat
  BY DEF Shaped
<1>2. /\ s \in Seq(Token) /\ Len(s) = Len(shape)
      /\ \A i \in 1..Len(shape) : s[i] = [req |-> n, word |-> shape[i], kind |-> kind]
  BY <1>1, TokensFacts
<1>3. ASSUME NEW i \in 1..Len(shape)
       PROVE  s[i].req = n /\ s[i].word = shape[i] /\ s[i].kind = kind
  <2>1. s[i] = [req |-> n, word |-> shape[i], kind |-> kind]
    BY <1>2
  <2> HIDE DEF s
  <2> QED
    BY <2>1
<1>4. \A i \in 0..Len(shape) : After(shape, i, n) \in Positions
  BY <1>0 DEF After, Positions, At
<1>5. \A i \in 1..(Len(shape) + 1) : q[i] = After(shape, i - 1, n) /\ i - 1 \in 0..Len(shape)
  BY <1>1
<1>6. q \in [1..(Len(shape) + 1) -> Positions]
  BY <1>4, <1>5
<1> HIDE DEF s, q
<1>7. ASSUME NEW i \in 1..(Len(shape) + 1) PROVE Begun(q[i], asked, ended)
  <2>1. n \in 1..Len(asked) \/ ended
    OBVIOUS
  <2>2. q[i].state = "start" \/ q[i].req = n
    BY <1>5 DEF After, At
  <2> QED
    BY <2>1, <2>2 DEF Begun
<1>8. ASSUME NEW i \in 1..Len(shape) PROVE Moves(q[i], s[i], q[i + 1])
  <2>1. /\ i \in Nat /\ i <= Len(shape)
        /\ i \in 1..(Len(shape) + 1) /\ i + 1 \in 1..(Len(shape) + 1) /\ (i + 1) - 1 = i
    BY <1>1
  <2>2. q[i] = After(shape, i - 1, n) /\ q[i + 1] = After(shape, i, n)
    BY <1>5, <2>1
  <2>3. s[i].req = n /\ s[i].word = shape[i]
    BY <1>3
  <2>4. CASE i = 1 /\ shape[i] = "line"
    BY <2>2, <2>3, <2>4 DEF Moves, After, At
  <2>5. CASE i # 1 /\ shape[i] = "length" /\ shape[i - 1] = "line"
    BY <2>1, <2>2, <2>3, <2>5 DEF Moves, After, At
  <2>6. CASE i # 1 /\ shape[i] = "blank" /\ shape[i - 1] = "line" /\ i = Len(shape)
    BY <2>1, <2>2, <2>3, <2>6 DEF Moves, After, At
  <2>7. CASE i # 1 /\ shape[i] = "blank" /\ shape[i - 1] = "length" /\ i < Len(shape)
    BY <2>1, <2>2, <2>3, <2>7 DEF Moves, After, At
  <2>8. CASE i # 1 /\ shape[i] = "payload" /\ shape[i - 1] = "blank" /\ i = Len(shape)
    BY <1>1, <2>1, <2>2, <2>3, <2>8 DEF Moves, After, At
  <2>9. CASE i = 1 /\ shape[i] = "control" /\ i = Len(shape)
    BY <2>1, <2>2, <2>3, <2>9 DEF Moves, After, At
  <2>10. CASE i # 1 /\ shape[i] = "control" /\ shape[i - 1] \in {"line", "length"} /\ i = Len(shape)
    BY <2>1, <2>2, <2>3, <2>10 DEF Moves, After, At
  <2> QED
    BY <2>4, <2>5, <2>6, <2>7, <2>8, <2>9, <2>10 DEF Shaped
<1>9. ASSUME NEW i \in 1..Len(shape) PROVE Meant(s[i], asked, ended)
  <2>1. s[i].req = n /\ s[i].word = shape[i] /\ s[i].kind = kind
    BY <1>3
  <2>2. CASE n \in 1..Len(asked) /\ asked[n].kind = kind /\ Tells(shape, asked[n])
    <3>1. /\ shape[i] = "blank" \/ shape[i] = "payload" => ~asked[n].bad
          /\ shape[i] = "control" => asked[n].bad
      BY <2>2 DEF Tells
    <3> QED
      BY <2>1, <2>2, <3>1 DEF Meant
  <2>3. CASE n = Len(asked) + 1 /\ ended /\ Unended(shape)
    <3>1. shape[i] = "line" \/ shape[i] = "length"
      BY <2>3 DEF Unended
    <3>2. n \notin 1..Len(asked)
      BY <1>0, <2>3
    <3> QED
      BY <2>1, <2>3, <3>1, <3>2 DEF Meant
  <2> QED
    BY <2>2, <2>3
<1>10. IsPath(q, s, asked, ended)
  BY <1>2, <1>6, <1>7, <1>8, <1>9 DEF IsPath
<1>11. q[1] = At("start", n) /\ q[Len(s) + 1] = After(shape, Len(shape), n)
  <2>1. /\ 1 \in 1..(Len(shape) + 1) /\ Len(shape) + 1 \in 1..(Len(shape) + 1)
        /\ (Len(shape) + 1) - 1 = Len(shape)
    BY <1>1
  <2>2. q[1] = After(shape, 1 - 1, n) /\ q[Len(shape) + 1] = After(shape, Len(shape), n)
    BY <1>5, <2>1
  <2> QED
    BY <1>2, <2>2 DEF After
<1>12. Leads(s, At("start", n), After(shape, Len(shape), n), asked, ended)
  BY <1>10, <1>11 DEF Leads
<1> QED
  BY <1>12 DEF s

----------------------------------------------------------------------------
(* The inductive invariant                                                  *)

(* What TypeOK says, in these terms. *)
Types ==
    /\ server \in {"running", "stopping", "stopped"}
    /\ conn \in Conns
    /\ conn.state = "freed" => conn.socket = "closed" /\ conn.ops = {} /\ ~conn.armed
    /\ conn.armed => conn.ops = {"read"}
    /\ toServer \in Seq(Token)
    /\ sent \in Seq(Replies)
    /\ client \in [kind : Clients,
                   phase : {"connecting", "writing", "reading", "content", "done"},
                   asked : Seq(Requests), got : 0..MaxRequests]

(* The replies are right. *)
Answered(replies, asked) ==
    /\ Len(replies) <= Len(asked)
    /\ \A i \in 1..Len(replies) : replies[i] = [req |-> i, what |-> Right(asked[i])]

(* The stream through the buffer of the connection and the wire: request    *)
(* number n is the next to answer, and all that was asked is on the way.    *)
InStep(c, wire, n, asked, phase) ==
    \E p, x, e :
        /\ Leads(c.buffer, p, x, asked, phase = "done")
        /\ Leads(wire, x, e, asked, phase = "done")
        /\ Holds(c, p, n, asked)
        /\ phase = "writing" => e = At("start", Len(asked) + 1)

(* Nothing has happened. *)
Unborn ==
    /\ conn = [state |-> "none", socket |-> "open", ops |-> {}, parser |-> Reset,
               buffer |-> << >>, reply |-> NoReply,
               armed |-> FALSE, due |-> FALSE, passed |-> FALSE]
    /\ toServer = << >>
    /\ sent = << >>
    /\ client.asked = << >>
    /\ client.phase \in {"connecting", "done"}

(* The client of Client.cpp asks once, and nothing ends the stream before   *)
(* it has its reply.                                                        *)
CoinWaits ==
    /\ Len(client.asked) <= 1
    /\ client.phase \in {"connecting", "writing"} => client.asked = << >>
    /\ client.phase = "content" => client.got = 1
    /\ server = "running" /\ client.phase = "done" /\ conn.state # "none" => client.got = 1
    /\ server = "running" /\ client.phase # "done" =>
          (conn.armed \/ conn.passed \/ conn.socket # "open" => sent # << >>)

HInv ==
    /\ Types
    /\ Len(client.asked) <= MaxRequests
    /\ Answered(sent, client.asked)
    /\ conn.state = "none" => Unborn
    /\ conn.state = "managed" =>
          InStep(conn, toServer, Len(sent) + 1, client.asked, client.phase)
    /\ client.phase = "connecting" =>
          conn.state # "managed" /\ (server = "running" => conn.state = "none")
    /\ client.kind = "coin" => CoinWaits

(* The invariant says what the run checks. *)
LEMMA HInvTypes == Types <=> TypeOK
  BY DEF Types, TypeOK, Conns, Parsers, Requests

LEMMA HInvSound == HInv => RepliesAreSound
<1> SUFFICES ASSUME HInv PROVE RepliesAreSound
  OBVIOUS
<1>1. TypeOK
  BY HInvTypes DEF HInv
<1>2. RepliesInOrder
  <2>1. ASSUME NEW i \in DOMAIN sent
        PROVE  /\ sent[i].req = i
               /\ sent[i].what = IF client.asked[i].bad THEN "bad_request"
                                 ELSE Answer(client.asked[i].kind)
    <3>1. i \in 1..Len(sent)
      BY DEF HInv, Types
    <3>2. sent[i] = [req |-> i, what |-> Right(client.asked[i])]
      BY <3>1 DEF HInv, Answered
    <3> QED
      BY <3>2 DEF Right
  <2> QED
    BY <2>1 DEF RepliesInOrder
<1>3. OneOperation
  BY DEF OneOperation, HInv, InStep, Holds
<1>4. CoinIsAnswered
  BY DEF CoinIsAnswered, HInv, CoinWaits
<1> QED
  BY <1>1, <1>2, <1>3, <1>4 DEF RepliesAreSound

LEMMA InitHInv == Init => HInv
<1> SUFFICES ASSUME Init PROVE HInv
  OBVIOUS
<1>1. PICK kind \in Clients :
        client = [kind |-> kind, phase |-> "connecting", asked |-> << >>, got |-> 0]
  BY DEF Init
<1>2. /\ conn.state = "none" /\ conn.armed = FALSE /\ conn.passed = FALSE
      /\ conn.socket = "open" /\ Len(sent) = 0 /\ Len(client.asked) = 0
      /\ client.phase = "connecting" /\ client.asked = << >>
  BY <1>1 DEF Init
<1>3. 0 \in 0..MaxRequests /\ MaxRequests \in Nat
  BY HttpAssumption
<1>4. Reset \in Parsers
  BY <1>3 DEF Reset, Parsers
<1>5. conn \in Conns
  BY <1>4 DEF Init, Conns
<1>6. Types
  BY <1>1, <1>2, <1>3, <1>5 DEF Init, Types
<1>7. Answered(sent, client.asked)
  BY <1>2 DEF Answered
<1>8. Unborn
  BY <1>2 DEF Init, Unborn
<1>9. CoinWaits
  BY <1>2 DEF CoinWaits
<1> QED
  BY <1>2, <1>3, <1>6, <1>7, <1>8, <1>9 DEF HInv

(* What is known of a managed connection. *)
LEMMA ManagedFacts ==
    ASSUME HInv, NEW op \in {"read", "exec", "write"}, op \in conn.ops
    PROVE  /\ conn.state = "managed" /\ conn.ops = {op}
           /\ conn \in Conns /\ IsRecord(conn)
           /\ client.phase # "connecting"
<1>1. conn \in Conns
  BY DEF HInv, Types
<1>2. conn.state = "managed"
  BY <1>1 DEF HInv, Types, Unborn, Conns
<1> QED
  BY <1>1, <1>2, ConnRecord DEF HInv, InStep, Holds

LEMMA ClientFacts ==
    ASSUME HInv
    PROVE  /\ client.asked \in Seq(Requests) /\ Len(client.asked) \in Nat
           /\ Len(client.asked) <= MaxRequests
           /\ Len(sent) \in Nat /\ Len(sent) <= Len(client.asked)
           /\ (client.phase = "done") \in BOOLEAN
           /\ client = [kind |-> client.kind, phase |-> client.phase,
                        asked |-> client.asked, got |-> client.got]
  BY DEF HInv, Types, Answered

----------------------------------------------------------------------------
(* The handlers                                                             *)

(* A handler after which the connection goes on. *)
LEMMA GoesOn ==
    ASSUME HInv, conn.state = "managed", client' = client,
           conn' \in Conns, conn'.state = "managed",
           conn'.armed => conn'.ops = {"read"},
           toServer' \in Seq(Token), sent' \in Seq(Replies),
           Answered(sent', client.asked),
           InStep(conn', toServer', Len(sent') + 1, client.asked, client.phase),
           server' \in {"running", "stopping", "stopped"},
           server' = "running" => server = "running",
           (conn'.armed \/ conn'.passed \/ conn'.socket # "open") =>
               \/ sent' # << >>
               \/ sent' = sent /\ (conn.armed \/ conn.passed \/ conn.socket # "open")
    PROVE  HInv'
<1>1. Types'
  BY DEF HInv, Types
<1>2. client.phase # "connecting"
  BY DEF HInv
<1>3. client.kind = "coin" => CoinWaits'
  BY DEF HInv, CoinWaits
<1> QED
  BY <1>1, <1>2, <1>3 DEF HInv

LEMMA ReadFacts ==
    ASSUME NEW c \in Conns, c.ops = {"read"}, NEW s
    PROVE  [c EXCEPT !.ops = @ \ {"read"}, !.buffer = s]
             = [state |-> c.state, socket |-> c.socket, ops |-> {}, parser |-> c.parser,
                buffer |-> s, reply |-> c.reply, armed |-> c.armed, due |-> c.due,
                passed |-> c.passed]
<1>1. IsRecord(c)
  BY ConnRecord
<1> DEFINE d == [c EXCEPT !.ops = @ \ {"read"}, !.buffer = s]
           ops == c.ops \ {"read"}
<1>2. d = [c EXCEPT !.ops = ops, !.buffer = s]
  OBVIOUS
<1>3. ops = {}
  OBVIOUS
<1> HIDE DEF d, ops
<1>4. d = [state |-> c.state, socket |-> c.socket, ops |-> ops, parser |-> c.parser,
           buffer |-> s, reply |-> c.reply, armed |-> c.armed, due |-> c.due,
           passed |-> c.passed]
  BY <1>1, <1>2 DEF IsRecord
<1> QED
  BY <1>3, <1>4 DEF d

LEMMA ReadInv ==
    ASSUME HInv, NEW n \in 1..Len(toServer), Read(n)
    PROVE  HInv'
<1> DEFINE a == client.asked
           over == client.phase = "done"
           c == [conn EXCEPT !.ops = @ \ {"read"}, !.buffer = SubSeq(toServer, 1, n)]
<1>1. /\ "read" \in conn.ops
      /\ conn' = HandleRead(c)
      /\ toServer' = SubSeq(toServer, n + 1, Len(toServer))
      /\ Stops(conn, conn') /\ Running
      /\ UNCHANGED <<sent, client>>
  BY DEF Read
<1>2. conn.state = "managed" /\ conn.ops = {"read"} /\ conn \in Conns /\ IsRecord(conn)
  BY <1>1, ManagedFacts
<1>3. toServer \in Seq(Token) /\ Len(toServer) \in Nat /\ n \in 0..Len(toServer)
      /\ n \in Nat /\ n <= Len(toServer)
  BY DEF HInv, Types
<1>4. PICK p, x, e :
        /\ Leads(conn.buffer, p, x, a, over)
        /\ Leads(toServer, x, e, a, over)
        /\ Holds(conn, p, Len(sent) + 1, a)
        /\ client.phase = "writing" => e = At("start", Len(a) + 1)
  BY <1>2 DEF HInv, InStep
<1>5. conn.buffer = << >> /\ p.req = Len(sent) + 1 /\ ParserAt(conn.parser, p, a)
  BY <1>2, <1>4 DEF Holds
<1>6. p = x
  BY <1>4, <1>5, LeadsNowhere
<1>7. PICK m : /\ Leads(SubSeq(toServer, 1, n), p, m, a, over)
               /\ Leads(SubSeq(toServer, n + 1, Len(toServer)), m, e, a, over)
  BY <1>3, <1>4, <1>6, LeadsCut
<1>8. /\ SubSeq(toServer, 0 + 1, n) \in Seq(Token)
      /\ SubSeq(toServer, n + 1, Len(toServer)) \in Seq(Token)
  BY <1>3, PartFacts
<1>9. c = [state |-> conn.state, socket |-> conn.socket, ops |-> {}, parser |-> conn.parser,
            buffer |-> SubSeq(toServer, 1, n), reply |-> conn.reply, armed |-> conn.armed,
            due |-> conn.due, passed |-> conn.passed]
  BY <1>2, ReadFacts
<1> HIDE DEF c
<1>10. c \in Conns
  BY <1>2, <1>8, <1>9 DEF Conns
<1>11. c.ops = {} /\ c.buffer = SubSeq(toServer, 1, n) /\ c.parser = conn.parser
       /\ c.state = "managed" /\ c.socket = conn.socket /\ c.passed = conn.passed
  BY <1>2, <1>9
<1>12. a \in Seq(Requests) /\ Len(a) <= MaxRequests /\ over \in BOOLEAN
  BY ClientFacts
<1> HIDE DEF a, over
<1>13. /\ HandleRead(c) \in Conns
       /\ HandleRead(c).state = "managed" /\ HandleRead(c).socket = conn.socket
       /\ ~HandleRead(c).armed /\ HandleRead(c).passed = conn.passed
       /\ \E y : /\ Leads(HandleRead(c).buffer, y, m, a, over)
                 /\ Holds(HandleRead(c), y, Len(sent) + 1, a)
  BY <1>5, <1>7, <1>10, <1>11, <1>12, HandleReadOK
<1>14. InStep(conn', toServer', Len(sent') + 1, a, client.phase)
  BY <1>1, <1>4, <1>7, <1>13 DEF InStep, over
<1>15. server' \in {"running", "stopping", "stopped"} /\ (server' = "running" => server = "running")
  BY <1>1 DEF Stops, HInv, Types
<1>16. Answered(sent', client.asked) /\ sent' \in Seq(Replies)
  BY <1>1 DEF HInv, Types
<1> QED
  BY <1>1, <1>2, <1>8, <1>13, <1>14, <1>15, <1>16, GoesOn DEF a

LEMMA StoppedFacts ==
    ASSUME NEW c \in Conns
    PROVE  Stopped(c) = [state |-> "freed", socket |-> "closed", ops |-> {}, parser |-> c.parser,
                         buffer |-> c.buffer, reply |-> c.reply, armed |-> FALSE, due |-> c.due,
                         passed |-> c.passed]
<1> DEFINE k == Cancelled(c)
<1>1. IsRecord(c)
  BY ConnRecord
<1>2. k = [c EXCEPT !.armed = FALSE]
  BY DEF Cancelled
<1>3. Stopped(c) = [k EXCEPT !.state = "freed", !.socket = "closed", !.ops = {}]
  BY DEF Stopped
<1> HIDE DEF k
<1>4. k = [state |-> c.state, socket |-> c.socket, ops |-> c.ops, parser |-> c.parser,
           buffer |-> c.buffer, reply |-> c.reply, armed |-> FALSE, due |-> c.due,
           passed |-> c.passed]
  BY <1>1, <1>2 DEF IsRecord
<1> QED
  BY <1>3, <1>4

(* A connection that is given up. *)
LEMMA StoppedInv ==
    ASSUME HInv, conn' = Stopped(conn), UNCHANGED <<toServer, sent, client>>,
           server' \in {"running", "stopping", "stopped"},
           server' = "running" =>
               /\ server = "running" /\ conn.state = "managed"
               /\ client.kind = "coin" => client.phase = "done" \/ sent # << >>
    PROVE  HInv'
<1>1. conn \in Conns
  BY DEF HInv, Types
<1>2. conn' = [state |-> "freed", socket |-> "closed", ops |-> {}, parser |-> conn.parser,
               buffer |-> conn.buffer, reply |-> conn.reply, armed |-> FALSE, due |-> conn.due,
               passed |-> conn.passed]
  BY <1>1, StoppedFacts
<1>3. conn' \in Conns
  BY <1>1, <1>2 DEF Conns
<1>4. conn'.state = "freed" /\ conn'.socket = "closed" /\ conn'.ops = {} /\ conn'.armed = FALSE
  BY <1>2
<1>5. Types'
  BY <1>3, <1>4 DEF HInv, Types
<1>6. client.phase = "connecting" => server' # "running"
  BY DEF HInv
<1>7. client.kind = "coin" => CoinWaits'
  BY <1>4 DEF HInv, CoinWaits
<1> QED
  BY <1>4, <1>5, <1>6, <1>7 DEF HInv

LEMMA ReadEndsInv == HInv /\ ReadEnds => HInv'
<1> SUFFICES ASSUME HInv, ReadEnds PROVE HInv'
  OBVIOUS
<1>1. /\ "read" \in conn.ops
      /\ conn.socket = "shut" \/ client.phase = "done"
      /\ conn' = Stopped(conn) /\ UNCHANGED <<server, toServer, sent, client>>
  BY DEF ReadEnds, Ended
<1>2. conn.state = "managed" /\ server \in {"running", "stopping", "stopped"}
  BY <1>1, ManagedFacts DEF HInv, Types
<1>3. server = "running" /\ client.kind = "coin" => client.phase = "done" \/ sent # << >>
  BY <1>1 DEF HInv, CoinWaits
<1> QED
  BY <1>1, <1>2, <1>3, StoppedInv

LEMMA WriteFailsInv == HInv /\ WriteFails => HInv'
<1> SUFFICES ASSUME HInv, WriteFails PROVE HInv'
  OBVIOUS
<1>1. /\ "write" \in conn.ops
      /\ conn.socket = "shut" \/ client.phase = "done"
      /\ conn' = Stopped(conn) /\ UNCHANGED <<server, toServer, sent, client>>
  BY DEF WriteFails, WriteFailed, Ended
<1>2. conn.state = "managed" /\ server \in {"running", "stopping", "stopped"}
  BY <1>1, ManagedFacts DEF HInv, Types
<1>3. server = "running" /\ client.kind = "coin" => client.phase = "done" \/ sent # << >>
  BY <1>1 DEF HInv, CoinWaits
<1> QED
  BY <1>1, <1>2, <1>3, StoppedInv

LEMMA HandleStopInv == HInv /\ HandleStop => HInv'
  BY StoppedInv DEF HandleStop

(* A method that was executed on another thread is answered. *)
LEMMA ExecFacts ==
    ASSUME NEW c \in Conns, c.ops = {"exec"}
    PROVE  [c EXCEPT !.ops = @ \ {"exec"}]
             = [state |-> c.state, socket |-> c.socket, ops |-> {}, parser |-> c.parser,
                buffer |-> c.buffer, reply |-> c.reply, armed |-> c.armed, due |-> c.due,
                passed |-> c.passed]
<1>1. IsRecord(c)
  BY ConnRecord
<1>2. c.ops \ {"exec"} = {}
  OBVIOUS
<1> QED
  BY <1>1, <1>2 DEF IsRecord

LEMMA ExecInv == HInv /\ Exec => HInv'
<1> SUFFICES ASSUME HInv, Exec PROVE HInv'
  OBVIOUS
<1> DEFINE a == client.asked
           over == client.phase = "done"
           n == Len(sent) + 1
           c == [conn EXCEPT !.ops = @ \ {"exec"}]
<1>1. /\ "exec" \in conn.ops
      /\ conn' = Replied(c, conn.parser.req, "result")
      /\ UNCHANGED <<server, toServer, sent, client>>
  BY DEF Exec
<1>2. conn.state = "managed" /\ conn.ops = {"exec"} /\ conn \in Conns
  BY <1>1, ManagedFacts
<1>3. PICK p, x, e :
        /\ Leads(conn.buffer, p, x, a, over)
        /\ Leads(toServer, x, e, a, over)
        /\ Holds(conn, p, n, a)
        /\ client.phase = "writing" => e = At("start", Len(a) + 1)
  BY <1>2 DEF HInv, InStep
<1>4. a \in Seq(Requests) /\ Len(a) <= MaxRequests
  BY ClientFacts
<1> HIDE DEF a, over, n, c
<1>5. /\ p = At("start", n + 1) /\ n \in 1..Len(a)
      /\ ~a[n].bad /\ a[n].kind = "deferred"
      /\ conn.parser.state = "start" /\ conn.parser.req = n
  BY <1>2, <1>3 DEF Holds
<1>6. Right(a[n]) = "result"
  BY <1>5 DEF Right, Answer
<1>7. c = [state |-> conn.state, socket |-> conn.socket, ops |-> {}, parser |-> conn.parser,
           buffer |-> conn.buffer, reply |-> conn.reply, armed |-> conn.armed,
           due |-> conn.due, passed |-> conn.passed]
  BY <1>2, ExecFacts DEF c
<1>8. c \in Conns
  BY <1>2, <1>7 DEF Conns
<1>9. c.ops = {} /\ c.parser = conn.parser /\ c.buffer = conn.buffer /\ c.state = conn.state
      /\ c.socket = conn.socket /\ c.armed = conn.armed /\ c.passed = conn.passed
  BY <1>7
<1>10. conn' = Replied(c, n, Right(a[n]))
  BY <1>1, <1>5, <1>6
<1>11. /\ conn' \in Conns
       /\ conn'.buffer = conn.buffer /\ conn'.state = "managed" /\ conn'.socket = conn.socket
       /\ conn'.armed = conn.armed /\ conn'.passed = conn.passed
       /\ Holds(conn', At("start", n + 1), n, a)
  BY <1>2, <1>4, <1>5, <1>8, <1>9, <1>10, RepliedOK
<1>12. InStep(conn', toServer', Len(sent') + 1, a, client.phase)
  BY <1>1, <1>3, <1>5, <1>11 DEF InStep, over, n
<1>13. ~conn.armed
  BY <1>2 DEF HInv, Types
<1>14. /\ Answered(sent', client.asked) /\ sent' \in Seq(Replies) /\ toServer' \in Seq(Token)
       /\ server' \in {"running", "stopping", "stopped"}
  BY <1>1 DEF HInv, Types
<1> QED
  BY <1>1, <1>2, <1>11, <1>12, <1>13, <1>14, GoesOn DEF a

(* The keep-alive timer is started for a connection that has written. *)
LEMMA KeptAliveFacts ==
    ASSUME NEW c \in Conns, c.ops = {"write"}
    PROVE  KeptAlive([c EXCEPT !.ops = @ \ {"write"}])
             = [state |-> c.state, socket |-> c.socket, ops |-> {}, parser |-> c.parser,
                buffer |-> c.buffer, reply |-> c.reply, armed |-> TRUE, due |-> c.due,
                passed |-> FALSE]
<1> DEFINE d == [c EXCEPT !.ops = @ \ {"write"}]
           e == KeptAlive(d)
<1>1. IsRecord(c)
  BY ConnRecord
<1>2. c.ops \ {"write"} = {}
  OBVIOUS
<1>3. d = [state |-> c.state, socket |-> c.socket, ops |-> {}, parser |-> c.parser,
           buffer |-> c.buffer, reply |-> c.reply, armed |-> c.armed, due |-> c.due,
           passed |-> c.passed]
  BY <1>1, <1>2 DEF IsRecord
<1>4. e = [d EXCEPT !.armed = TRUE, !.passed = FALSE]
  BY DEF KeptAlive
<1> HIDE DEF d, e
<1>5. e = [state |-> c.state, socket |-> c.socket, ops |-> {}, parser |-> c.parser,
           buffer |-> c.buffer, reply |-> c.reply, armed |-> TRUE, due |-> c.due,
           passed |-> FALSE]
  BY <1>3, <1>4
<1> QED
  BY <1>5 DEF d, e

(* handle_write() takes up the next request, in the buffer or to be read. *)
LEMMA ContinueOK ==
    ASSUME NEW c \in Conns, c.ops = {}, NEW asked \in Seq(Requests), Len(asked) <= MaxRequests,
           NEW ended \in BOOLEAN, NEW p, NEW r, Leads(c.buffer, p, r, asked, ended),
           NEW n, ParserAt(c.parser, p, asked), p.req = n
    PROVE  LET d == Continue(c) IN
           /\ d \in Conns
           /\ d.state = c.state
           /\ d.armed => d.ops = {"read"}
           /\ \E x : Leads(d.buffer, x, r, asked, ended) /\ Holds(d, x, n, asked)
<1> DEFINE d == Continue(c)
<1>1. CASE c.buffer # << >>
  <2>1. d = HandleRead(c)
    BY <1>1 DEF Continue
  <2>2. /\ HandleRead(c) \in Conns /\ HandleRead(c).state = c.state /\ ~HandleRead(c).armed
        /\ \E x : /\ Leads(HandleRead(c).buffer, x, r, asked, ended)
                 /\ Holds(HandleRead(c), x, n, asked)
    BY HandleReadOK
  <2> HIDE DEF d
  <2>3. /\ d \in Conns /\ d.state = c.state /\ ~d.armed
        /\ \E x : Leads(d.buffer, x, r, asked, ended) /\ Holds(d, x, n, asked)
    BY <2>1, <2>2
  <2> QED
    BY <2>3 DEF d
<1>2. CASE c.buffer = << >>
  <2>1. IsRecord(c)
    BY ConnRecord
  <2>2. d = [c EXCEPT !.ops = c.ops \cup {"read"}]
    BY <1>2 DEF Continue
  <2>3. c.ops \cup {"read"} = {"read"}
    OBVIOUS
  <2> HIDE DEF d
  <2>4. d = [state |-> c.state, socket |-> c.socket, ops |-> {"read"}, parser |-> c.parser,
             buffer |-> c.buffer, reply |-> c.reply, armed |-> c.armed, due |-> c.due,
             passed |-> c.passed]
    BY <2>1, <2>2, <2>3 DEF IsRecord
  <2>5. d \in Conns
    BY <2>4 DEF Conns
  <2>6. Holds(d, p, n, asked)
    BY <1>2, <2>4 DEF Holds
  <2>7. d.state = c.state /\ d.ops = {"read"} /\ d.buffer = c.buffer
    BY <2>4
  <2>8. \E x : Leads(d.buffer, x, r, asked, ended) /\ Holds(d, x, n, asked)
    BY <2>6, <2>7
  <2> QED
    BY <2>5, <2>7, <2>8 DEF d
<1> QED
  BY <1>1, <1>2

LEMMA AnsweredMore ==
    ASSUME NEW replies \in Seq(Replies), NEW asked \in Seq(Requests), Answered(replies, asked),
           NEW reply \in Replies, Len(replies) + 1 \in 1..Len(asked),
           reply = [req |-> Len(replies) + 1, what |-> Right(asked[Len(replies) + 1])]
    PROVE  /\ Append(replies, reply) \in Seq(Replies)
           /\ Len(Append(replies, reply)) = Len(replies) + 1
           /\ Append(replies, reply) # << >>
           /\ Answered(Append(replies, reply), asked)
<1> DEFINE s == Append(replies, reply)
<1>1. Len(replies) \in Nat /\ Len(asked) \in Nat
  OBVIOUS
<1>2. /\ s \in Seq(Replies) /\ Len(s) = Len(replies) + 1
      /\ \A i \in 1..Len(replies) : s[i] = replies[i]
      /\ s[Len(replies) + 1] = reply
  OBVIOUS
<1> HIDE DEF s
<1>3. s # << >>
  BY <1>1, <1>2
<1>4. ASSUME NEW i \in 1..Len(s)
      PROVE  s[i] = [req |-> i, what |-> Right(asked[i])]
  <2>1. CASE i = Len(replies) + 1
    BY <1>2, <2>1
  <2>2. CASE i # Len(replies) + 1
    <3>1. i \in 1..Len(replies)
      BY <1>1, <1>2, <2>2
    <3> QED
      BY <1>2, <3>1 DEF Answered
  <2> QED
    BY <2>1, <2>2
<1>5. Answered(s, asked)
  BY <1>1, <1>2, <1>4 DEF Answered
<1> QED
  BY <1>2, <1>3, <1>5 DEF s

LEMMA WriteInv == HInv /\ Write => HInv'
<1> SUFFICES ASSUME HInv, Write PROVE HInv'
  OBVIOUS
<1> DEFINE a == client.asked
           over == client.phase = "done"
           n == Len(sent) + 1
           c == KeptAlive([conn EXCEPT !.ops = @ \ {"write"}])
<1>1. /\ "write" \in conn.ops
      /\ sent' = Append(sent, conn.reply)
      /\ conn' = Continue(c)
      /\ Stops(conn, conn') /\ Running
      /\ UNCHANGED <<toServer, client>>
  BY DEF Write
<1>2. conn.state = "managed" /\ conn.ops = {"write"} /\ conn \in Conns
  BY <1>1, ManagedFacts
<1>3. PICK p, x, e :
        /\ Leads(conn.buffer, p, x, a, over)
        /\ Leads(toServer, x, e, a, over)
        /\ Holds(conn, p, n, a)
        /\ client.phase = "writing" => e = At("start", Len(a) + 1)
  BY <1>2 DEF HInv, InStep
<1>4. a \in Seq(Requests) /\ Len(a) <= MaxRequests /\ over \in BOOLEAN
  BY ClientFacts
<1>5. sent \in Seq(Replies) /\ Answered(sent, a)
  BY DEF HInv, Types
<1> HIDE DEF a, over, c
<1>6. /\ p = At("start", n + 1) /\ n \in 1..Len(a)
      /\ conn.parser.state = "start"
      /\ conn.reply = [req |-> n, what |-> Right(a[n])]
  BY <1>2, <1>3 DEF Holds
<1>7. conn.reply \in Replies
  BY <1>4, <1>6, ReplyType
<1>8. /\ sent' \in Seq(Replies) /\ Len(sent') = n /\ sent' # << >>
      /\ Answered(sent', a)
  BY <1>1, <1>4, <1>5, <1>6, <1>7, AnsweredMore
<1> HIDE DEF n
<1>9. c = [state |-> conn.state, socket |-> conn.socket, ops |-> {}, parser |-> conn.parser,
           buffer |-> conn.buffer, reply |-> conn.reply, armed |-> TRUE,
           due |-> conn.due, passed |-> FALSE]
  BY <1>2, KeptAliveFacts DEF c
<1>10. c \in Conns
  BY <1>2, <1>9 DEF Conns
<1>11. c.ops = {} /\ c.parser = conn.parser /\ c.buffer = conn.buffer /\ c.state = "managed"
  BY <1>2, <1>9
<1>12. ParserAt(c.parser, p, a) /\ p.req = n + 1
  BY <1>2, <1>6, <1>11 DEF ParserAt, At, Conns
<1>13. /\ Continue(c) \in Conns
       /\ Continue(c).state = "managed"
       /\ Continue(c).armed => Continue(c).ops = {"read"}
       /\ \E y : Leads(Continue(c).buffer, y, x, a, over) /\ Holds(Continue(c), y, n + 1, a)
  BY <1>3, <1>4, <1>10, <1>11, <1>12, ContinueOK
<1>14. InStep(conn', toServer', Len(sent') + 1, a, client.phase)
  BY <1>1, <1>3, <1>8, <1>13 DEF InStep, over
<1>15. /\ toServer' \in Seq(Token)
       /\ server' \in {"running", "stopping", "stopped"} /\ (server' = "running" => server = "running")
  BY <1>1 DEF Stops, HInv, Types
<1> QED
  BY <1>1, <1>2, <1>8, <1>13, <1>14, <1>15, GoesOn DEF a

----------------------------------------------------------------------------
(* The timer and the server                                                 *)

(* What the timer sets is not what is answered. *)
LEMMA InStepSame ==
    ASSUME NEW c, NEW d, NEW wire, NEW n, NEW asked, NEW phase, InStep(c, wire, n, asked, phase),
           d.ops = c.ops, d.buffer = c.buffer, d.parser = c.parser, d.reply = c.reply
    PROVE  InStep(d, wire, n, asked, phase)
<1>1. ASSUME NEW p, Holds(c, p, n, asked) PROVE Holds(d, p, n, asked)
  BY <1>1 DEF Holds
<1> QED
  BY <1>1 DEF InStep

LEMMA TimeoutFacts ==
    ASSUME NEW c \in Conns, NEW socket \in {"open", "shut", "closed"}
    PROVE  LET d == [c EXCEPT !.due = FALSE, !.socket = socket] IN
           /\ d \in Conns
           /\ d.state = c.state /\ d.socket = socket /\ d.ops = c.ops /\ d.parser = c.parser
           /\ d.buffer = c.buffer /\ d.reply = c.reply /\ d.armed = c.armed
           /\ d.passed = c.passed
<1> DEFINE d == [c EXCEPT !.due = FALSE, !.socket = socket]
<1>1. IsRecord(c) /\ d = [c EXCEPT !.due = FALSE, !.socket = socket]
  BY ConnRecord
<1> HIDE DEF d
<1>2. d = [state |-> c.state, socket |-> socket, ops |-> c.ops, parser |-> c.parser,
           buffer |-> c.buffer, reply |-> c.reply, armed |-> c.armed, due |-> FALSE,
           passed |-> c.passed]
  BY <1>1 DEF IsRecord
<1>3. d \in Conns
  BY <1>2 DEF Conns
<1>4. /\ d.state = c.state /\ d.socket = socket /\ d.ops = c.ops /\ d.parser = c.parser
      /\ d.buffer = c.buffer /\ d.reply = c.reply /\ d.armed = c.armed
      /\ d.passed = c.passed
  BY <1>2
<1> QED
  BY <1>3, <1>4 DEF d

LEMMA HandleTimeoutInv == HInv /\ HandleTimeout => HInv'
<1> SUFFICES ASSUME HInv, HandleTimeout PROVE HInv'
  OBVIOUS
<1> DEFINE socket == IF conn.passed THEN "shut" ELSE conn.socket
<1>1. /\ conn.state = "managed"
      /\ conn' = [conn EXCEPT !.due = FALSE, !.socket = socket]
      /\ UNCHANGED <<server, toServer, sent, client>>
  BY DEF HandleTimeout
<1>2. conn \in Conns
  BY DEF HInv, Types
<1>3. socket \in {"open", "shut", "closed"} /\ (socket # "open" => conn.passed \/ conn.socket # "open")
  BY <1>2 DEF Conns
<1> HIDE DEF socket
<1>4. /\ conn' \in Conns
      /\ conn'.state = conn.state /\ conn'.socket = socket /\ conn'.ops = conn.ops
      /\ conn'.parser = conn.parser /\ conn'.buffer = conn.buffer /\ conn'.reply = conn.reply
      /\ conn'.armed = conn.armed /\ conn'.passed = conn.passed
  BY <1>1, <1>2, <1>3, TimeoutFacts
<1>5. InStep(conn, toServer, Len(sent) + 1, client.asked, client.phase)
  BY <1>1 DEF HInv
<1>6. InStep(conn', toServer', Len(sent') + 1, client.asked, client.phase)
  BY <1>1, <1>4, <1>5, InStepSame
<1> QED
  BY <1>1, <1>3, <1>4, <1>6, GoesOn DEF HInv, Types

LEMMA TimerExpiresInv == HInv /\ TimerExpires => HInv'
<1> SUFFICES ASSUME HInv, TimerExpires PROVE HInv'
  OBVIOUS
<1>1. /\ conn.armed
      /\ conn' = [conn EXCEPT !.armed = FALSE, !.due = TRUE, !.passed = TRUE]
      /\ UNCHANGED <<server, toServer, sent, client>>
  BY DEF TimerExpires
<1>2. conn \in Conns /\ conn.state = "managed"
  BY <1>1, ManagedFacts DEF HInv, Types
<1>3. IsRecord(conn)
  BY <1>2, ConnRecord
<1>4. conn' = [state |-> conn.state, socket |-> conn.socket, ops |-> conn.ops,
               parser |-> conn.parser, buffer |-> conn.buffer, reply |-> conn.reply,
               armed |-> FALSE, due |-> TRUE, passed |-> TRUE]
  BY <1>1, <1>3 DEF IsRecord
<1>5. conn' \in Conns
  BY <1>2, <1>4 DEF Conns
<1>6. InStep(conn', toServer', Len(sent') + 1, client.asked, client.phase)
  <2>1. InStep(conn, toServer, Len(sent) + 1, client.asked, client.phase)
    BY <1>2 DEF HInv
  <2>2. conn'.ops = conn.ops /\ conn'.buffer = conn.buffer /\ conn'.parser = conn.parser
        /\ conn'.reply = conn.reply
    BY <1>4
  <2> QED
    BY <1>1, <2>1, <2>2, InStepSame
<1>7. conn'.state = "managed" /\ conn'.armed = FALSE
  BY <1>2, <1>4
<1> QED
  BY <1>1, <1>2, <1>5, <1>6, <1>7, GoesOn DEF HInv, Types

LEMMA AcceptInv == HInv /\ Accept => HInv'
<1> SUFFICES ASSUME HInv, Accept PROVE HInv'
  OBVIOUS
<1>1. /\ server = "running" /\ client.phase = "connecting" /\ conn.state = "none"
      /\ conn' = [conn EXCEPT !.state = "managed", !.ops = {"read"}]
      /\ client' = [client EXCEPT !.phase = "writing"]
      /\ UNCHANGED <<server, toServer, sent>>
  BY DEF Accept, Started
<1>2. /\ conn = [state |-> "none", socket |-> "open", ops |-> {}, parser |-> Reset,
                 buffer |-> << >>, reply |-> NoReply,
                 armed |-> FALSE, due |-> FALSE, passed |-> FALSE]
      /\ toServer = << >> /\ sent = << >> /\ client.asked = << >>
  BY <1>1 DEF HInv, Unborn
<1>3. conn' = [state |-> "managed", socket |-> "open", ops |-> {"read"}, parser |-> Reset,
               buffer |-> << >>, reply |-> NoReply,
               armed |-> FALSE, due |-> FALSE, passed |-> FALSE]
  BY <1>1, <1>2
<1>4. client' = [kind |-> client.kind, phase |-> "writing", asked |-> << >>, got |-> client.got]
  BY <1>1, <1>2, ClientFacts
<1>5. Reset \in Parsers
  BY HttpAssumption DEF Reset, Parsers
<1>6. conn' \in Conns
  BY <1>3, <1>5 DEF Conns
<1>7. Types'
  BY <1>1, <1>3, <1>4, <1>6 DEF HInv, Types
<1>8. Len(sent) = 0 /\ Len(client'.asked) = 0 /\ client'.asked = << >> /\ client'.phase = "writing"
  BY <1>2, <1>4
<1>9. InStep(conn', toServer', Len(sent') + 1, client'.asked, client'.phase)
  <2> DEFINE p == At("start", 1)
  <2>1. p \in Positions /\ p.state = "start" /\ p.req = 1
    BY DEF At, Positions
  <2>2. ParserAt(Reset, p, << >>)
    BY <1>5, <2>1 DEF ParserAt, Reset
  <2>3. Begun(p, << >>, FALSE)
    BY <2>1 DEF Begun
  <2>4. Holds(conn', p, 1, << >>)
    BY <1>3, <2>1, <2>2 DEF Holds
  <2> HIDE DEF p
  <2>5. Leads(<< >>, p, p, << >>, FALSE)
    BY <2>1, <2>3, LeadsEmpty
  <2>6. conn'.buffer = << >> /\ toServer' = << >> /\ Len(sent') + 1 = 1
        /\ ("writing" = "done") = FALSE /\ p = At("start", Len(<< >>) + 1)
    BY <1>1, <1>2, <1>3, <1>8 DEF p
  <2> QED
    BY <1>8, <2>4, <2>5, <2>6 DEF InStep
<1>10. Answered(sent', client'.asked)
  BY <1>1, <1>8 DEF Answered
<1>11. CoinWaits'
  BY <1>3, <1>8 DEF CoinWaits
<1>12. conn'.state = "managed" /\ MaxRequests \in Nat
  BY <1>3, HttpAssumption
<1> QED
  BY <1>7, <1>8, <1>9, <1>10, <1>11, <1>12 DEF HInv

----------------------------------------------------------------------------
(* The clients                                                              *)

Extends(asked, more) ==
    Len(more) >= Len(asked) /\ \A i \in 1..Len(asked) : more[i] = asked[i]

(* Asking more changes nothing for what was asked before. *)
LEMMA HoldsOn ==
    ASSUME NEW asked \in Seq(Requests), NEW more \in Seq(Requests), Extends(asked, more),
           NEW c, NEW p \in Positions, Begun(p, asked, FALSE), NEW n \in Nat,
           Holds(c, p, n, asked)
    PROVE  Holds(c, p, n, more)
<1>1. \A i \in 1..Len(asked) : i \in 1..Len(more) /\ more[i] = asked[i]
  <2>1. Len(asked) \in Nat /\ Len(more) \in Nat
    OBVIOUS
  <2> QED
    BY <2>1 DEF Extends
<1>2. ASSUME ParserAt(c.parser, p, asked) PROVE ParserAt(c.parser, p, more)
  BY <1>1, <1>2 DEF ParserAt, Begun
<1> QED
  BY <1>1, <1>2 DEF Holds

LEMMA AnsweredOn ==
    ASSUME NEW asked \in Seq(Requests), NEW more \in Seq(Requests), Extends(asked, more),
           NEW replies \in Seq(Replies), Answered(replies, asked)
    PROVE  Answered(replies, more)
<1>1. Len(asked) \in Nat /\ Len(more) \in Nat /\ Len(replies) \in Nat
  OBVIOUS
<1> QED
  BY <1>1 DEF Answered, Extends

(* The client goes, or waits for its reply. *)
LEMMA InStepOver ==
    ASSUME NEW c \in Conns, NEW wire \in Seq(Token), NEW n, NEW asked \in Seq(Requests),
           NEW phase, NEW ph, ph # "writing", phase = "done" => ph = "done",
           InStep(c, wire, n, asked, phase)
    PROVE  InStep(c, wire, n, asked, ph)
<1> DEFINE ended == phase = "done"
           over == ph = "done"
<1>1. PICK p, x, e :
        /\ Leads(c.buffer, p, x, asked, ended)
        /\ Leads(wire, x, e, asked, ended)
        /\ Holds(c, p, n, asked)
  BY DEF InStep
<1>2. ended \in BOOLEAN /\ over \in BOOLEAN /\ (ended => over) /\ c.buffer \in Seq(Token)
  BY DEF Conns
<1> HIDE DEF ended, over
<1>3. Leads(c.buffer, p, x, asked, over) /\ Leads(wire, x, e, asked, over)
  BY <1>1, <1>2, LeadsOn
<1> QED
  BY <1>1, <1>3 DEF InStep, over

(* A request, or a part of one, joins the stream. *)
LEMMA InStepJoin ==
    ASSUME NEW c \in Conns, NEW wire \in Seq(Token), NEW n \in Nat, NEW asked \in Seq(Requests),
           InStep(c, wire, n, asked, "writing"),
           NEW more \in Seq(Requests), Extends(asked, more), NEW ph, NEW over \in BOOLEAN,
           over <=> ph = "done",
           NEW s \in Seq(Token), NEW f,
           Leads(s, At("start", Len(asked) + 1), f, more, over),
           ph = "writing" => f = At("start", Len(more) + 1)
    PROVE  InStep(c, wire \o s, n, more, ph)
<1>1. ("writing" = "done") = FALSE
  OBVIOUS
<1>2. PICK p, x, e :
        /\ Leads(c.buffer, p, x, asked, FALSE)
        /\ Leads(wire, x, e, asked, FALSE)
        /\ Holds(c, p, n, asked)
        /\ e = At("start", Len(asked) + 1)
  BY <1>1 DEF InStep
<1>3. c.buffer \in Seq(Token)
  BY DEF Conns
<1>4. Leads(c.buffer, p, x, more, over) /\ Leads(wire, x, e, more, over)
  BY <1>2, <1>3, LeadsOn DEF Extends
<1>5. Leads(wire \o s, x, f, more, over)
  BY <1>2, <1>4, LeadsJoin
<1>6. p \in Positions /\ Begun(p, asked, FALSE)
  BY <1>2, <1>3, LeadsTypes
<1>7. Holds(c, p, n, more)
  BY <1>2, <1>6, HoldsOn
<1>8. over = (ph = "done")
  OBVIOUS
<1> QED
  BY <1>4, <1>5, <1>7, <1>8 DEF InStep

(* A step of the client. *)
LEMMA ClientInv ==
    ASSUME HInv, UNCHANGED <<server, conn, sent>>,
           NEW ph \in {"writing", "reading", "content", "done"},
           NEW more \in Seq(Requests), Extends(client.asked, more), Len(more) <= MaxRequests,
           NEW got \in 0..MaxRequests,
           client' = [kind |-> client.kind, phase |-> ph, asked |-> more, got |-> got],
           toServer' \in Seq(Token),
           conn.state = "none" => toServer' = << >> /\ more = << >> /\ ph = "done",
           conn.state = "managed" => InStep(conn, toServer', Len(sent) + 1, more, ph),
           client.kind = "coin" => CoinWaits'
    PROVE  HInv'
<1>1. client'.kind = client.kind /\ client'.phase = ph /\ client'.asked = more
  OBVIOUS
<1>2. Types'
  BY <1>1 DEF HInv, Types
<1>3. Answered(sent', client'.asked)
  BY <1>1, AnsweredOn, ClientFacts DEF HInv, Types
<1>4. conn'.state = "none" => Unborn'
  BY <1>1 DEF HInv, Unborn
<1>5. conn'.state = "managed" =>
         InStep(conn', toServer', Len(sent') + 1, client'.asked, client'.phase)
  BY <1>1
<1> QED
  BY <1>1, <1>2, <1>3, <1>4, <1>5 DEF HInv

LEMMA ExtendsSelf ==
    ASSUME NEW asked \in Seq(Requests)
    PROVE  Extends(asked, asked)
  BY DEF Extends

LEMMA ExtendsAppend ==
    ASSUME NEW asked \in Seq(Requests), NEW request \in Requests
    PROVE  /\ Append(asked, request) \in Seq(Requests)
           /\ Len(Append(asked, request)) = Len(asked) + 1
           /\ Append(asked, request)[Len(asked) + 1] = request
           /\ Extends(asked, Append(asked, request))
  BY DEF Extends

(* A whole request is asked. *)
LEMMA AskedFacts ==
    ASSUME HInv, client.phase = "writing", Len(client.asked) < MaxRequests,
           NEW shape \in Shapes, NEW kind \in Kinds, Asks(shape, kind),
           NEW request \in Requests, request.kind = kind,
           Last(shape) = "control" => request.bad,
           Last(shape) # "control" => ~request.bad,
           NEW ph \in {"writing", "reading"}
    PROVE  LET more == Append(client.asked, request) IN
           /\ more \in Seq(Requests) /\ Len(more) = Len(client.asked) + 1
           /\ Extends(client.asked, more) /\ Len(more) <= MaxRequests
           /\ toServer' \in Seq(Token)
           /\ conn.state # "none"
           /\ conn.state = "managed" => InStep(conn, toServer', Len(sent) + 1, more, ph)
<1> DEFINE a == client.asked
           more == Append(a, request)
           n == Len(a) + 1
           s == Tokens(shape, n, kind)
<1>1. a \in Seq(Requests) /\ Len(a) \in Nat /\ Len(sent) + 1 \in Nat /\ MaxRequests \in Nat
  BY ClientFacts, HttpAssumption
<1>2. /\ more \in Seq(Requests) /\ Len(more) = n /\ more[n] = request /\ Extends(a, more)
  BY <1>1, ExtendsAppend
<1>3. n \in 1..MaxRequests /\ n \in 1..Len(more)
  BY <1>1, <1>2
<1>4. /\ Shaped(shape) /\ Len(shape) # 0 /\ Tells(shape, request)
      /\ shape[Len(shape)] # "line" /\ shape[Len(shape)] # "length"
  BY ShapesShaped
<1>5. After(shape, Len(shape), n) = At("start", n + 1)
  BY <1>4 DEF After
<1>6. toServer' = toServer \o s
  BY DEF Asks
<1>7. toServer \in Seq(Token) /\ conn \in Conns
  BY DEF HInv, Types
<1>8. shape \in Seq(Words)
  BY <1>4 DEF Shaped
<1> HIDE DEF a, more, n, s
<1>9. s \in Seq(Token)
  BY <1>3, <1>8, TokensFacts DEF s
<1>10. toServer' \in Seq(Token)
  BY <1>6, <1>7, <1>9, ConcatFacts
<1>11. Leads(s, At("start", n), At("start", n + 1), more, FALSE)
  BY <1>2, <1>3, <1>4, <1>5, TokensLead DEF s
<1>12. ASSUME conn.state = "managed"
       PROVE  InStep(conn, toServer', Len(sent) + 1, more, ph)
  <2>1. InStep(conn, toServer, Len(sent) + 1, a, "writing")
    BY <1>12 DEF HInv, a
  <2>2. Leads(s, At("start", Len(a) + 1), At("start", Len(more) + 1), more, FALSE)
    BY <1>2, <1>11 DEF n
  <2> QED
    BY <1>1, <1>2, <1>6, <1>7, <1>9, <2>1, <2>2, InStepJoin
<1>13. conn.state # "none"
  BY DEF HInv, Unborn
<1> QED
  BY <1>2, <1>3, <1>10, <1>12, <1>13 DEF more, a, n

LEMMA AskInv ==
    ASSUME HInv, NEW shape \in Shapes, NEW kind \in Kinds, Ask(shape, kind)
    PROVE  HInv'
<1> DEFINE request == [kind |-> kind, bad |-> Last(shape) = "control"]
           more == Append(client.asked, request)
<1>1. /\ client.kind = "any" /\ client.phase = "writing"
      /\ Len(client.asked) < MaxRequests
      /\ Asks(shape, kind)
      /\ client' = [client EXCEPT !.asked = more]
  BY DEF Ask
<1>2. request \in Requests /\ request.kind = kind
  BY DEF Requests
<1>3. (Last(shape) = "control" => request.bad) /\ (Last(shape) # "control" => ~request.bad)
  OBVIOUS
<1> HIDE DEF request
<1>4. /\ more \in Seq(Requests) /\ Len(more) = Len(client.asked) + 1
      /\ Extends(client.asked, more) /\ Len(more) <= MaxRequests
      /\ toServer' \in Seq(Token)
      /\ conn.state # "none"
      /\ conn.state = "managed" => InStep(conn, toServer', Len(sent) + 1, more, "writing")
  BY <1>1, <1>2, <1>3, AskedFacts
<1> HIDE DEF more
<1>5. client' = [kind |-> client.kind, phase |-> "writing", asked |-> more, got |-> client.got]
  BY <1>1, ClientFacts
<1>6. client.got \in 0..MaxRequests
  BY DEF HInv, Types
<1>7. UNCHANGED <<server, conn, sent>>
  BY <1>1 DEF Asks
<1> QED
  BY <1>1, <1>4, <1>5, <1>6, <1>7, ClientInv

LEMMA WriteRequestInv ==
    ASSUME HInv, NEW shape \in {<<"line", "blank">>, <<"line", "length", "blank", "payload">>},
           NEW kind \in Kinds, WriteRequest(shape, kind)
    PROVE  HInv'
<1> DEFINE request == [kind |-> kind, bad |-> FALSE]
           more == Append(client.asked, request)
<1>1. /\ client.kind = "coin" /\ client.phase = "writing"
      /\ Asks(shape, kind)
      /\ client' = [client EXCEPT !.phase = "reading", !.asked = <<request>>]
  BY DEF WriteRequest
<1>2. request \in Requests /\ request.kind = kind /\ ~request.bad
  BY DEF Requests
<1>3. shape \in Shapes /\ Last(shape) # "control"
  <2>1. CASE shape = <<"line", "blank">>
    <3>1. Len(shape) = 2 /\ shape[2] = "blank"
      BY <2>1
    <3> QED
      BY <2>1, <3>1 DEF Shapes, Last
  <2>2. CASE shape = <<"line", "length", "blank", "payload">>
    <3>1. Len(shape) = 4 /\ shape[4] = "payload"
      BY <2>2
    <3> QED
      BY <2>2, <3>1 DEF Shapes, Last
  <2> QED
    BY <2>1, <2>2
<1>4. client.asked = << >> /\ Len(client.asked) = 0 /\ Len(client.asked) < MaxRequests
  BY <1>1, HttpAssumption DEF HInv, CoinWaits
<1>5. more = <<request>>
  BY <1>4
<1> HIDE DEF request
<1>6. /\ more \in Seq(Requests) /\ Len(more) = 1
      /\ Extends(client.asked, more) /\ Len(more) <= MaxRequests
      /\ toServer' \in Seq(Token)
      /\ conn.state # "none"
      /\ conn.state = "managed" => InStep(conn, toServer', Len(sent) + 1, more, "reading")
  BY <1>1, <1>2, <1>3, <1>4, AskedFacts
<1> HIDE DEF more
<1>7. client' = [kind |-> client.kind, phase |-> "reading", asked |-> more, got |-> client.got]
  BY <1>1, <1>5, ClientFacts
<1>8. client.got \in 0..MaxRequests
  BY DEF HInv, Types
<1>9. UNCHANGED <<server, conn, sent>>
  BY <1>1 DEF Asks
<1>10. CoinWaits'
  <2>1. Len(client'.asked) = 1 /\ client'.phase = "reading"
    BY <1>6, <1>7
  <2> QED
    BY <1>1, <1>9, <2>1 DEF HInv, CoinWaits
<1> QED
  BY <1>1, <1>6, <1>7, <1>8, <1>9, <1>10, ClientInv

LEMMA LeaveInv ==
    ASSUME HInv, NEW shape \in Parts, Leave(shape)
    PROVE  HInv'
<1> DEFINE a == client.asked
           n == Len(a) + 1
<1>1. /\ client.kind = "any" /\ client.phase = "writing"
      /\ shape # << >> => Len(a) < MaxRequests
      /\ client' = [client EXCEPT !.phase = "done"]
  BY DEF Leave
<1>2. PICK kind \in Kinds : Asks(shape, kind)
  BY DEF Leave
<1> DEFINE s == Tokens(shape, n, kind)
<1>3. toServer' = toServer \o s /\ UNCHANGED <<server, conn, sent>>
  BY <1>2 DEF Asks
<1>4. a \in Seq(Requests) /\ Len(a) \in Nat /\ Len(sent) + 1 \in Nat /\ MaxRequests \in Nat
      /\ Len(a) <= MaxRequests
  BY ClientFacts, HttpAssumption
<1>5. toServer \in Seq(Token) /\ conn \in Conns
  BY DEF HInv, Types
<1>6. Shaped(shape) /\ Unended(shape)
  BY PartsShaped
<1> HIDE DEF a, n, s
<1>7. ASSUME shape # << >>
      PROVE  /\ s \in Seq(Token)
             /\ Leads(s, At("start", n), After(shape, Len(shape), n), a, TRUE)
  <2>1. n \in 1..MaxRequests
    BY <1>1, <1>4, <1>7 DEF n
  <2>2. s \in Seq(Token)
    BY <1>6, <2>1, TokensFacts DEF Shaped, s
  <2>3. Leads(s, At("start", n), After(shape, Len(shape), n), a, TRUE)
    BY <1>4, <1>6, <2>1, TokensLead DEF s, n
  <2> QED
    BY <2>2, <2>3
<1>8. ASSUME shape = << >>
      PROVE  /\ s \in Seq(Token)
             /\ Leads(s, At("start", n), At("start", n), a, TRUE)
  <2>1. s = << >>
    BY <1>8 DEF s, Tokens
  <2>2. At("start", n) \in Positions /\ Begun(At("start", n), a, TRUE)
    BY <1>4 DEF At, Positions, Begun, n
  <2> DEFINE p == At("start", n)
  <2> HIDE DEF p
  <2>4. p \in Positions /\ Begun(p, a, TRUE)
    BY <2>2 DEF p
  <2>5. Leads(<< >>, p, p, a, TRUE)
    BY <2>4, LeadsEmpty
  <2>6. << >> \in Seq(Token)
    OBVIOUS
  <2> QED
    BY <2>1, <2>5, <2>6 DEF p
<1>9. PICK f : s \in Seq(Token) /\ Leads(s, At("start", Len(a) + 1), f, a, TRUE)
  BY <1>7, <1>8 DEF n
<1>10. toServer' \in Seq(Token)
  BY <1>3, <1>5, <1>9, ConcatFacts
<1>11. ASSUME conn.state = "managed"
       PROVE  InStep(conn, toServer', Len(sent) + 1, a, "done")
  <2>1. InStep(conn, toServer, Len(sent) + 1, a, "writing")
    BY <1>1, <1>11 DEF HInv, a
  <2>2. Extends(a, a)
    BY <1>4, ExtendsSelf
  <2> QED
    BY <1>3, <1>4, <1>5, <1>9, <2>1, <2>2, InStepJoin
<1>12. conn.state # "none"
  BY <1>1 DEF HInv, Unborn
<1>13. client' = [kind |-> client.kind, phase |-> "done", asked |-> a, got |-> client.got]
  BY <1>1, ClientFacts DEF a
<1>14. client.got \in 0..MaxRequests
  BY DEF HInv, Types
<1>15. Extends(client.asked, a)
  BY <1>4, ExtendsSelf DEF a
<1> QED
  BY <1>1, <1>3, <1>4, <1>10, <1>11, <1>12, <1>13, <1>14, <1>15, ClientInv

(* The client of Client.cpp reads its reply, and the end of the stream. *)
LEMMA CoinReadsInv == HInv /\ (ReadReply \/ HandleDone \/ Refused) => HInv'
<1> SUFFICES ASSUME HInv, ReadReply \/ HandleDone \/ Refused PROVE HInv'
  OBVIOUS
<1> DEFINE a == client.asked
           ph == client'.phase
           got == client'.got
<1>1. UNCHANGED <<server, conn, toServer, sent>>
  BY DEF ReadReply, HandleDone, Refused
<1>2. a \in Seq(Requests) /\ Len(a) <= MaxRequests /\ Len(sent) \in Nat /\ Len(sent) <= Len(a)
      /\ client = [kind |-> client.kind, phase |-> client.phase, asked |-> a, got |-> client.got]
  BY ClientFacts
<1>3. client.got \in 0..MaxRequests /\ toServer \in Seq(Token) /\ conn \in Conns
      /\ sent \in Seq(Replies) /\ MaxRequests \in Nat
  BY HttpAssumption DEF HInv, Types
<1>4. client' = [kind |-> client.kind, phase |-> ph, asked |-> a, got |-> got]
      /\ ph \in {"content", "done"} /\ got \in 0..MaxRequests
      /\ (client.phase = "done" => ph = "done")
  <2>1. CASE ReadReply
    <3>1. client' = [client EXCEPT !.phase = "content", !.got = Len(sent)]
          /\ client.phase = "reading"
      BY <2>1 DEF ReadReply
    <3>2. client' = [kind |-> client.kind, phase |-> "content", asked |-> a, got |-> Len(sent)]
      BY <1>2, <3>1
    <3>3. ph = "content" /\ got = Len(sent)
      BY <3>2
    <3>4. Len(sent) \in 0..MaxRequests
      BY <1>2, <1>3
    <3> HIDE DEF ph, got, a
    <3> QED
      BY <3>1, <3>2, <3>3, <3>4
  <2>2. CASE HandleDone \/ Refused
    <3>1. client' = [client EXCEPT !.phase = "done"]
      BY <2>2 DEF HandleDone, Refused
    <3>2. client' = [kind |-> client.kind, phase |-> "done", asked |-> a, got |-> client.got]
      BY <1>2, <3>1
    <3> QED
      BY <1>3, <3>2
  <2> QED
    BY <2>1, <2>2
<1>5. conn.state = "managed" => InStep(conn, toServer, Len(sent) + 1, a, ph)
  <2>1. conn.state = "managed" => InStep(conn, toServer, Len(sent) + 1, a, client.phase)
    BY DEF HInv
  <2> HIDE DEF a, ph
  <2> QED
    BY <1>2, <1>3, <1>4, <2>1, InStepOver
<1>6. conn.state = "none" => toServer = << >> /\ a = << >> /\ ph = "done"
  <2>1. conn.state = "none" =>
           toServer = << >> /\ a = << >> /\ client.phase \in {"connecting", "done"}
    BY DEF HInv, Unborn
  <2>2. client.phase \in {"connecting", "done"} => client' = [client EXCEPT !.phase = "done"]
    BY DEF ReadReply, HandleDone, Refused
  <2>3. [client EXCEPT !.phase = "done"].phase = "done"
    BY <1>2
  <2> QED
    BY <2>1, <2>2, <2>3
<1>7. client.kind = "coin" => CoinWaits'
  <2> SUFFICES ASSUME client.kind = "coin" PROVE CoinWaits'
    OBVIOUS
  <2>1. CoinWaits
    BY DEF HInv
  <2>2. CASE ReadReply
    <3>1. sent # << >> /\ client' = [client EXCEPT !.phase = "content", !.got = Len(sent)]
          /\ client.phase = "reading"
      BY <2>2 DEF ReadReply
    <3>2. client' = [kind |-> client.kind, phase |-> "content", asked |-> a, got |-> Len(sent)]
      BY <1>2, <3>1
    <3>3. Len(sent) = 1
      <4>1. Len(sent) # 0
        BY <1>3, <3>1
      <4>2. Len(a) <= 1 /\ Len(a) \in Nat
        BY <1>2, <2>1 DEF CoinWaits
      <4>3. Len(sent) \in Nat /\ Len(sent) <= Len(a)
        BY ClientFacts
      <4>4. ASSUME NEW m \in Nat, NEW k \in Nat, m # 0, m <= k, k <= 1 PROVE m = 1
        BY <4>4
      <4> QED
        BY <4>1, <4>2, <4>3, <4>4
    <3>4. client'.phase = "content" /\ client'.asked = a /\ client'.got = 1
      BY <3>2, <3>3
    <3> QED
      BY <1>1, <2>1, <3>1, <3>4 DEF CoinWaits
  <2>3. CASE HandleDone
    <3>1. /\ conn.socket # "open"
          /\ client.phase = "content" \/ (client.phase = "reading" /\ sent = << >>)
          /\ client' = [client EXCEPT !.phase = "done"]
      BY <2>3 DEF HandleDone
    <3>2. client' = [kind |-> client.kind, phase |-> "done", asked |-> a, got |-> client.got]
      BY <1>2, <3>1
    <3>3. client'.phase = "done" /\ client'.asked = a /\ client'.got = client.got
      BY <3>2
    <3> QED
      BY <1>1, <2>1, <3>1, <3>3 DEF CoinWaits
  <2>4. CASE Refused
    <3>1. client.phase = "connecting" /\ client' = [client EXCEPT !.phase = "done"]
      BY <2>4 DEF Refused
    <3>2. client' = [kind |-> client.kind, phase |-> "done", asked |-> a, got |-> client.got]
      BY <1>2, <3>1
    <3>3. client'.phase = "done" /\ client'.asked = a
      BY <3>2
    <3>4. server = "running" => conn.state = "none"
      BY <3>1 DEF HInv
    <3> QED
      BY <1>1, <2>1, <3>3, <3>4 DEF CoinWaits
  <2> QED
    BY <2>2, <2>3, <2>4
<1>8. Extends(client.asked, a)
  BY <1>2, ExtendsSelf
<1> HIDE DEF a, ph, got
<1> QED
  BY <1>1, <1>2, <1>3, <1>4, <1>5, <1>6, <1>7, <1>8, ClientInv

----------------------------------------------------------------------------
LEMMA StutterHInv == HInv /\ UNCHANGED vars => HInv'
<1> SUFFICES ASSUME HInv, UNCHANGED vars PROVE HInv'
  OBVIOUS
<1>1. UNCHANGED <<server, conn, toServer, sent, client>>
  BY DEF vars
<1> QED
  BY <1>1 DEF HInv, Types, Unborn, CoinWaits

LEMMA NextHInv == HInv /\ [Next]_vars => HInv'
<1> SUFFICES ASSUME HInv, [Next]_vars PROVE HInv'
  OBVIOUS
<1>1. CASE Handlers
  BY <1>1, ReadEndsInv, ExecInv, WriteInv, WriteFailsInv, HandleTimeoutInv, AcceptInv,
     HandleStopInv, ReadInv DEF Handlers
<1>2. CASE TimerExpires
  BY <1>2, TimerExpiresInv
<1>3. ASSUME NEW kind \in Kinds, NEW shape \in Shapes, Ask(shape, kind) PROVE HInv'
  BY <1>3, AskInv
<1>4. ASSUME NEW kind \in Kinds,
             NEW shape \in {<<"line", "blank">>, <<"line", "length", "blank", "payload">>},
             WriteRequest(shape, kind)
      PROVE  HInv'
  BY <1>4, WriteRequestInv
<1>5. ASSUME NEW shape \in Parts, Leave(shape) PROVE HInv'
  BY <1>5, LeaveInv
<1>6. CASE ReadReply \/ HandleDone \/ Refused
  BY <1>6, CoinReadsInv
<1>7. CASE UNCHANGED vars
  BY <1>7, StutterHInv
<1> QED
  BY <1>1, <1>2, <1>3, <1>4, <1>5, <1>6, <1>7 DEF Next, Parts

(* For any number of requests, wherever reads cut the stream and whenever   *)
(* the timer fires, each request is answered once, in order, with what it   *)
(* asked for, by a connection that does one thing at a time, and the client *)
(* of Client.cpp has its reply when it is done (Connection.cpp).            *)
THEOREM HttpRepliesSound == Spec => []RepliesAreSound
<1>1. Init => HInv
  BY InitHInv
<1>2. HInv /\ [Next]_vars => HInv'
  BY NextHInv
<1>3. HInv => RepliesAreSound
  BY HInvSound
<1> QED
  BY <1>1, <1>2, <1>3, PTL DEF Spec
=============================================================================
