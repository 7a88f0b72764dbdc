-------------------------- MODULE ModelClientProofs --------------------------
(***************************************************************************)
(* Proofs about ModelClient, for any tools, instructions, number of calls  *)
(* and request limit: that a request body drops nothing, that the          *)
(* instructions lead, that results follow their calls, and that only a     *)
(* failed call makes the fallback chain go on.                             *)
(***************************************************************************)
EXTENDS ModelClient, SequenceLemmas

-----------------------------------------------------------------------------
\* What OfKind selects.

\* A sequence of short sequences, one for each part, with one more part.
LEMMA OfKindAppend ==
  ASSUME NEW P, NEW parts \in Seq(P), NEW x \in P, NEW kind
  PROVE  /\ OfKind(<<>>, kind) = <<>>
         /\ OfKind(parts, kind) \in Seq(P)
         /\ OfKind(Append(parts, x), kind) =
              IF x.kind = kind THEN Append(OfKind(parts, kind), x) ELSE OfKind(parts, kind)
<1> DEFINE e(p) == IF p.kind = kind THEN <<p>> ELSE <<>>
           each(ps) == [i \in DOMAIN ps |-> e(ps[i])]
           more == Append(parts, x)
<1>0. \A ps : OfKind(ps, kind) = FlattenSeq(each(ps))
  BY DEF OfKind
<1>1. \A p \in P : e(p) \in Seq(P)
  OBVIOUS
<1>2. OfKind(<<>>, kind) = <<>>
  <2>1. each(<<>>) = <<>>
    OBVIOUS
  <2> QED
    BY <1>0, <2>1 DEF FlattenSeq
<1>3. /\ Len(parts) \in Nat /\ DOMAIN parts = 1..Len(parts)
      /\ DOMAIN more = 1..(Len(parts) + 1) /\ more[Len(parts) + 1] = x
      /\ \A i \in 1..Len(parts) : more[i] = parts[i] /\ parts[i] \in P
  BY Appended
<1> HIDE DEF e, more
<1>4. each(parts) \in Seq(Seq(P)) /\ Len(each(parts)) = Len(parts)
  BY <1>1, <1>3
<1>5. each(more) = Append(each(parts), e(x))
  <2>1. each(more) \in Seq(Seq(P)) /\ Len(each(more)) = Len(parts) + 1
    <3>1. \A i \in 1..(Len(parts) + 1) : more[i] \in P
      BY <1>3
    <3> QED
      BY <1>1, <1>3, <3>1
  <2>2. Append(each(parts), e(x)) \in Seq(Seq(P))
        /\ Len(Append(each(parts), e(x))) = Len(parts) + 1
    BY <1>1, <1>4, Appended
  <2>3. ASSUME NEW i \in 1..(Len(parts) + 1)
        PROVE  each(more)[i] = Append(each(parts), e(x))[i]
    <3>1. CASE i = Len(parts) + 1
      <4>1. each(more)[i] = e(x)
        BY <1>3, <3>1
      <4>2. Append(each(parts), e(x))[i] = e(x)
        BY <1>1, <1>4, <3>1, Appended
      <4> QED
        BY <4>1, <4>2
    <3>2. CASE i # Len(parts) + 1
      <4>1. i \in 1..Len(parts)
        BY <1>3, <3>2
      <4>2. each(more)[i] = e(parts[i])
        BY <1>3, <4>1
      <4>3. each(parts)[i] = e(parts[i])
        BY <1>3, <4>1
      <4>4. Append(each(parts), e(x))[i] = each(parts)[i]
        BY <1>1, <1>4, <4>1, Appended
      <4> QED
        BY <4>2, <4>3, <4>4
    <3> QED
      BY <3>1, <3>2
  <2> HIDE DEF each
  <2> QED
    BY <1>3, <2>1, <2>2, <2>3, SeqEqual
<1> HIDE DEF each
<1>6. OfKind(more, kind) = OfKind(parts, kind) \o e(x)
  <2>1. e(x) \in Seq(P)
    BY <1>1
  <2>2. FlattenSeq(Append(each(parts), e(x))) = FlattenSeq(each(parts)) \o e(x)
    BY <1>4, <2>1, FlattenAppend
  <2>3. OfKind(more, kind) = FlattenSeq(each(more)) /\ OfKind(parts, kind) = FlattenSeq(each(parts))
    BY <1>0
  <2> QED
    BY <1>5, <2>2, <2>3
<1>7. OfKind(parts, kind) \in Seq(P)
  BY <1>0, <1>4, FlattenType
<1>8. CASE x.kind = kind
  <2>1. e(x) = <<x>>
    BY <1>8 DEF e
  <2>2. OfKind(parts, kind) \o <<x>> = Append(OfKind(parts, kind), x)
    BY <1>7
  <2> QED
    BY <1>2, <1>6, <1>7, <1>8, <2>1, <2>2 DEF more
<1>9. CASE x.kind # kind
  <2>1. e(x) = <<>>
    BY <1>9 DEF e
  <2>2. OfKind(parts, kind) \o <<>> = OfKind(parts, kind)
    BY <1>7, ConcatEmptySeq
  <2> QED
    BY <1>2, <1>6, <1>7, <1>9, <2>1, <2>2 DEF more
<1> QED
  BY <1>8, <1>9

\* The selection holds the parts of the kind, all of them, in their order.
Numbered(parts) == \A i \in DOMAIN parts : parts[i].at[2] = i

Selects(sel, parts, kind) ==
    /\ \A j \in DOMAIN sel : sel[j].kind = kind /\ \E i \in DOMAIN parts : sel[j] = parts[i]
    /\ \A i \in DOMAIN parts : parts[i].kind = kind => \E j \in DOMAIN sel : sel[j] = parts[i]
    /\ Numbered(parts) => \A i, j \in DOMAIN sel : i < j => sel[i].at[2] < sel[j].at[2]

LEMMA OfKindSelects ==
  ASSUME NEW P, NEW parts \in Seq(P), NEW kind
  PROVE  OfKind(parts, kind) \in Seq(P) /\ Selects(OfKind(parts, kind), parts, kind)
<1> DEFINE G == {ps \in Seq(P) : OfKind(ps, kind) \in Seq(P) /\ Selects(OfKind(ps, kind), ps, kind)}
<1>1. <<>> \in G
  <2>1. OfKind(<<>>, kind) = <<>>
    <3>1. [i \in DOMAIN <<>> |-> IF <<>>[i].kind = kind THEN <<<<>>[i]>> ELSE <<>>] = <<>>
      OBVIOUS
    <3> QED
      BY <3>1 DEF OfKind, FlattenSeq
  <2>2. Selects(<<>>, <<>>, kind)
    BY DEF Selects
  <2>3. <<>> \in Seq(P)
    OBVIOUS
  <2> QED
    BY <2>1, <2>2, <2>3
<1>2. ASSUME NEW ps \in Seq(P), NEW x \in P, ps \in G PROVE Append(ps, x) \in G
  <2> DEFINE old == OfKind(ps, kind)
             n == Len(ps)
             more == Append(ps, x)
             sel == OfKind(more, kind)
  <2>1. old \in Seq(P) /\ Selects(old, ps, kind)
    BY <1>2
  <2>2. sel = IF x.kind = kind THEN Append(old, x) ELSE old
    BY OfKindAppend
  <2>3. /\ more \in Seq(P) /\ n \in Nat /\ DOMAIN ps = 1..n /\ DOMAIN more = 1..(n + 1)
        /\ more[n + 1] = x /\ \A i \in 1..n : more[i] = ps[i]
    BY Appended
  <2>4. /\ Append(old, x) \in Seq(P) /\ Len(old) \in Nat /\ DOMAIN old = 1..Len(old)
        /\ DOMAIN Append(old, x) = 1..(Len(old) + 1)
        /\ Append(old, x)[Len(old) + 1] = x
        /\ \A i \in 1..Len(old) : Append(old, x)[i] = old[i]
    BY <2>1, Appended
  <2>5. sel \in Seq(P)
    BY <2>1, <2>2, <2>4
  <2> HIDE DEF old, n, more, sel
  <2>6. ASSUME NEW j \in DOMAIN sel
        PROVE  sel[j].kind = kind /\ \E i \in DOMAIN more : sel[j] = more[i]
    <3>1. CASE j \in DOMAIN old
      <4>1. sel[j] = old[j]
        BY <2>2, <2>4, <3>1
      <4>2. old[j].kind = kind
        BY <2>1, <3>1 DEF Selects
      <4>3. PICK i \in DOMAIN ps : old[j] = ps[i]
        BY <2>1, <3>1 DEF Selects
      <4>4. i \in DOMAIN more /\ more[i] = ps[i]
        BY <2>3, <4>3
      <4> QED
        BY <4>1, <4>2, <4>3, <4>4
    <3>2. CASE j \notin DOMAIN old
      <4>1. x.kind = kind /\ sel = Append(old, x) /\ j = Len(old) + 1
        <5>1. x.kind = kind
          BY <2>2, <3>2
        <5>2. sel = Append(old, x)
          BY <2>2, <5>1
        <5>3. j \in 1..(Len(old) + 1) /\ j \notin 1..Len(old)
          BY <2>4, <3>2, <5>2
        <5> QED
          BY <2>4, <5>1, <5>2, <5>3
      <4>2. sel[j] = x
        BY <2>4, <4>1
      <4>3. n + 1 \in DOMAIN more /\ more[n + 1] = x
        BY <2>3
      <4> QED
        BY <4>1, <4>2, <4>3
    <3> QED
      BY <3>1, <3>2
  <2>7. ASSUME NEW i \in DOMAIN more, more[i].kind = kind
        PROVE  \E j \in DOMAIN sel : sel[j] = more[i]
    <3>1. CASE i \in DOMAIN ps
      <4>1. more[i] = ps[i] /\ ps[i].kind = kind
        BY <2>3, <2>7, <3>1
      <4>2. PICK j \in DOMAIN old : old[j] = ps[i]
        BY <2>1, <3>1, <4>1 DEF Selects
      <4>3. j \in DOMAIN sel /\ sel[j] = old[j]
        BY <2>2, <2>4, <4>2
      <4> QED
        BY <4>1, <4>2, <4>3
    <3>2. CASE i \notin DOMAIN ps
      <4>1. i = n + 1 /\ more[i] = x
        BY <2>3, <3>2
      <4>2. sel = Append(old, x)
        BY <2>2, <2>7, <4>1
      <4>3. Len(old) + 1 \in DOMAIN sel /\ sel[Len(old) + 1] = x
        BY <2>4, <4>2
      <4> QED
        BY <4>1, <4>3
    <3> QED
      BY <3>1, <3>2
  <2>8. ASSUME Numbered(more), NEW i \in DOMAIN sel, NEW j \in DOMAIN sel, i < j
        PROVE  sel[i].at[2] < sel[j].at[2]
    <3>1. Numbered(ps) /\ x.at[2] = n + 1
      BY <2>3, <2>8 DEF Numbered
    <3>2. \A k \in DOMAIN old : old[k].at[2] \in 1..n
      <4>1. ASSUME NEW k \in DOMAIN old PROVE old[k].at[2] \in 1..n
        <5>1. PICK l \in DOMAIN ps : old[k] = ps[l]
          BY <2>1 DEF Selects
        <5>2. ps[l].at[2] = l
          BY <3>1, <5>1 DEF Numbered
        <5> QED
          BY <2>3, <5>1, <5>2
      <4> QED
        BY <4>1
    <3>3. i \in DOMAIN old /\ sel[i] = old[i]
      BY <2>2, <2>4, <2>8
    <3>4. CASE j \in DOMAIN old
      <4>1. sel[j] = old[j]
        BY <2>2, <2>4, <3>4
      <4>2. old[i].at[2] < old[j].at[2]
        BY <2>1, <2>8, <3>1, <3>3, <3>4 DEF Selects
      <4> QED
        BY <3>3, <4>1, <4>2
    <3>5. CASE j \notin DOMAIN old
      <4>1. sel[j] = x
        BY <2>2, <2>4, <3>5
      <4> QED
        BY <2>3, <3>1, <3>2, <3>3, <4>1
    <3> QED
      BY <3>4, <3>5
  <2>9. Selects(sel, more, kind)
    BY <2>6, <2>7, <2>8 DEF Selects
  <2> QED
    BY <2>3, <2>5, <2>9 DEF more, sel
<1> HIDE DEF G
<1>3. parts \in G
  BY <1>1, <1>2, SeqInduct
<1> QED
  BY <1>3 DEF G

-----------------------------------------------------------------------------
\* A function applied to every element of a sequence.

Each(e, s) == [i \in DOMAIN s |-> e[s[i]]]

Maps(e, S, T) == e \in [S -> T]

LEMMA EachType ==
  ASSUME NEW S, NEW T, NEW e, Maps(e, S, T), NEW s \in Seq(S)
  PROVE  /\ Each(e, s) \in Seq(T) /\ Len(Each(e, s)) = Len(s)
         /\ \A i \in 1..Len(s) : Each(e, s)[i] = e[s[i]]
<1>1. \A i \in 1..Len(s) : e[s[i]] \in T
  BY DEF Maps
<1>2. Each(e, s) = [i \in 1..Len(s) |-> e[s[i]]]
  BY DEF Each
<1> QED
  BY <1>1, <1>2

LEMMA EachConcat ==
  ASSUME NEW S, NEW T, NEW e, Maps(e, S, T), NEW s \in Seq(S), NEW t \in Seq(S)
  PROVE  Each(e, s \o t) = Each(e, s) \o Each(e, t)
<1>1. PICK c : c = s \o t
  OBVIOUS
<1>2. /\ c \in Seq(S) /\ Len(c) = Len(s) + Len(t) /\ Len(s) \in Nat /\ Len(t) \in Nat
      /\ \A i \in 1..Len(s) : c[i] = s[i]
      /\ \A i \in 1..Len(t) : c[Len(s) + i] = t[i]
  BY <1>1
<1>3. /\ Each(e, s) \in Seq(T) /\ Len(Each(e, s)) = Len(s)
      /\ \A i \in 1..Len(s) : Each(e, s)[i] = e[s[i]]
  BY EachType
<1>4. /\ Each(e, t) \in Seq(T) /\ Len(Each(e, t)) = Len(t)
      /\ \A i \in 1..Len(t) : Each(e, t)[i] = e[t[i]]
  BY EachType
<1>5. /\ Each(e, c) \in Seq(T) /\ Len(Each(e, c)) = Len(c)
      /\ \A i \in 1..Len(c) : Each(e, c)[i] = e[c[i]]
  BY <1>2, EachType
<1>6. PICK a, b, d : a = Each(e, s) /\ b = Each(e, t) /\ d = Each(e, c)
  OBVIOUS
<1>7. /\ a \o b \in Seq(T) /\ Len(a \o b) = Len(s) + Len(t)
      /\ \A i \in 1..(Len(s) + Len(t)) :
            (a \o b)[i] = IF i <= Len(s) THEN a[i] ELSE b[i - Len(s)]
  <2>1. a \in Seq(T) /\ b \in Seq(T) /\ Len(a) = Len(s) /\ Len(b) = Len(t)
    BY <1>3, <1>4, <1>6
  <2>2. /\ a \o b \in Seq(T) /\ Len(a \o b) = Len(a) + Len(b)
        /\ \A i \in 1..(Len(a) + Len(b)) : (a \o b)[i] = IF i <= Len(a) THEN a[i] ELSE b[i - Len(a)]
    BY <2>1, ConcatProperties
  <2> QED
    BY <2>1, <2>2
<1>8. ASSUME NEW i \in 1..(Len(s) + Len(t)) PROVE d[i] = (a \o b)[i]
  <2>1. d[i] = e[c[i]]
    BY <1>2, <1>5, <1>6
  <2>2. CASE i <= Len(s)
    <3>1. i \in 1..Len(s)
      BY <1>2, <2>2
    <3>2. c[i] = s[i] /\ a[i] = e[s[i]]
      BY <1>2, <1>3, <1>6, <3>1
    <3> QED
      BY <1>7, <2>1, <2>2, <3>2
  <2>3. CASE ~(i <= Len(s))
    <3>1. i - Len(s) \in 1..Len(t) /\ Len(s) + (i - Len(s)) = i
      BY <1>2, <2>3
    <3>2. c[i] = t[i - Len(s)] /\ b[i - Len(s)] = e[t[i - Len(s)]]
      BY <1>2, <1>4, <1>6, <3>1
    <3> QED
      BY <1>7, <2>1, <2>3, <3>2
  <2> QED
    BY <2>2, <2>3
<1>9. d \in Seq(T) /\ Len(d) = Len(s) + Len(t)
  BY <1>2, <1>5, <1>6
<1>10. d = a \o b
  BY <1>7, <1>8, <1>9, SeqEqual
<1> QED
  BY <1>1, <1>6, <1>10

LEMMA EachSingle ==
  ASSUME NEW S, NEW T, NEW e, Maps(e, S, T), NEW x \in S
  PROVE  Each(e, <<x>>) = <<e[x]>>
<1>1. DOMAIN <<x>> = 1..1 /\ <<x>>[1] = x
  OBVIOUS
<1>2. Each(e, <<x>>) = [i \in 1..1 |-> e[x]]
  BY <1>1 DEF Each
<1> QED
  BY <1>2

-----------------------------------------------------------------------------
\* What a message is mapped to.

Mappable(m) == m \in Message /\ \A i \in DOMAIN m.parts : m.parts[i].kind \notin Unsupported

LEMMA RequestPartMapped ==
  ASSUME NEW p \in PartOf(RequestKinds), p.kind # "image"
  PROVE  /\ MapRequestPart(p) \in Line
         /\ MapRequestPart(p).says = <<p.at>> /\ MapRequestPart(p).calls = <<>>
         /\ MapRequestPart(p).role # "assistant"
         /\ MapRequestPart(p).role = "system" <=> p.kind = "system"
         /\ MapRequestPart(p).role = "tool" <=>
              p.kind = "return" \/ (p.kind = "retry" /\ p.tool # NoTool)
         /\ MapRequestPart(p).role = "tool" => MapRequestPart(p).call = p.call
<1>1. p.at \in Place /\ p.call \in Place /\ MissingId \in Place
  BY DEF PartOf, Place, MissingId
<1>2. <<p.at>> \in Seq(Place) /\ <<>> \in Seq([id : Place, at : Place])
  BY <1>1
<1>3. p.kind \in {"system", "user", "return", "retry"}
  BY DEF PartOf, RequestKinds
<1>4. ASSUME NEW role \in {"system", "user", "tool"}
      PROVE  /\ Says(role, p.at) \in Line /\ Says(role, p.at).role = role
             /\ Says(role, p.at).says = <<p.at>> /\ Says(role, p.at).calls = <<>>
  BY <1>1, <1>2 DEF Says, Line
<1>5. /\ ToolResult(p) \in Line /\ ToolResult(p).role = "tool" /\ ToolResult(p).call = p.call
      /\ ToolResult(p).says = <<p.at>> /\ ToolResult(p).calls = <<>>
  BY <1>1, <1>2 DEF Says, Line, ToolResult
<1>6. CASE p.kind = "system"
  BY <1>4, <1>6 DEF MapRequestPart
<1>7. CASE p.kind = "user"
  BY <1>4, <1>7 DEF MapRequestPart, MapUserPrompt
<1>8. CASE p.kind = "return"
  BY <1>5, <1>8 DEF MapRequestPart
<1>9. CASE p.kind = "retry" /\ p.tool # NoTool
  BY <1>5, <1>9 DEF MapRequestPart
<1>10. CASE p.kind = "retry" /\ p.tool = NoTool
  BY <1>4, <1>10 DEF MapRequestPart
<1> QED
  BY <1>3, <1>6, <1>7, <1>8, <1>9, <1>10

LEMMA AssistantMapped ==
  ASSUME NEW m \in Message, m.kind = "response"
  PROVE  /\ MapAssistantMessage(m) \in Line
         /\ MapAssistantMessage(m).role = "assistant"
         /\ MapAssistantMessage(m).says = Places(TextsOf(m.parts))
         /\ DOMAIN MapAssistantMessage(m).calls = DOMAIN CallsOf(m.parts)
         /\ \A c \in DOMAIN CallsOf(m.parts) :
              /\ MapAssistantMessage(m).calls[c].id = CallsOf(m.parts)[c].call
              /\ MapAssistantMessage(m).calls[c].at = CallsOf(m.parts)[c].at
<1> DEFINE texts == TextsOf(m.parts)
           calls == CallsOf(m.parts)
           P == PartOf(ResponseKinds)
<1>1. m.parts \in Seq(P)
  BY DEF Message
<1>2. texts \in Seq(P) /\ calls \in Seq(P)
  BY <1>1, OfKindSelects DEF TextsOf, CallsOf
<1>3. \A p \in P : p.at \in Place /\ p.call \in Place
  BY DEF PartOf
<1>4. MissingId \in Place
  BY DEF MissingId, Place
<1> HIDE DEF texts, calls, P
<1>5. Places(texts) \in Seq(Place)
  BY <1>2, <1>3 DEF Places
<1>6. [i \in DOMAIN calls |-> [id |-> calls[i].call, at |-> calls[i].at]] \in Seq([id : Place, at : Place])
  <2> DEFINE call(i) == [id |-> calls[i].call, at |-> calls[i].at]
             R == [id : Place, at : Place]
  <2>1. ASSUME NEW i \in 1..Len(calls) PROVE call(i) \in R
    <3>1. calls[i] \in P
      BY <1>2
    <3>2. calls[i].call \in Place /\ calls[i].at \in Place
      BY <1>3, <3>1
    <3> QED
      BY <3>2
  <2>2. DOMAIN calls = 1..Len(calls) /\ Len(calls) \in Nat
    BY <1>2
  <2> HIDE DEF call, R
  <2>3. [i \in 1..Len(calls) |-> call(i)] \in Seq(R)
    BY <2>1, <2>2
  <2>4. [i \in DOMAIN calls |-> call(i)] \in Seq(R)
    BY <2>2, <2>3
  <2> QED
    BY <2>4 DEF call, R
<1>7. MapAssistantMessage(m) = Assistant(texts, calls)
  BY DEF MapAssistantMessage, texts, calls
<1>8. Assistant(texts, calls) \in Line
  BY <1>4, <1>5, <1>6 DEF Assistant, Line
<1> QED
  BY <1>7, <1>8 DEF Assistant, texts, calls

LEMMA MessageMapped ==
  ASSUME NEW m, Mappable(m)
  PROVE  MapMessage(m) \in Seq(Line)
<1>1. CASE m.kind = "request"
  <2>1. m.parts \in Seq(PartOf(RequestKinds)) /\ \A i \in DOMAIN m.parts : m.parts[i].kind # "image"
    BY <1>1 DEF Mappable, Message, Unsupported
  <2>2. \A i \in 1..Len(m.parts) : MapRequestPart(m.parts[i]) \in Line
    BY <2>1, RequestPartMapped
  <2>3. MapMessage(m) = [i \in 1..Len(m.parts) |-> MapRequestPart(m.parts[i])]
    BY <1>1, <2>1 DEF MapMessage
  <2> QED
    BY <2>1, <2>2, <2>3
<1>2. CASE m.kind # "request"
  <2>1. m \in Message /\ m.kind = "response"
    BY <1>2 DEF Mappable, Message
  <2>2. MapAssistantMessage(m) \in Line
    BY <2>1, AssistantMapped
  <2>3. MapMessage(m) = <<MapAssistantMessage(m)>>
    BY <1>2 DEF MapMessage
  <2> QED
    BY <2>2, <2>3
<1> QED
  BY <1>1, <1>2

\* One more message is mapped at the end.
LEMMA MappedAppend ==
  ASSUME NEW h \in Seq(Message), NEW m \in Message, Supported(Append(h, m))
  PROVE  /\ Supported(h) /\ Mappable(m)
         /\ Mapped(h) \in Seq(Line) /\ MapMessage(m) \in Seq(Line)
         /\ Mapped(Append(h, m)) = Mapped(h) \o MapMessage(m)
<1> DEFINE S == {x \in Message : Mappable(x)}
           T == Seq(Line)
           e == [x \in S |-> MapMessage(x)]
           
<1>1. /\ Len(h) \in Nat /\ DOMAIN h = 1..Len(h)
      /\ DOMAIN Append(h, m) = 1..(Len(h) + 1) /\ Append(h, m)[Len(h) + 1] = m
      /\ \A i \in 1..Len(h) : Append(h, m)[i] = h[i] /\ h[i] \in Message
  BY Appended
<1>2. Supported(h)
  BY <1>1 DEF Supported
<1>3. Mappable(m)
  <2>1. Len(h) + 1 \in DOMAIN Append(h, m)
    BY <1>1
  <2> QED
    BY <1>1, <2>1 DEF Supported, Mappable
<1>4. h \in Seq(S) /\ m \in S
  <2>1. \A i \in 1..Len(h) : h[i] \in S
    BY <1>1, <1>2 DEF Supported, Mappable
  <2> QED
    BY <1>1, <1>3, <2>1
<1>5. Maps(e, S, T)
  BY MessageMapped DEF Maps
<1>6. /\ \A x \in S : e[x] = MapMessage(x)
      /\ \A u \in Seq(S) : Mapped(u) = FlattenSeq(Each(e, u))
  <2>1. ASSUME NEW u \in Seq(S) PROVE Mapped(u) = FlattenSeq(Each(e, u))
    <3>1. \A i \in DOMAIN u : e[u[i]] = MapMessage(u[i])
      OBVIOUS
    <3>2. Each(e, u) = [i \in DOMAIN u |-> MapMessage(u[i])]
      BY <3>1 DEF Each
    <3> QED
      BY <3>2 DEF Mapped
  <2> QED
    BY <2>1
<1> HIDE DEF S, e
<1>7. <<m>> \in Seq(S) /\ h \o <<m>> = Append(h, m) /\ h \o <<m>> \in Seq(S)
  BY <1>4
<1>8. Each(e, h) \in Seq(T) /\ Each(e, h \o <<m>>) = Each(e, h) \o Each(e, <<m>>)
  <2>1. Each(e, h) \in Seq(T)
    BY <1>4, <1>5, EachType
  <2> HIDE DEF T
  <2>2. ASSUME NEW u \in Seq(S) PROVE Each(e, h \o u) = Each(e, h) \o Each(e, u)
    BY <1>4, <1>5, EachConcat
  <2>3. Each(e, h \o <<m>>) = Each(e, h) \o Each(e, <<m>>)
    BY <1>7, <2>2
  <2> QED
    BY <2>1, <2>3
<1>9. Each(e, <<m>>) = <<MapMessage(m)>> /\ MapMessage(m) \in T
  <2>1. Each(e, <<m>>) = <<e[m]>>
    BY <1>4, <1>5, EachSingle
  <2>2. e[m] \in T /\ e[m] = MapMessage(m)
    BY <1>4, <1>5, <1>6 DEF Maps
  <2> QED
    BY <2>1, <2>2
<1> HIDE DEF T
<1>10. Each(e, h \o <<m>>) = Append(Each(e, h), MapMessage(m))
  BY <1>7, <1>8, <1>9, ConcatOne
<1> USE DEF T
<1>11. FlattenSeq(Append(Each(e, h), MapMessage(m))) = FlattenSeq(Each(e, h)) \o MapMessage(m)
  BY <1>8, <1>9, FlattenAppend
<1>12. FlattenSeq(Each(e, h)) \in Seq(Line)
  BY <1>8, FlattenType
<1>13. Mapped(h) = FlattenSeq(Each(e, h)) /\ Mapped(h \o <<m>>) = FlattenSeq(Each(e, h \o <<m>>))
  BY <1>4, <1>6, <1>7
<1> QED
  BY <1>2, <1>3, <1>7, <1>9, <1>10, <1>11, <1>12, <1>13

\* The first message is.
LEMMA MappedFirst ==
  ASSUME NEW m, Mappable(m)
  PROVE  Mapped(<<m>>) = MapMessage(m) /\ MapMessage(m) \in Seq(Line)
<1>1. [i \in DOMAIN <<m>> |-> MapMessage(<<m>>[i])] = <<MapMessage(m)>>
  <2>1. DOMAIN <<m>> = 1..1 /\ <<m>>[1] = m
    OBVIOUS
  <2>2. [i \in DOMAIN <<m>> |-> MapMessage(<<m>>[i])] = [i \in 1..1 |-> MapMessage(m)]
    BY <2>1
  <2> QED
    BY <2>2
<1>2. MapMessage(m) \in Seq(Line)
  BY MessageMapped
<1>3. FlattenSeq(<<MapMessage(m)>>) = MapMessage(m)
  BY <1>2, FlattenOne
<1> QED
  BY <1>1, <1>2, <1>3 DEF Mapped

-----------------------------------------------------------------------------
\* The lines a message adds.

LEMMA RequestMapped ==
  ASSUME NEW m, Mappable(m), m.kind = "request"
  PROVE  /\ MapMessage(m) \in Seq(Line) /\ Len(MapMessage(m)) = Len(m.parts)
         /\ Len(m.parts) \in Nat /\ m.parts \in Seq(PartOf(RequestKinds))
         /\ \A i \in 1..Len(m.parts) :
               /\ MapMessage(m)[i] = MapRequestPart(m.parts[i])
               /\ m.parts[i] \in PartOf(RequestKinds) /\ m.parts[i].kind # "image"
<1>1. m.parts \in Seq(PartOf(RequestKinds)) /\ \A i \in DOMAIN m.parts : m.parts[i].kind # "image"
  BY DEF Mappable, Message, Unsupported
<1>2. MapMessage(m) = [i \in 1..Len(m.parts) |-> MapRequestPart(m.parts[i])] /\ MapMessage(m) \in Seq(Line)
  BY <1>1, MessageMapped DEF MapMessage
<1> QED
  BY <1>1, <1>2

LEMMA ResponseMapped ==
  ASSUME NEW m, Mappable(m), m.kind = "response"
  PROVE  MapMessage(m) = <<MapAssistantMessage(m)>> /\ m \in Message
BY DEF MapMessage, Mappable

\* The lines of message n, when it is not the first.
Fresh(lines, n) ==
    /\ lines \in Seq(Line) /\ lines # <<>>
    /\ \A i \in DOMAIN lines :
          /\ \A j \in DOMAIN lines[i].says : lines[i].says[j][1] = n
          /\ lines[i].calls # <<>> => lines[i].role = "assistant"
          /\ lines[i].role # "system"

LEMMA LinesFresh ==
  ASSUME NEW n \in Nat, n > 1, NEW m, Mappable(m), PartsInv(n, m.parts),
         m.kind = "request" => m.parts # <<>>
  PROVE  Fresh(MapMessage(m), n)
<1>1. CASE m.kind = "request"
  <2>1. PICK N : N = MapMessage(m)
    OBVIOUS
  <2>2. /\ N \in Seq(Line) /\ Len(N) = Len(m.parts)
        /\ Len(m.parts) \in Nat /\ m.parts \in Seq(PartOf(RequestKinds))
        /\ \A i \in 1..Len(m.parts) : N[i] = MapRequestPart(m.parts[i])
              /\ m.parts[i] \in PartOf(RequestKinds) /\ m.parts[i].kind # "image"
    BY <1>1, <2>1, RequestMapped
  <2>3. ASSUME NEW i \in DOMAIN N
        PROVE  /\ \A j \in DOMAIN N[i].says : N[i].says[j][1] = n
               /\ N[i].calls = <<>> /\ N[i].role # "system"
    <3>1. i \in 1..Len(m.parts) /\ i \in DOMAIN m.parts
      BY <2>2
    <3>2. m.parts[i].at = <<n, i>> /\ m.parts[i].kind # "system"
      BY <3>1 DEF PartsInv
    <3>3. PICK p \in PartOf(RequestKinds) : p = m.parts[i] /\ p.kind # "image" /\ N[i] = MapRequestPart(p)
      BY <2>2, <3>1
    <3>4. MapRequestPart(p).says = <<p.at>> /\ MapRequestPart(p).calls = <<>>
          /\ MapRequestPart(p).role # "system"
      BY <3>2, <3>3, RequestPartMapped
    <3> QED
      BY <3>2, <3>3, <3>4
  <2>4. N # <<>>
    BY <1>1, <2>2
  <2> QED
    BY <2>1, <2>2, <2>3, <2>4 DEF Fresh
<1>2. CASE m.kind # "request"
  <2>1. m.kind = "response" /\ m \in Message /\ m.parts \in Seq(PartOf(ResponseKinds))
    BY <1>2 DEF Mappable, Message
  <2>2. PICK a : a = MapAssistantMessage(m)
    OBVIOUS
  <2>3. MapMessage(m) = <<a>> /\ a \in Line /\ a.role = "assistant" /\ a.says = Places(TextsOf(m.parts))
    BY <2>1, <2>2, AssistantMapped, ResponseMapped
  <2>4. ASSUME NEW j \in DOMAIN a.says PROVE a.says[j][1] = n
    <3>1. PICK texts : texts = TextsOf(m.parts)
      OBVIOUS
    <3>2. Selects(texts, m.parts, "text")
      BY <2>1, <3>1, OfKindSelects DEF TextsOf
    <3>3. j \in DOMAIN texts /\ a.says[j] = texts[j].at
      BY <2>3, <2>4, <3>1 DEF Places
    <3>4. PICK i \in DOMAIN m.parts : texts[j] = m.parts[i]
      BY <3>2, <3>3 DEF Selects
    <3>5. m.parts[i].at = <<n, i>>
      BY DEF PartsInv
    <3> QED
      BY <3>3, <3>4, <3>5
  <2>5. <<a>> \in Seq(Line) /\ <<a>> # <<>> /\ DOMAIN <<a>> = 1..1 /\ <<a>>[1] = a
    BY <2>3
  <2> QED
    BY <2>3, <2>4, <2>5 DEF Fresh
<1> QED
  BY <1>1, <1>2

\* What a concatenation holds.
LEMMA Joined ==
  ASSUME NEW T, NEW s \in Seq(T), NEW t \in Seq(T)
  PROVE  /\ s \o t \in Seq(T) /\ Len(s) \in Nat /\ Len(t) \in Nat
         /\ DOMAIN s = 1..Len(s) /\ DOMAIN t = 1..Len(t)
         /\ Len(s \o t) = Len(s) + Len(t) /\ DOMAIN (s \o t) = 1..(Len(s) + Len(t))
         /\ \A i \in 1..Len(s) : (s \o t)[i] = s[i]
         /\ \A i \in 1..Len(t) : (s \o t)[Len(s) + i] = t[i]
         /\ \A i \in 1..(Len(s) + Len(t)) :
              i \notin 1..Len(s) => i - Len(s) \in 1..Len(t) /\ (s \o t)[i] = t[i - Len(s)]
OBVIOUS

JoinOf(all, s, t, T) ==
    /\ all \in Seq(T) /\ Len(s) \in Nat /\ Len(t) \in Nat
    /\ DOMAIN s = 1..Len(s) /\ DOMAIN t = 1..Len(t)
    /\ Len(all) = Len(s) + Len(t) /\ DOMAIN all = 1..(Len(s) + Len(t))
    /\ \A i \in 1..Len(s) : all[i] = s[i]
    /\ \A i \in 1..Len(t) : all[Len(s) + i] = t[i]
    /\ \A i \in 1..(Len(s) + Len(t)) :
          i \notin 1..Len(s) => i - Len(s) \in 1..Len(t) /\ all[i] = t[i - Len(s)]

LEMMA JoinIs ==
  ASSUME NEW T, NEW s \in Seq(T), NEW t \in Seq(T), NEW all, all = s \o t
  PROVE  JoinOf(all, s, t, T)
BY Joined DEF JoinOf

LEMMA LinesGrow ==
  ASSUME NEW n \in Nat, n > 1, NEW lines, LineInv(lines), NEW more, Fresh(more, n)
  PROVE  LineInv(lines \o more)
<1>1. PICK all : all = lines \o more
  OBVIOUS
<1>2. lines \in Seq(Line) /\ more \in Seq(Line)
  BY DEF LineInv, Fresh
<1>3. /\ all \in Seq(Line) /\ Len(lines) \in Nat /\ DOMAIN lines = 1..Len(lines) /\ DOMAIN more = 1..Len(more)
      /\ Len(more) \in Nat
      /\ Len(all) = Len(lines) + Len(more) /\ DOMAIN all = 1..(Len(lines) + Len(more))
      /\ \A i \in 1..Len(lines) : all[i] = lines[i]
      /\ \A i \in 1..(Len(lines) + Len(more)) :
           i \notin 1..Len(lines) => i - Len(lines) \in 1..Len(more) /\ all[i] = more[i - Len(lines)]
  BY <1>1, <1>2, JoinIs DEF JoinOf
<1>4. all # <<>>
  <2>1. Len(lines) # 0
    BY <1>2 DEF LineInv
  <2> QED
    BY <1>3, <2>1
<1>5. ASSUME NEW i \in DOMAIN all
      PROVE  /\ \A j \in DOMAIN all[i].says : all[i].says[j][1] # 0
             /\ all[i].calls # <<>> => all[i].role = "assistant"
             /\ all[i].role = "system" => \A j \in 1..i : all[j].role = "system"
  <2>1. CASE i \in 1..Len(lines)
    <3>1. /\ \A j \in DOMAIN lines[i].says : lines[i].says[j][1] # 0
          /\ lines[i].calls # <<>> => lines[i].role = "assistant"
          /\ lines[i].role = "system" => \A j \in 1..i : lines[j].role = "system"
      BY <1>3, <2>1 DEF LineInv
    <3>2. all[i] = lines[i] /\ \A j \in 1..i : all[j] = lines[j]
      BY <1>3, <2>1
    <3> QED
      BY <3>1, <3>2
  <2>2. CASE i \notin 1..Len(lines)
    <3>1. i - Len(lines) \in DOMAIN more /\ all[i] = more[i - Len(lines)]
      BY <1>3, <2>2
    <3>2. PICK k \in DOMAIN more : all[i] = more[k]
      BY <3>1
    <3>3. /\ \A j \in DOMAIN more[k].says : more[k].says[j][1] = n
          /\ more[k].calls # <<>> => more[k].role = "assistant"
          /\ more[k].role # "system"
      BY DEF Fresh
    <3> QED
      BY <3>2, <3>3
  <2> QED
    BY <2>1, <2>2
<1> QED
  BY <1>1, <1>3, <1>4, <1>5 DEF LineInv

-----------------------------------------------------------------------------
\* The places the lines carry.

LEMMA LinePlaces ==
  ASSUME NEW l \in Line
  PROVE  PlacesOf(l) \in Seq(Place)
<1>1. l.says \in Seq(Place) /\ l.calls \in Seq([id : Place, at : Place])
  BY DEF Line
<1>2. \A i \in 1..Len(l.calls) : l.calls[i].at \in Place
  <2>1. ASSUME NEW i \in 1..Len(l.calls) PROVE l.calls[i].at \in Place
    <3> DEFINE R == [id : Place, at : Place]
    <3>1. l.calls \in Seq(R)
      BY <1>1
    <3> HIDE DEF R
    <3>2. l.calls[i] \in R
      BY <3>1
    <3> QED
      BY <3>2 DEF R
  <2> QED
    BY <2>1
<1>3. [i \in DOMAIN l.calls |-> l.calls[i].at] \in Seq(Place)
  BY <1>1, <1>2
<1> QED
  BY <1>1, <1>3 DEF PlacesOf

LEMMA HeardConcat ==
  ASSUME NEW s \in Seq(Line), NEW t \in Seq(Line)
  PROVE  /\ HeardIn(s) \in Seq(Place) /\ HeardIn(t) \in Seq(Place)
         /\ HeardIn(s \o t) = HeardIn(s) \o HeardIn(t)
<1> DEFINE T == Seq(Place)
           e == [l \in Line |-> PlacesOf(l)]
<1>1. Maps(e, Line, T)
  BY LinePlaces DEF Maps
<1>2. ASSUME NEW u \in Seq(Line) PROVE HeardIn(u) = FlattenSeq(Each(e, u))
  <2>1. \A i \in DOMAIN u : e[u[i]] = PlacesOf(u[i])
    OBVIOUS
  <2>2. Each(e, u) = [i \in DOMAIN u |-> PlacesOf(u[i])]
    BY <2>1 DEF Each
  <2> QED
    BY <2>2 DEF HeardIn
<1> HIDE DEF e, T
<1>3. Each(e, s) \in Seq(T) /\ Each(e, t) \in Seq(T)
  BY <1>1, EachType
<1>4. Each(e, s \o t) = Each(e, s) \o Each(e, t)
  BY <1>1, EachConcat
<1> USE DEF T
<1>5. FlattenSeq(Each(e, s) \o Each(e, t)) = FlattenSeq(Each(e, s)) \o FlattenSeq(Each(e, t))
  BY <1>3, FlattenConcat
<1>6. FlattenSeq(Each(e, s)) \in Seq(Place) /\ FlattenSeq(Each(e, t)) \in Seq(Place)
  BY <1>3, FlattenType
<1>7. s \o t \in Seq(Line)
  BY Joined
<1>8. HeardIn(s \o t) = FlattenSeq(Each(e, s \o t))
  BY <1>2, <1>7
<1> QED
  BY <1>2, <1>4, <1>5, <1>6, <1>8

LEMMA HeardSingle ==
  ASSUME NEW l \in Line
  PROVE  HeardIn(<<l>>) = PlacesOf(l)
<1>1. DOMAIN <<l>> = 1..1 /\ <<l>>[1] = l
  OBVIOUS
<1>2. [i \in DOMAIN <<l>> |-> PlacesOf(<<l>>[i])] = [i \in 1..1 |-> PlacesOf(l)]
  BY <1>1
<1>3. [i \in DOMAIN <<l>> |-> PlacesOf(<<l>>[i])] = <<PlacesOf(l)>>
  BY <1>2
<1>4. PlacesOf(l) \in Seq(Place)
  BY LinePlaces
<1> QED
  BY <1>3, <1>4, FlattenOne DEF HeardIn

LEMMA HeardNone == HeardIn(<<>>) = <<>>
<1>1. [i \in DOMAIN <<>> |-> PlacesOf(<<>>[i])] = <<>>
  OBVIOUS
<1> QED
  BY <1>1 DEF HeardIn, FlattenSeq

\* Lines that say one thing each are heard one by one.
OneEach(lines) == \A i \in DOMAIN lines : Len(lines[i].says) = 1 /\ lines[i].calls = <<>>

LEMMA HeardOneEach ==
  ASSUME NEW lines \in Seq(Line), OneEach(lines)
  PROVE  /\ Len(HeardIn(lines)) = Len(lines)
         /\ \A i \in 1..Len(lines) : HeardIn(lines)[i] = lines[i].says[1]
<1> DEFINE G == {s \in Seq(Line) : OneEach(s) =>
                   /\ Len(HeardIn(s)) = Len(s)
                   /\ \A i \in 1..Len(s) : HeardIn(s)[i] = s[i].says[1]}
<1>1. <<>> \in G
  <2>1. <<>> \in Seq(Line) /\ Len(<<>>) = 0
    OBVIOUS
  <2> QED
    BY <2>1, HeardNone
<1>2. ASSUME NEW s \in Seq(Line), NEW l \in Line, s \in G PROVE Append(s, l) \in G
  <2>1. PICK t : t = Append(s, l)
    OBVIOUS
  <2>2. /\ t \in Seq(Line) /\ Len(s) \in Nat /\ DOMAIN s = 1..Len(s)
        /\ Len(t) = Len(s) + 1 /\ DOMAIN t = 1..(Len(s) + 1) /\ t[Len(s) + 1] = l
        /\ \A i \in 1..Len(s) : t[i] = s[i]
    BY <2>1, Appended
  <2>3. ASSUME OneEach(t)
        PROVE  Len(HeardIn(t)) = Len(t) /\ \A i \in 1..Len(t) : HeardIn(t)[i] = t[i].says[1]
    <3>1. OneEach(s) /\ Len(l.says) = 1 /\ l.calls = <<>>
      <4>1. \A i \in DOMAIN s : i \in DOMAIN t /\ t[i] = s[i]
        BY <2>2
      <4>2. Len(s) + 1 \in DOMAIN t
        BY <2>2
      <4> QED
        BY <2>2, <2>3, <4>1, <4>2 DEF OneEach
    <3>2. PICK a, b : a = HeardIn(s) /\ b = HeardIn(t)
      OBVIOUS
    <3>3. Len(a) = Len(s) /\ \A i \in 1..Len(s) : a[i] = s[i].says[1]
      BY <1>2, <3>1, <3>2
    <3>4. PlacesOf(l) = l.says /\ l.says \in Seq(Place)
      <4>1. l.says \in Seq(Place)
        BY DEF Line
      <4>2. [i \in DOMAIN <<>> |-> <<>>[i].at] = <<>>
        OBVIOUS
      <4>3. PlacesOf(l) = l.says \o <<>>
        BY <3>1, <4>2 DEF PlacesOf
      <4> QED
        BY <4>1, <4>3, ConcatEmptySeq
    <3>5. a \in Seq(Place) /\ b = a \o l.says
      <4>1. <<l>> \in Seq(Line) /\ t = s \o <<l>>
        BY <2>1, ConcatOne
      <4>2. HeardIn(s) \in Seq(Place) /\ HeardIn(s \o <<l>>) = HeardIn(s) \o HeardIn(<<l>>)
        BY <4>1, HeardConcat
      <4> QED
        BY <3>2, <3>4, <4>1, <4>2, HeardSingle
    <3>6. /\ Len(b) = Len(s) + 1
          /\ \A i \in 1..Len(s) : b[i] = a[i]
          /\ b[Len(s) + 1] = l.says[1]
      <4>1. 1 \in 1..Len(l.says)
        BY <3>1
      <4>2. /\ Len(b) = Len(a) + Len(l.says)
            /\ \A i \in 1..Len(a) : b[i] = a[i]
            /\ \A i \in 1..Len(l.says) : b[Len(a) + i] = l.says[i]
        BY <3>4, <3>5, Joined
      <4> QED
        BY <3>1, <3>3, <4>1, <4>2
    <3>7. ASSUME NEW i \in 1..(Len(s) + 1) PROVE b[i] = t[i].says[1]
      <4>1. CASE i = Len(s) + 1
        BY <2>2, <3>6, <4>1
      <4>2. CASE i # Len(s) + 1
        <5>1. i \in 1..Len(s)
          BY <2>2, <4>2
        <5> QED
          BY <2>2, <3>3, <3>6, <5>1
      <4> QED
        BY <4>1, <4>2
    <3> QED
      BY <2>2, <3>2, <3>6, <3>7
  <2> QED
    BY <2>1, <2>2, <2>3
<1> HIDE DEF G
<1>3. lines \in G
  BY <1>1, <1>2, SeqInduct
<1> QED
  BY <1>3 DEF G

\* The places of the parts of a message, heard in one piece.
Sayable(m) == {m.parts[i].at : i \in {j \in DOMAIN m.parts : m.parts[j].kind # "thinking"}}

MessageHeard(m, heard, n) ==
    /\ heard \in Seq(Place) /\ IsInjective(heard) /\ Range(heard) = Sayable(m)
    /\ \A i \in DOMAIN heard : heard[i][1] = n
    /\ m.kind = "request" => \A i \in 2..Len(heard) : heard[i - 1][2] < heard[i][2]

LEMMA RequestHeard ==
  ASSUME NEW n \in Nat, NEW m, Mappable(m), m.kind = "request", PartsInv(n, m.parts)
  PROVE  MessageHeard(m, HeardIn(MapMessage(m)), n)
<1>1. PICK N, H, parts : N = MapMessage(m) /\ H = HeardIn(N) /\ parts = m.parts
  OBVIOUS
<1>2. /\ N \in Seq(Line) /\ Len(N) = Len(parts) /\ Len(parts) \in Nat /\ parts \in Seq(PartOf(RequestKinds))
      /\ \A i \in 1..Len(parts) : N[i] = MapRequestPart(parts[i])
            /\ parts[i] \in PartOf(RequestKinds) /\ parts[i].kind # "image"
  BY <1>1, RequestMapped
<1>3. ASSUME NEW i \in 1..Len(parts)
      PROVE  /\ N[i].says = <<<<n, i>>>> /\ N[i].calls = <<>>
             /\ parts[i].at = <<n, i>> /\ parts[i].kind # "thinking"
  <2>1. i \in DOMAIN parts
    BY <1>2
  <2>2. parts[i].at = <<n, i>>
    BY <1>1, <2>1 DEF PartsInv
  <2>3. PICK p \in PartOf(RequestKinds) : p = parts[i] /\ p.kind # "image" /\ N[i] = MapRequestPart(p)
    BY <1>2
  <2>4. MapRequestPart(p).says = <<p.at>> /\ MapRequestPart(p).calls = <<>>
    BY <2>3, RequestPartMapped
  <2>5. p.kind # "thinking"
    BY DEF PartOf, RequestKinds
  <2> QED
    BY <2>2, <2>3, <2>4, <2>5
<1>4. Len(H) = Len(parts) /\ \A i \in 1..Len(parts) : H[i] = <<n, i>>
  <2>1. DOMAIN N = 1..Len(parts)
    BY <1>2
  <2>2. OneEach(N)
    <3>1. ASSUME NEW i \in DOMAIN N PROVE Len(N[i].says) = 1 /\ N[i].calls = <<>>
      <4>1. N[i].says = <<<<n, i>>>> /\ N[i].calls = <<>>
        BY <1>3, <2>1
      <4> QED
        BY <4>1
    <3> QED
      BY <3>1 DEF OneEach
  <2>3. Len(HeardIn(N)) = Len(N) /\ \A i \in 1..Len(N) : HeardIn(N)[i] = N[i].says[1]
    BY <1>2, <2>2, HeardOneEach
  <2>4. ASSUME NEW i \in 1..Len(parts) PROVE H[i] = <<n, i>>
    <3>1. H[i] = N[i].says[1] /\ N[i].says = <<<<n, i>>>>
      BY <1>1, <1>2, <1>3, <2>3
    <3> QED
      BY <3>1
  <2> QED
    BY <1>1, <1>2, <2>3, <2>4
<1>5. H \in Seq(Place) /\ DOMAIN H = 1..Len(parts) /\ DOMAIN parts = 1..Len(parts)
  <2>1. HeardIn(N) \in Seq(Place)
    BY <1>2, HeardConcat
  <2> QED
    BY <1>1, <1>2, <1>4, <2>1
<1>6. IsInjective(H)
  BY <1>4, <1>5 DEF IsInjective
<1>7. \A i \in DOMAIN H : H[i] = parts[i].at /\ H[i][1] = n
  <2>1. ASSUME NEW i \in DOMAIN H PROVE H[i] = parts[i].at /\ H[i][1] = n
    <3>1. i \in 1..Len(parts)
      BY <1>5
    <3>2. H[i] = <<n, i>> /\ parts[i].at = <<n, i>>
      BY <1>3, <1>4, <3>1
    <3> QED
      BY <3>2
  <2> QED
    BY <2>1
<1>8. Range(H) = Sayable(m)
  <2>1. {j \in DOMAIN parts : parts[j].kind # "thinking"} = DOMAIN H
    BY <1>3, <1>5
  <2>2. Sayable(m) = {parts[i].at : i \in DOMAIN H}
    BY <1>1, <2>1 DEF Sayable
  <2> QED
    BY <1>7, <2>2 DEF Range
<1>9. ASSUME NEW i \in 2..Len(H) PROVE H[i - 1][2] < H[i][2]
  <2>1. i \in 1..Len(parts) /\ i - 1 \in 1..Len(parts) /\ i - 1 < i
    BY <1>2, <1>4
  <2>2. H[i] = <<n, i>> /\ H[i - 1] = <<n, i - 1>>
    BY <1>4, <2>1
  <2> QED
    BY <2>1, <2>2
<1> QED
  BY <1>1, <1>5, <1>6, <1>7, <1>8, <1>9 DEF MessageHeard

LEMMA ResponseHeard ==
  ASSUME NEW n \in Nat, NEW m, Mappable(m), m.kind = "response", PartsInv(n, m.parts)
  PROVE  MessageHeard(m, HeardIn(MapMessage(m)), n)
<1>1. PICK a, H, parts, texts, calls :
         /\ a = MapAssistantMessage(m) /\ H = HeardIn(MapMessage(m)) /\ parts = m.parts
         /\ texts = TextsOf(parts) /\ calls = CallsOf(parts)
  OBVIOUS
<1>2. m \in Message /\ parts \in Seq(PartOf(ResponseKinds)) /\ MapMessage(m) = <<a>>
  BY <1>1, ResponseMapped DEF Message
<1>3. /\ a \in Line /\ a.says = Places(texts) /\ DOMAIN a.calls = DOMAIN calls
      /\ \A c \in DOMAIN calls : a.calls[c].at = calls[c].at
  BY <1>1, <1>2, AssistantMapped
<1>4. /\ texts \in Seq(PartOf(ResponseKinds)) /\ Selects(texts, parts, "text")
      /\ calls \in Seq(PartOf(ResponseKinds)) /\ Selects(calls, parts, "call")
  BY <1>1, <1>2, OfKindSelects DEF TextsOf, CallsOf
<1>5. H = PlacesOf(a) /\ H \in Seq(Place)
  BY <1>1, <1>2, <1>3, HeardSingle, LinePlaces
<1>6. /\ Len(H) = Len(texts) + Len(calls) /\ Len(texts) \in Nat /\ Len(calls) \in Nat
      /\ \A i \in 1..Len(texts) : H[i] = texts[i].at
      /\ \A i \in 1..(Len(texts) + Len(calls)) :
           i \notin 1..Len(texts) => i - Len(texts) \in 1..Len(calls) /\ H[i] = calls[i - Len(texts)].at
      /\ \A c \in 1..Len(calls) : Len(texts) + c \in 1..Len(H) /\ H[Len(texts) + c] = calls[c].at
  <2>1. PICK s, t : s = a.says /\ t = [i \in DOMAIN a.calls |-> a.calls[i].at]
    OBVIOUS
  <2>2. DOMAIN calls = 1..Len(calls) /\ DOMAIN texts = 1..Len(texts) /\ Len(texts) \in Nat /\ Len(calls) \in Nat
    BY <1>4
  <2>3. s \in Seq(Place) /\ Len(s) = Len(texts) /\ \A i \in 1..Len(texts) : s[i] = texts[i].at
    <3>1. s = [i \in 1..Len(texts) |-> texts[i].at]
      BY <1>3, <2>1, <2>2 DEF Places
    <3>2. s \in Seq(Place)
      BY <1>3, <2>1 DEF Line
    <3> QED
      BY <2>2, <3>1, <3>2
  <2>4. \A i \in 1..Len(calls) : calls[i].at \in Place
    <3>1. ASSUME NEW i \in 1..Len(calls) PROVE calls[i].at \in Place
      <4>1. calls[i] \in PartOf(ResponseKinds)
        BY <1>4
      <4> QED
        BY <4>1 DEF PartOf
    <3> QED
      BY <3>1
  <2>5. t \in Seq(Place) /\ Len(t) = Len(calls) /\ \A i \in 1..Len(calls) : t[i] = calls[i].at
    <3>1. t = [i \in 1..Len(calls) |-> a.calls[i].at]
      BY <1>3, <2>1, <2>2
    <3>2. \A i \in 1..Len(calls) : a.calls[i].at = calls[i].at
      BY <1>3, <2>2
    <3>3. t = [i \in 1..Len(calls) |-> calls[i].at]
      BY <3>1, <3>2
    <3> QED
      BY <2>2, <2>4, <3>3
  <2>6. H = s \o t
    BY <1>5, <2>1 DEF PlacesOf
  <2>7. /\ Len(H) = Len(s) + Len(t)
        /\ \A i \in 1..Len(s) : H[i] = s[i]
        /\ \A i \in 1..Len(t) : H[Len(s) + i] = t[i]
        /\ \A i \in 1..(Len(s) + Len(t)) :
             i \notin 1..Len(s) => i - Len(s) \in 1..Len(t) /\ H[i] = t[i - Len(s)]
    <3>1. JoinOf(H, s, t, Place)
      BY <2>3, <2>5, <2>6, JoinIs
    <3> QED
      BY <3>1 DEF JoinOf
  <2>8. ASSUME NEW c \in 1..Len(calls)
        PROVE  Len(texts) + c \in 1..Len(H) /\ H[Len(texts) + c] = calls[c].at
    <3>1. H[Len(texts) + c] = calls[c].at
      BY <2>3, <2>5, <2>7
    <3> QED
      BY <2>2, <2>3, <2>5, <2>7, <3>1
  <2>9. ASSUME NEW i \in 1..(Len(texts) + Len(calls)), i \notin 1..Len(texts)
        PROVE  i - Len(texts) \in 1..Len(calls) /\ H[i] = calls[i - Len(texts)].at
    <3>1. i - Len(texts) \in 1..Len(calls) /\ H[i] = t[i - Len(texts)]
      BY <2>3, <2>5, <2>7, <2>9
    <3> QED
      BY <2>5, <3>1
  <2>10. Len(H) = Len(texts) + Len(calls) /\ \A i \in 1..Len(texts) : H[i] = texts[i].at
    BY <2>3, <2>5, <2>7
  <2> QED
    BY <2>2, <2>8, <2>9, <2>10
<1>7. DOMAIN H = 1..(Len(texts) + Len(calls)) /\ DOMAIN texts = 1..Len(texts) /\ DOMAIN calls = 1..Len(calls)
  BY <1>4, <1>5, <1>6
<1>8. \A i \in DOMAIN parts : parts[i].at = <<n, i>>
  BY <1>1 DEF PartsInv
<1>9. Numbered(parts)
  BY <1>8 DEF Numbered
<1>10. /\ \A i, j \in 1..Len(texts) : i < j => texts[i].at[2] < texts[j].at[2]
       /\ \A i, j \in 1..Len(calls) : i < j => calls[i].at[2] < calls[j].at[2]
  BY <1>4, <1>7, <1>9 DEF Selects
\* where a place comes from
<1> DEFINE From(i, k) ==
             /\ H[i] = <<n, k>> /\ H[i] = parts[k].at
             /\ i \in 1..Len(texts) => H[i] = texts[i].at /\ parts[k].kind = "text"
             /\ i \notin 1..Len(texts) => parts[k].kind = "call"
                    /\ i - Len(texts) \in 1..Len(calls) /\ H[i] = calls[i - Len(texts)].at
<1>11. ASSUME NEW i \in DOMAIN H PROVE \E k \in DOMAIN parts : From(i, k)
  <2>1. CASE i \in 1..Len(texts)
    <3>1. H[i] = texts[i].at /\ i \in DOMAIN texts
      BY <1>6, <1>7, <2>1
    <3>2. texts[i].kind = "text"
      BY <1>4, <3>1 DEF Selects
    <3>3. PICK k \in DOMAIN parts : texts[i] = parts[k]
      BY <1>4, <3>1 DEF Selects
    <3> QED
      BY <1>8, <2>1, <3>1, <3>2, <3>3
  <2>2. CASE i \notin 1..Len(texts)
    <3>1. i - Len(texts) \in 1..Len(calls) /\ H[i] = calls[i - Len(texts)].at
      BY <1>6, <1>7, <2>2
    <3>2. PICK c \in DOMAIN calls : c = i - Len(texts)
      BY <1>7, <3>1
    <3>3. calls[c].kind = "call"
      BY <1>4 DEF Selects
    <3>4. PICK k \in DOMAIN parts : calls[c] = parts[k]
      BY <1>4 DEF Selects
    <3> QED
      BY <1>8, <2>2, <3>1, <3>2, <3>3, <3>4
  <2> QED
    BY <2>1, <2>2
<1> HIDE DEF From
<1>12. \A i \in DOMAIN H : H[i][1] = n
  <2>1. ASSUME NEW i \in DOMAIN H PROVE H[i][1] = n
    <3>1. PICK k \in DOMAIN parts : From(i, k)
      BY <1>11
    <3>2. H[i] = <<n, k>>
      BY <3>1 DEF From
    <3> QED
      BY <3>2
  <2> QED
    BY <2>1
<1>13. ASSUME NEW i \in DOMAIN H, NEW j \in DOMAIN H, H[i] = H[j] PROVE i = j
  <2>1. PICK k \in DOMAIN parts : From(i, k)
    BY <1>11
  <2>2. PICK l \in DOMAIN parts : From(j, l)
    BY <1>11
  <2>3. k = l /\ k \in Nat
    <3>1. H[i] = <<n, k>> /\ H[j] = <<n, l>>
      BY <2>1, <2>2 DEF From
    <3>2. <<n, k>> = <<n, l>>
      BY <1>13, <3>1
    <3>3. k = l
      BY <3>2
    <3> QED
      BY <1>2, <3>3
  <2>4. CASE i \in 1..Len(texts)
    <3>1. j \in 1..Len(texts)
      BY <2>1, <2>2, <2>3, <2>4 DEF From
    <3>2. texts[i].at[2] = k /\ texts[j].at[2] = k
      <4>1. texts[i].at = <<n, k>> /\ texts[j].at = <<n, l>>
        BY <2>1, <2>2, <2>4, <3>1 DEF From
      <4> QED
        BY <2>3, <4>1
    <3>3. ~(i < j) /\ ~(j < i)
      BY <1>10, <2>3, <2>4, <3>1, <3>2
    <3> QED
      BY <2>4, <3>1, <3>3
  <2>5. CASE i \notin 1..Len(texts)
    <3>1. j \notin 1..Len(texts)
      BY <2>1, <2>2, <2>3, <2>5 DEF From
    <3>2. PICK u, v : u = i - Len(texts) /\ v = j - Len(texts)
      OBVIOUS
    <3>3. /\ u \in 1..Len(calls) /\ v \in 1..Len(calls)
          /\ calls[u].at[2] = k /\ calls[v].at[2] = k
      <4>1. u \in 1..Len(calls) /\ v \in 1..Len(calls) /\ calls[u].at = <<n, k>> /\ calls[v].at = <<n, l>>
        BY <2>1, <2>2, <2>5, <3>1, <3>2 DEF From
      <4> QED
        BY <2>3, <4>1
    <3>4. ~(u < v) /\ ~(v < u)
      BY <1>10, <2>3, <3>3
    <3>5. u = v
      BY <3>3, <3>4
    <3> QED
      BY <1>6, <1>7, <3>2, <3>5
  <2> QED
    BY <2>4, <2>5
<1>14. IsInjective(H)
  BY <1>13 DEF IsInjective
<1>15. Range(H) \subseteq Sayable(m)
  <2>1. ASSUME NEW i \in DOMAIN H PROVE H[i] \in Sayable(m)
    <3>1. PICK k \in DOMAIN parts : From(i, k)
      BY <1>11, <2>1
    <3>2. H[i] = parts[k].at /\ parts[k].kind # "thinking"
      BY <3>1 DEF From
    <3> QED
      BY <1>1, <3>2 DEF Sayable
  <2> QED
    BY <2>1 DEF Range
<1>16. Sayable(m) \subseteq Range(H)
  <2>1. ASSUME NEW k \in DOMAIN parts, parts[k].kind # "thinking" PROVE parts[k].at \in Range(H)
    <3>1. parts[k].kind \in {"text", "call"}
      <4>1. parts[k] \in PartOf(ResponseKinds)
        BY <1>2
      <4> QED
        BY <2>1, <4>1 DEF PartOf, ResponseKinds
    <3>2. CASE parts[k].kind = "text"
      <4>1. PICK i \in DOMAIN texts : texts[i] = parts[k]
        BY <1>4, <3>2 DEF Selects
      <4>2. i \in DOMAIN H /\ H[i] = parts[k].at
        BY <1>6, <1>7, <4>1
      <4> QED
        BY <4>2 DEF Range
    <3>3. CASE parts[k].kind = "call"
      <4>1. PICK c \in DOMAIN calls : calls[c] = parts[k]
        BY <1>4, <3>3 DEF Selects
      <4>2. Len(texts) + c \in DOMAIN H /\ H[Len(texts) + c] = parts[k].at
        BY <1>6, <1>7, <4>1
      <4> QED
        BY <4>2 DEF Range
    <3> QED
      BY <3>1, <3>2, <3>3
  <2> QED
    BY <1>1, <2>1 DEF Sayable
<1> QED
  BY <1>1, <1>5, <1>12, <1>14, <1>15, <1>16 DEF MessageHeard

\* A message more, and its places behind the others.
LEMMA HeardGrows ==
  ASSUME NEW h, HistoryInv(h), NEW m, NEW n, n = Len(h) + 1, m \in Message, PartsInv(n, m.parts),
         NEW H, HeardInv(h, H), NEW N, MessageHeard(m, N, n)
  PROVE  HeardInv(Append(h, m), H \o N)
<1>1. PICK g, A : g = Append(h, m) /\ A = H \o N
  OBVIOUS
<1>2. /\ h \in Seq(Message) /\ Len(h) \in Nat /\ n \in Nat
      /\ DOMAIN h = 1..Len(h) /\ DOMAIN g = 1..n /\ g[n] = m /\ n \notin 1..Len(h)
      /\ \A k \in 1..Len(h) : g[k] = h[k] /\ k < n /\ k \in 1..n
      /\ \A k \in 1..n : k = n \/ k \in 1..Len(h)
  <2>1. h \in Seq(Message)
    BY DEF HistoryInv
  <2>2. /\ Len(h) \in Nat /\ DOMAIN h = 1..Len(h) /\ DOMAIN g = 1..(Len(h) + 1) /\ g[Len(h) + 1] = m
        /\ \A k \in 1..Len(h) : g[k] = h[k]
    BY <1>1, <2>1, Appended
  <2> QED
    BY <2>1, <2>2
<1>3. /\ H \in Seq(Place) /\ IsInjective(H) /\ Range(H) = SayableIn(h)
      /\ N \in Seq(Place) /\ IsInjective(N) /\ Range(N) = Sayable(m)
      /\ \A i \in DOMAIN N : N[i][1] = n
  BY DEF HeardInv, MessageHeard
<1>4. /\ A \in Seq(Place) /\ Len(H) \in Nat /\ Len(N) \in Nat
      /\ DOMAIN H = 1..Len(H) /\ DOMAIN N = 1..Len(N)
      /\ Len(A) = Len(H) + Len(N) /\ DOMAIN A = 1..(Len(H) + Len(N))
      /\ \A i \in 1..Len(H) : A[i] = H[i]
      /\ \A i \in 1..Len(N) : A[Len(H) + i] = N[i]
      /\ \A i \in 1..(Len(H) + Len(N)) :
           i \notin 1..Len(H) => i - Len(H) \in 1..Len(N) /\ A[i] = N[i - Len(H)]
  <2>1. JoinOf(A, H, N, Place)
    BY <1>1, <1>3, JoinIs
  <2> QED
    BY <2>1 DEF JoinOf
\* the old places are of old messages
<1>5. ASSUME NEW i \in 1..Len(H) PROVE H[i][1] \in 1..Len(h)
  <2>1. H[i] \in SayableIn(h)
    BY <1>3, <1>4 DEF Range
  <2>2. PICK k \in DOMAIN h : \E j \in DOMAIN h[k].parts : H[i] = h[k].parts[j].at
    BY <2>1 DEF SayableIn
  <2>3. PICK j \in DOMAIN h[k].parts : H[i] = h[k].parts[j].at
    BY <2>2
  <2>4. h[k].parts[j].at = <<k, j>>
    BY DEF HistoryInv, PartsInv
  <2>5. H[i] = <<k, j>>
    BY <2>3, <2>4
  <2>6. H[i][1] = k
    BY <2>5
  <2> QED
    BY <1>2, <2>6
<1>6. ASSUME NEW i \in DOMAIN A
      PROVE  \/ i \in 1..Len(H) /\ A[i] = H[i] /\ A[i][1] \in 1..Len(h)
             \/ i \notin 1..Len(H) /\ i - Len(H) \in 1..Len(N) /\ A[i] = N[i - Len(H)] /\ A[i][1] = n
  <2>1. CASE i \in 1..Len(H)
    BY <1>4, <1>5, <2>1
  <2>2. CASE i \notin 1..Len(H)
    BY <1>3, <1>4, <2>2
  <2> QED
    BY <2>1, <2>2
<1>7. IsInjective(A)
  <2>1. ASSUME NEW i \in DOMAIN A, NEW j \in DOMAIN A, A[i] = A[j] PROVE i = j
    <3>1. CASE i \in 1..Len(H)
      <4>1. j \in 1..Len(H)
        BY <1>2, <1>6, <2>1, <3>1
      <4>2. H[i] = H[j]
        BY <1>4, <2>1, <3>1, <4>1
      <4> QED
        BY <1>3, <1>4, <3>1, <4>1, <4>2 DEF IsInjective
    <3>2. CASE i \notin 1..Len(H)
      <4>1. j \notin 1..Len(H)
        BY <1>2, <1>6, <2>1, <3>2
      <4>2. PICK u, v : u = i - Len(H) /\ v = j - Len(H)
        OBVIOUS
      <4>3. u \in DOMAIN N /\ v \in DOMAIN N /\ N[u] = N[v]
        BY <1>4, <1>6, <2>1, <3>2, <4>1, <4>2
      <4>4. u = v
        BY <1>3, <4>3 DEF IsInjective
      <4> QED
        BY <1>4, <4>2, <4>4
    <3> QED
      BY <3>1, <3>2
  <2> QED
    BY <2>1 DEF IsInjective
<1>8. Range(A) = Range(H) \cup Range(N)
  <2>1. ASSUME NEW i \in DOMAIN A PROVE A[i] \in Range(H) \cup Range(N)
    BY <1>4, <1>6 DEF Range
  <2>2. ASSUME NEW i \in DOMAIN H PROVE H[i] \in Range(A)
    <3>1. i \in DOMAIN A /\ A[i] = H[i]
      BY <1>4
    <3> QED
      BY <3>1 DEF Range
  <2>3. ASSUME NEW i \in DOMAIN N PROVE N[i] \in Range(A)
    <3>1. Len(H) + i \in DOMAIN A /\ A[Len(H) + i] = N[i]
      BY <1>4
    <3> QED
      BY <3>1 DEF Range
  <2>4. Range(A) \subseteq Range(H) \cup Range(N)
    BY <2>1 DEF Range
  <2>5. Range(H) \subseteq Range(A) /\ Range(N) \subseteq Range(A)
    BY <2>2, <2>3 DEF Range
  <2> QED
    BY <2>4, <2>5
<1>9. SayableIn(g) = SayableIn(h) \cup Sayable(m)
  <2> DEFINE of(x) == {x.parts[i].at : i \in {j \in DOMAIN x.parts : x.parts[j].kind # "thinking"}}
  <2>1. /\ SayableIn(g) = UNION {of(g[k]) : k \in DOMAIN g}
        /\ SayableIn(h) = UNION {of(h[k]) : k \in DOMAIN h}
        /\ Sayable(m) = of(m)
    BY DEF SayableIn, Sayable
  <2> HIDE DEF of
  <2>2. \A k \in DOMAIN h : k \in DOMAIN g /\ g[k] = h[k]
    BY <1>2
  <2>3. n \in DOMAIN g /\ g[n] = m /\ \A k \in DOMAIN g : k = n \/ k \in DOMAIN h
    BY <1>2
  <2>4. UNION {of(g[k]) : k \in DOMAIN g} \subseteq (UNION {of(h[k]) : k \in DOMAIN h}) \cup of(m)
    BY <2>2, <2>3
  <2>5. UNION {of(h[k]) : k \in DOMAIN h} \subseteq UNION {of(g[k]) : k \in DOMAIN g}
    BY <2>2
  <2>6. of(m) \subseteq UNION {of(g[k]) : k \in DOMAIN g}
    BY <2>3
  <2> QED
    BY <2>1, <2>4, <2>5, <2>6
<1>10. ASSUME NEW i \in 2..Len(A)
       PROVE  \/ A[i - 1][1] < A[i][1]
              \/ /\ A[i - 1][1] = A[i][1]
                 /\ g[A[i][1]].kind = "request" => A[i - 1][2] < A[i][2]
  <2>1. i \in DOMAIN A /\ i - 1 \in DOMAIN A /\ i \in Nat
    BY <1>4
  <2>2. CASE i \in 1..Len(H)
    <3>1. i \in 2..Len(H) /\ i - 1 \in 1..Len(H)
      BY <1>4, <2>1, <2>2
    <3>2. A[i] = H[i] /\ A[i - 1] = H[i - 1]
      BY <1>4, <3>1
    <3>3. \/ H[i - 1][1] < H[i][1]
          \/ /\ H[i - 1][1] = H[i][1]
             /\ h[H[i][1]].kind = "request" => H[i - 1][2] < H[i][2]
      BY <3>1 DEF HeardInv
    <3>4. g[H[i][1]] = h[H[i][1]]
      BY <1>2, <1>5, <3>1
    <3> QED
      BY <3>2, <3>3, <3>4
  <2>3. CASE i \notin 1..Len(H) /\ i - 1 \in 1..Len(H)
    <3>1. A[i][1] = n /\ A[i - 1][1] \in 1..Len(h)
      BY <1>6, <2>1, <2>3
    <3> QED
      BY <1>2, <3>1
  <2>4. CASE i \notin 1..Len(H) /\ i - 1 \notin 1..Len(H)
    <3>1. PICK u : u = i - Len(H)
      OBVIOUS
    <3>2. /\ u \in 2..Len(N) /\ A[i] = N[u] /\ A[i][1] = n /\ A[i - 1][1] = n
          /\ A[i - 1] = N[u - 1]
      <4>1. (i - 1) - Len(H) = u - 1
        BY <1>4, <2>1, <3>1
      <4>2. /\ u \in 1..Len(N) /\ A[i] = N[u] /\ A[i][1] = n
            /\ u - 1 \in 1..Len(N) /\ A[i - 1] = N[u - 1] /\ A[i - 1][1] = n
        BY <1>6, <2>1, <2>4, <3>1, <4>1
      <4> QED
        BY <1>4, <4>2
    <3>3. m.kind = "request" => N[u - 1][2] < N[u][2]
      BY <3>2 DEF MessageHeard
    <3> QED
      BY <1>2, <3>2, <3>3
  <2> QED
    BY <2>2, <2>3, <2>4
<1>11. HeardInv(g, A)
  BY <1>3, <1>4, <1>7, <1>8, <1>9, <1>10 DEF HeardInv
<1> QED
  BY <1>1, <1>11

LEMMA HeardFirst ==
  ASSUME NEW m, NEW N, MessageHeard(m, N, 1)
  PROVE  HeardInv(<<m>>, N)
<1>1. /\ N \in Seq(Place) /\ IsInjective(N) /\ Range(N) = Sayable(m)
      /\ \A i \in DOMAIN N : N[i][1] = 1
      /\ m.kind = "request" => \A i \in 2..Len(N) : N[i - 1][2] < N[i][2]
  BY DEF MessageHeard
<1>2. SayableIn(<<m>>) = Sayable(m)
  <2> DEFINE of(x) == {x.parts[i].at : i \in {j \in DOMAIN x.parts : x.parts[j].kind # "thinking"}}
  <2>1. SayableIn(<<m>>) = UNION {of(<<m>>[k]) : k \in DOMAIN <<m>>} /\ Sayable(m) = of(m)
    BY DEF SayableIn, Sayable
  <2>2. DOMAIN <<m>> = {1} /\ <<m>>[1] = m
    OBVIOUS
  <2> HIDE DEF of
  <2>3. UNION {of(<<m>>[k]) : k \in DOMAIN <<m>>} = of(m)
    BY <2>2
  <2> QED
    BY <2>1, <2>3
<1>3. ASSUME NEW i \in 2..Len(N)
      PROVE  N[i - 1][1] = N[i][1] /\ (<<m>>[N[i][1]].kind = "request" => N[i - 1][2] < N[i][2])
  <2>1. i \in DOMAIN N /\ i - 1 \in DOMAIN N
    BY <1>1
  <2>2. N[i - 1][1] = 1 /\ N[i][1] = 1
    BY <1>1, <2>1
  <2>3. <<m>>[1] = m
    OBVIOUS
  <2> QED
    BY <1>1, <2>2, <2>3
<1> QED
  BY <1>1, <1>2, <1>3 DEF HeardInv

-----------------------------------------------------------------------------
\* Calls and the lines that answer them.

LEMMA SameSize ==
  ASSUME NEW S, IsFiniteSet(S), NEW T, NEW f \in [S -> T],
         \A a, b \in S : f[a] = f[b] => a = b, \A t \in T : \E a \in S : f[a] = t
  PROVE  IsFiniteSet(T) /\ Cardinality(T) = Cardinality(S)
<1>1. f \in Bijection(S, T)
  BY DEF Bijection, Injection, Surjection, IsInjective
<1>2. ExistsBijection(S, T)
  BY <1>1 DEF ExistsBijection
<1> QED
  BY <1>2, FS_Bijection

\* An order of the first k numbers leaves none of them out.
LEMMA OrderIsOnto ==
  ASSUME NEW k \in Nat, NEW order \in [1..k -> 1..k], IsInjective(order)
  PROVE  \A j \in 1..k : \E i \in 1..k : order[i] = j
<1> DEFINE S == 1..k
<1>1. IsFiniteSet(S)
  BY FS_Interval
<1>2. order \in Injection(S, S)
  BY DEF Injection
<1> HIDE DEF S
<1>3. order \in Surjection(S, S)
  BY <1>1, <1>2, FS_Injection
<1> QED
  BY <1>3 DEF Surjection, S

Permutes(order, k) == order \in [1..k -> 1..k] /\ IsInjective(order)

LEMMA TimesReordered ==
  ASSUME NEW k \in Nat, NEW ids, DOMAIN ids = 1..k, NEW order, Permutes(order, k),
         NEW given, given = [c \in 1..k |-> ids[order[c]]], NEW id
  PROVE  Times(id, ids) = Times(id, given)
<1> DEFINE A == {i \in DOMAIN given : given[i] = id}
           B == {i \in DOMAIN ids : ids[i] = id}
           f == [i \in A |-> order[i]]
<1>0. order \in [1..k -> 1..k] /\ IsInjective(order) /\ DOMAIN order = 1..k
  BY DEF Permutes
<1>1. DOMAIN given = 1..k /\ \A i \in 1..k : given[i] = ids[order[i]] /\ order[i] \in 1..k
  BY <1>0
<1>2. f \in [A -> B]
  BY <1>1
<1>3. \A i, j \in A : f[i] = f[j] => i = j
  BY <1>0, <1>1 DEF IsInjective
<1>4. \A j \in B : \E i \in A : f[i] = j
  <2>1. ASSUME NEW j \in B PROVE \E i \in A : f[i] = j
    <3>1. PICK i \in 1..k : order[i] = j
      BY <1>0, OrderIsOnto
    <3>2. i \in A
      BY <1>1, <3>1
    <3> QED
      BY <3>1, <3>2
  <2> QED
    BY <2>1
<1>5. IsFiniteSet(A)
  <2>1. IsFiniteSet(1..k) /\ A \in SUBSET (1..k)
    BY <1>1, FS_Interval
  <2> QED
    BY <2>1, FS_Subset
<1> HIDE DEF A, B, f
<1>6. Cardinality(B) = Cardinality(A)
  BY <1>2, <1>3, <1>4, <1>5, SameSize
<1> QED
  BY <1>6 DEF A, B, Times

LEMMA LineType ==
  ASSUME NEW lines \in Seq(Line), NEW i \in DOMAIN lines
  PROVE  /\ lines[i] \in Line /\ Len(lines[i].calls) \in Nat
         /\ DOMAIN lines[i].calls = 1..Len(lines[i].calls)
         /\ lines[i].calls = <<>> <=> Len(lines[i].calls) = 0
<1> DEFINE R == [id : Place, at : Place]
<1>1. lines[i] \in Line
  OBVIOUS
<1>2. lines[i].calls \in Seq(R)
  BY <1>1 DEF Line
<1> HIDE DEF R
<1> QED
  BY <1>1, <1>2

\* Whether the calls of line i are answered among the first n.
Answered(lines, n, i) ==
    /\ \A j \in BlockOf(lines, i) : j \in 1..n /\ lines[j].role = "tool"
    /\ \A id \in Range(AskedBy(lines, i)) :
          Times(id, AskedBy(lines, i)) = Times(id, GivenTo(lines, i))

LEMMA AnsweredAlike ==
  ASSUME NEW lines \in Seq(Line), NEW all \in Seq(Line), NEW n \in Nat, n <= Len(lines), n <= Len(all),
         \A i \in 1..n : all[i] = lines[i], NEW i \in 1..n, Answered(lines, n, i),
         NEW more \in Nat, more >= n
  PROVE  Answered(all, more, i) /\ BlockOf(all, i) = BlockOf(lines, i)
<1>1. i \in DOMAIN lines /\ all[i] = lines[i]
  OBVIOUS
<1>2. PICK calls, k : calls = lines[i].calls /\ k = Len(calls)
  OBVIOUS
<1>3. k \in Nat /\ DOMAIN calls = 1..k
  BY <1>1, <1>2, LineType
<1>4. BlockOf(all, i) = (i + 1)..(i + k) /\ BlockOf(lines, i) = (i + 1)..(i + k)
  BY <1>1, <1>2 DEF BlockOf
<1>5. AskedBy(all, i) = AskedBy(lines, i)
  BY <1>1 DEF AskedBy
<1>6. \A j \in BlockOf(lines, i) : j \in 1..n /\ j \in 1..more /\ all[j] = lines[j] /\ lines[j].role = "tool"
  BY DEF Answered
<1>7. GivenTo(all, i) = GivenTo(lines, i)
  <2>1. ASSUME NEW c \in 1..k PROVE all[i + c] = lines[i + c]
    <3>1. i + c \in BlockOf(lines, i)
      BY <1>3, <1>4
    <3> QED
      BY <1>6, <3>1
  <2>2. /\ GivenTo(all, i) = [c \in 1..k |-> all[i + c].call]
        /\ GivenTo(lines, i) = [c \in 1..k |-> lines[i + c].call]
    BY <1>1, <1>2, <1>3 DEF GivenTo
  <2> QED
    BY <2>1, <2>2
<1> QED
  BY <1>4, <1>5, <1>6, <1>7 DEF Answered

LEMMA NoneToAnswer ==
  ASSUME NEW lines \in Seq(Line), NEW i \in DOMAIN lines, lines[i].calls = <<>>, NEW n
  PROVE  Answered(lines, n, i) /\ BlockOf(lines, i) = {}
<1>1. Len(lines[i].calls) = 0 /\ DOMAIN lines[i].calls = 1..0 /\ i \in Nat
  BY LineType
<1>2. BlockOf(lines, i) = {}
  BY <1>1 DEF BlockOf
<1>3. Range(AskedBy(lines, i)) = {}
  BY <1>1 DEF AskedBy, Range
<1> QED
  BY <1>2, <1>3 DEF Answered

LEMMA PairedIs ==
  ASSUME NEW lines, NEW n
  PROVE  PairedUpTo(lines, n) <=>
           /\ \A i \in 1..n : Answered(lines, n, i)
           /\ \A j \in 1..n : lines[j].role = "tool" => \E i \in 1..n : j \in BlockOf(lines, i)
BY DEF PairedUpTo, Answered

\* Lines that are added leave the pairs before them alone.
LEMMA PairsStay ==
  ASSUME NEW lines \in Seq(Line), NEW all \in Seq(Line), NEW n \in Nat, n <= Len(lines), n <= Len(all),
         \A i \in 1..n : all[i] = lines[i], PairedUpTo(lines, n)
  PROVE  PairedUpTo(all, n)
<1>1. ASSUME NEW i \in 1..n PROVE Answered(all, n, i) /\ BlockOf(all, i) = BlockOf(lines, i)
  <2>1. Answered(lines, n, i)
    BY PairedIs
  <2> QED
    BY <2>1, AnsweredAlike
<1>2. ASSUME NEW j \in 1..n, all[j].role = "tool" PROVE \E i \in 1..n : j \in BlockOf(all, i)
  <2>1. lines[j].role = "tool"
    BY <1>2
  <2>2. PICK i \in 1..n : j \in BlockOf(lines, i)
    BY <2>1, PairedIs
  <2> QED
    BY <1>1, <2>2
<1> QED
  BY <1>1, <1>2, PairedIs

\* What a request says to the assistant line before it: the results of its
\* calls, in some order, or something else when it made none.
Replied(more, a) ==
    /\ more \in Seq(Line) /\ \A i \in DOMAIN more : more[i].calls = <<>>
    /\ IF a.calls = <<>>
       THEN \A i \in DOMAIN more : more[i].role # "tool"
       ELSE /\ Len(more) = Len(a.calls)
            /\ \A i \in DOMAIN more : more[i].role = "tool"
            /\ \E order : /\ Permutes(order, Len(a.calls))
                         /\ \A i \in 1..Len(a.calls) : more[i].call = a.calls[order[i]].id

LEMMA RequestPairs ==
  ASSUME NEW lines \in Seq(Line), NEW n \in Nat, Len(lines) = n + 1, PairedUpTo(lines, n),
         lines[n + 1].role = "assistant", NEW more, Replied(more, lines[n + 1])
  PROVE  PairedUpTo(lines \o more, Len(lines \o more))
<1>1. PICK all, a, k : all = lines \o more /\ a = lines[n + 1] /\ k = Len(a.calls)
  OBVIOUS
<1>2. /\ more \in Seq(Line) /\ Len(more) \in Nat /\ DOMAIN lines = 1..(n + 1) /\ DOMAIN more = 1..Len(more)
      /\ all \in Seq(Line) /\ Len(all) = n + 1 + Len(more) /\ DOMAIN all = 1..(n + 1 + Len(more))
      /\ \A i \in 1..(n + 1) : all[i] = lines[i]
      /\ \A i \in 1..Len(more) : all[n + 1 + i] = more[i]
      /\ \A i \in DOMAIN all : i \notin 1..(n + 1) => i - (n + 1) \in 1..Len(more) /\ all[i] = more[i - (n + 1)]
  <2>1. more \in Seq(Line)
    BY DEF Replied
  <2>2. JoinOf(all, lines, more, Line)
    BY <1>1, <2>1, JoinIs
  <2> QED
    BY <2>1, <2>2 DEF JoinOf
<1>3. PICK total : total = Len(all) /\ total \in Nat /\ total >= n + 1 /\ n <= total
  BY <1>2
<1>4. k \in Nat /\ DOMAIN a.calls = 1..k /\ (a.calls = <<>> <=> k = 0)
  <2>1. n + 1 \in DOMAIN lines
    BY <1>2
  <2> QED
    BY <1>1, <2>1, LineType
<1>5. all[n + 1] = a /\ n + 1 \in DOMAIN all
  BY <1>1, <1>2
<1>6. ASSUME NEW i \in 1..n PROVE Answered(all, total, i) /\ BlockOf(all, i) = BlockOf(lines, i)
  <2>1. Answered(lines, n, i)
    BY PairedIs
  <2>2. n <= Len(lines) /\ n <= Len(all) /\ \A l \in 1..n : all[l] = lines[l]
    BY <1>2, <1>3
  <2> QED
    BY <1>2, <1>3, <2>1, <2>2, AnsweredAlike
<1>7. ASSUME NEW i \in DOMAIN all, i \notin 1..(n + 1) PROVE Answered(all, total, i)
  <2>1. PICK u \in DOMAIN more : all[i] = more[u]
    BY <1>2, <1>7
  <2>2. all[i].calls = <<>>
    BY <2>1 DEF Replied
  <2> QED
    BY <1>2, <2>2, NoneToAnswer
<1>8. BlockOf(all, n + 1) = (n + 1 + 1)..(n + 1 + k)
  BY <1>1, <1>5 DEF BlockOf
<1>9. Answered(all, total, n + 1)
  <2>1. CASE a.calls = <<>>
    BY <1>2, <1>5, <2>1, NoneToAnswer
  <2>2. CASE a.calls # <<>>
    <3>1. Len(more) = k /\ \A i \in DOMAIN more : more[i].role = "tool"
      BY <1>1, <2>2 DEF Replied
    <3>2. PICK order : Permutes(order, k) /\ \A i \in 1..k : more[i].call = a.calls[order[i]].id
      BY <1>1, <2>2 DEF Replied
    <3>3. ASSUME NEW j \in BlockOf(all, n + 1) PROVE j \in 1..total /\ all[j].role = "tool"
      <4>1. j \in DOMAIN all /\ j \notin 1..(n + 1) /\ j \in 1..total
        <5>1. j \in Int /\ n + 1 < j /\ j <= n + 1 + k
          BY <1>4, <1>8, <3>3
        <5>2. total = n + 1 + k /\ DOMAIN all = 1..total
          BY <1>2, <1>3, <3>1
        <5> QED
          BY <1>4, <5>1, <5>2
      <4>2. PICK u \in DOMAIN more : all[j] = more[u]
        BY <1>2, <4>1
      <4> QED
        BY <3>1, <4>1, <4>2
    <3>4. PICK ids : ids = AskedBy(all, n + 1)
      OBVIOUS
    <3>5. ids = [c \in 1..k |-> a.calls[c].id]
      BY <1>4, <1>5, <3>4 DEF AskedBy
    <3>6. GivenTo(all, n + 1) = [c \in 1..k |-> ids[order[c]]]
      <4>1. ASSUME NEW c \in 1..k PROVE all[n + 1 + c].call = ids[order[c]]
        <5>1. c \in 1..Len(more) /\ order[c] \in 1..k
          BY <3>1, <3>2 DEF Permutes
        <5>2. ids[order[c]] = a.calls[order[c]].id
          BY <3>5, <5>1
        <5>3. all[n + 1 + c] = more[c]
          BY <1>2, <5>1
        <5> QED
          BY <3>2, <5>2, <5>3
      <4>2. GivenTo(all, n + 1) = [c \in 1..k |-> all[n + 1 + c].call]
        BY <1>4, <1>5 DEF GivenTo
      <4> QED
        BY <4>1, <4>2
    <3>7. ASSUME NEW id PROVE Times(id, ids) = Times(id, GivenTo(all, n + 1))
      <4>1. PICK given : given = GivenTo(all, n + 1)
        OBVIOUS
      <4>2. DOMAIN ids = 1..k /\ given = [c \in 1..k |-> ids[order[c]]]
        BY <3>5, <3>6, <4>1
      <4>3. Times(id, ids) = Times(id, given)
        BY <1>4, <3>2, <4>2, TimesReordered
      <4> QED
        BY <4>1, <4>3
    <3> QED
      BY <3>3, <3>4, <3>7 DEF Answered
  <2> QED
    BY <2>1, <2>2
<1>10. ASSUME NEW j \in 1..total, all[j].role = "tool" PROVE \E i \in 1..total : j \in BlockOf(all, i)
  <2>1. CASE j \in 1..n
    <3>1. lines[j].role = "tool"
      BY <1>2, <1>10, <2>1
    <3>2. PICK i \in 1..n : j \in BlockOf(lines, i)
      BY <2>1, <3>1, PairedIs
    <3>3. i \in 1..total
      BY <1>3
    <3> QED
      BY <1>6, <3>2, <3>3
  <2>2. CASE j = n + 1
    BY <1>1, <1>5, <1>10, <2>2
  <2>3. CASE j \notin 1..(n + 1)
    <3>1. j - (n + 1) \in 1..Len(more) /\ all[j] = more[j - (n + 1)] /\ j \in DOMAIN all
      BY <1>2, <1>3, <2>3
    <3>2. PICK u \in DOMAIN more : u = j - (n + 1) /\ all[j] = more[u]
      BY <1>2, <3>1
    <3>3. Len(more) = k
      BY <1>1, <1>10, <3>2 DEF Replied
    <3>4. j \in BlockOf(all, n + 1)
      BY <1>2, <1>4, <1>8, <3>1, <3>3
    <3>5. n + 1 \in 1..total
      BY <1>3
    <3> QED
      BY <3>4, <3>5
  <2> QED
    BY <2>1, <2>2, <2>3
<1>11. \A i \in 1..total : Answered(all, total, i)
  <2>1. ASSUME NEW i \in 1..total PROVE Answered(all, total, i)
    <3>1. i \in DOMAIN all /\ (i \in 1..n \/ i = n + 1 \/ i \notin 1..(n + 1))
      BY <1>2, <1>3
    <3> QED
      BY <1>6, <1>7, <1>9, <3>1
  <2> QED
    BY <2>1
<1>12. PairedUpTo(all, total)
  BY <1>10, <1>11, PairedIs
<1> QED
  BY <1>1, <1>3, <1>12

-----------------------------------------------------------------------------
\* Where the instructions go.

LEMMA Smallest ==
  ASSUME NEW S, S \subseteq Nat, S # {}
  PROVE  Min(S) \in S /\ \A x \in S : Min(S) <= x
<1> DEFINE R == {ss \in Nat \X Nat : ss[1] < ss[2]}
<1>1. IsWellFoundedOn(R, Nat)
  BY NatLessThanWellFounded, Zenon DEF OpToRel
<1>2. PICK n \in S : \A x \in S : <<x, n>> \notin R
  BY <1>1, WFMin
<1>3. ASSUME NEW x \in S PROVE n <= x
  <2>1. n \in Nat /\ x \in Nat /\ <<x, n>> \in Nat \X Nat /\ <<x, n>> \notin R
    BY <1>2
  <2>2. ~(x < n)
    BY <2>1
  <2> QED
    BY <2>1, <2>2
<1>4. \E x \in S : \A y \in S : x =< y
  BY <1>2, <1>3
<1> QED
  BY <1>4 DEF Min

LEMMA Greatest ==
  ASSUME NEW n \in Nat, NEW S, S \subseteq 1..n, S # {}
  PROVE  Max(S) \in S /\ \A x \in S : x <= Max(S)
<1> DEFINE T == {b \in Nat : \A x \in S : x <= b}
<1>1. T \subseteq Nat /\ n \in T
  OBVIOUS
<1>2. Min(T) \in T /\ \A b \in T : Min(T) <= b
  BY <1>1, Smallest
<1>3. PICK b \in T : \A c \in T : b <= c
  BY <1>2
<1>4. b \in S
  <2>1. CASE b = 0
    <3>1. PICK x \in S : x \in 1..n
      OBVIOUS
    <3>2. x <= b
      BY <1>3
    <3> QED
      BY <2>1, <3>1, <3>2
  <2>2. CASE b # 0 /\ b \notin S
    <3>1. b - 1 \in T
      <4>1. b \in Nat /\ b - 1 \in Nat
        BY <2>2
      <4>2. ASSUME NEW x \in S PROVE x <= b - 1
        BY <2>2, <4>1
      <4> QED
        BY <4>1, <4>2
    <3> QED
      BY <1>3, <3>1
  <2> QED
    BY <2>1, <2>2
<1>5. \E x \in S : \A y \in S : x >= y
  BY <1>4
<1>6. Max(S) \in S /\ \A y \in S : Max(S) >= y
  BY <1>5 DEF Max
<1> QED
  BY <1>6

\* sent is lines with g at place p.
With(sent, lines, p, g) ==
    /\ p \in 1..(Len(lines) + 1) /\ sent \in Seq(Line)
    /\ Len(sent) = Len(lines) + 1 /\ DOMAIN sent = 1..(Len(lines) + 1) /\ sent[p] = g
    /\ \A j \in 1..(p - 1) : sent[j] = lines[j]
    /\ \A j \in (p + 1)..(Len(lines) + 1) : sent[j] = lines[j - 1]

LEMMA InsertedIs ==
  ASSUME NEW lines \in Seq(Line), NEW p \in 1..(Len(lines) + 1), NEW g \in Line,
         NEW sent, sent = InsertAt(lines, p, g)
  PROVE  With(sent, lines, p, g) /\ RemoveAt(sent, p) = lines
<1>1. PICK n : n = Len(lines) /\ n \in Nat /\ p \in 1..(n + 1) /\ DOMAIN lines = 1..n
  OBVIOUS
<1>2. PICK a, b : a = SubSeq(lines, 1, p - 1) /\ b = SubSeq(lines, p, n)
  OBVIOUS
<1>3. /\ a \in Seq(Line) /\ Len(a) = p - 1 /\ \A i \in 1..(p - 1) : a[i] = lines[i]
      /\ b \in Seq(Line) /\ Len(b) = n - p + 1 /\ \A i \in 1..(n - p + 1) : b[i] = lines[p + i - 1]
  BY <1>1, <1>2
<1>4. PICK c : c = a \o <<g>>
  OBVIOUS
<1>5. c \in Seq(Line) /\ Len(c) = p /\ c[p] = g /\ \A i \in 1..(p - 1) : c[i] = lines[i]
  <2>1. c = Append(a, g)
    BY <1>3, <1>4, ConcatOne
  <2>2. /\ c \in Seq(Line) /\ Len(c) = Len(a) + 1 /\ c[Len(a) + 1] = g
        /\ \A i \in 1..Len(a) : c[i] = a[i]
    BY <1>3, <2>1, Appended
  <2>3. Len(a) + 1 = p
    BY <1>1, <1>3
  <2> QED
    BY <1>3, <2>2, <2>3
<1>6. sent = c \o b
  BY <1>1, <1>2, <1>4 DEF InsertAt
<1>7. JoinOf(sent, c, b, Line)
  BY <1>3, <1>5, <1>6, JoinIs
<1>8. /\ sent \in Seq(Line) /\ Len(sent) = n + 1 /\ DOMAIN sent = 1..(n + 1)
      /\ \A i \in 1..p : sent[i] = c[i]
      /\ \A i \in 1..(n - p + 1) : sent[p + i] = b[i]
  BY <1>1, <1>3, <1>5, <1>7 DEF JoinOf
<1>9. sent[p] = g /\ \A j \in 1..(p - 1) : sent[j] = lines[j]
  BY <1>1, <1>5, <1>8
<1>10. ASSUME NEW j \in (p + 1)..(n + 1) PROVE sent[j] = lines[j - 1]
  <2>1. PICK i : i = j - p
    OBVIOUS
  <2>2. i \in 1..(n - p + 1) /\ p + i = j /\ p + i - 1 = j - 1
    BY <1>1, <2>1
  <2> QED
    BY <1>3, <1>8, <2>2
<1>11. RemoveAt(sent, p) = lines
  <2>1. PICK u, v, w : u = SubSeq(sent, 1, p - 1) /\ v = SubSeq(sent, p + 1, n + 1) /\ w = u \o v
    OBVIOUS
  <2>2. /\ u \in Seq(Line) /\ Len(u) = p - 1 /\ \A i \in 1..(p - 1) : u[i] = sent[i]
        /\ v \in Seq(Line) /\ Len(v) = n - p + 1 /\ \A i \in 1..(n - p + 1) : v[i] = sent[p + i]
    BY <1>1, <1>8, <2>1
  <2>3. JoinOf(w, u, v, Line)
    BY <2>1, <2>2, JoinIs
  <2>4. /\ w \in Seq(Line) /\ Len(w) = n
        /\ \A i \in 1..(p - 1) : w[i] = u[i]
        /\ \A i \in 1..n : i \notin 1..(p - 1) => i - (p - 1) \in 1..(n - p + 1) /\ w[i] = v[i - (p - 1)]
    BY <1>1, <2>2, <2>3 DEF JoinOf
  <2>5. ASSUME NEW i \in 1..n PROVE w[i] = lines[i]
    <3>1. CASE i \in 1..(p - 1)
      BY <1>9, <2>2, <2>4, <3>1
    <3>2. CASE i \notin 1..(p - 1)
      <4>1. PICK k : k = i - (p - 1)
        OBVIOUS
      <4>2. k \in 1..(n - p + 1) /\ w[i] = v[k] /\ v[k] = sent[p + k] /\ p + k = i + 1
        BY <1>1, <2>2, <2>4, <3>2, <4>1
      <4>3. sent[i + 1] = lines[i + 1 - 1] /\ i + 1 - 1 = i
        <5>1. i + 1 \in (p + 1)..(n + 1)
          BY <1>1, <3>2
        <5> QED
          BY <1>10, <5>1
      <4> QED
        BY <4>2, <4>3
    <3> QED
      BY <3>1, <3>2
  <2>6. w = lines
    BY <1>1, <2>4, <2>5, SeqEqual
  <2> QED
    BY <1>8, <2>1, <2>6 DEF RemoveAt
<1> QED
  BY <1>1, <1>8, <1>9, <1>10, <1>11 DEF With

\* The insertion point divides the system lines from the others.
Divides(lines, p) ==
    /\ p \in 1..(Len(lines) + 1)
    /\ \A j \in 1..(p - 1) : lines[j].role = "system"
    /\ \A j \in p..Len(lines) : lines[j].role # "system"

LEMMA PointDivides ==
  ASSUME NEW lines, LineInv(lines)
  PROVE  Divides(lines, InsertionPoint(lines))
<1> DEFINE others == {i \in DOMAIN lines : lines[i].role # "system"}
<1>1. /\ lines \in Seq(Line) /\ Len(lines) \in Nat /\ DOMAIN lines = 1..Len(lines)
      /\ \A i \in DOMAIN lines : lines[i].role = "system" => \A j \in 1..i : lines[j].role = "system"
  BY DEF LineInv
<1>2. CASE others = {}
  <2>1. InsertionPoint(lines) = Len(lines) + 1
    BY <1>2 DEF InsertionPoint
  <2> QED
    BY <1>1, <1>2, <2>1 DEF Divides
<1>3. CASE others # {}
  <2>1. PICK p : p = Min(others)
    OBVIOUS
  <2>2. InsertionPoint(lines) = p
    BY <1>3, <2>1 DEF InsertionPoint
  <2>3. p \in others /\ \A x \in others : p <= x
    <3>1. others \subseteq Nat
      BY <1>1
    <3> HIDE DEF others
    <3> QED
      BY <1>3, <2>1, <3>1, Smallest
  <2>4. ASSUME NEW j \in 1..(p - 1) PROVE lines[j].role = "system"
    BY <1>1, <2>3
  <2>5. ASSUME NEW j \in p..Len(lines) PROVE lines[j].role # "system"
    <3>1. j \in DOMAIN lines /\ p \in 1..j
      BY <1>1, <2>3
    <3> QED
      BY <1>1, <2>3, <3>1
  <2>6. p \in 1..(Len(lines) + 1)
    BY <1>1, <2>3
  <2> QED
    BY <2>2, <2>4, <2>5, <2>6 DEF Divides
<1> QED
  BY <1>2, <1>3

\* What is sent: the lines, with the newest instructions where they belong.
Leads(h, lines, sent, p, g, k) ==
    /\ Instructed(h) # {} /\ k = h[Max(Instructed(h))].instructions /\ k \in Instruction
    /\ g = Says("system", <<0, k>>) /\ g \in Line
    /\ Divides(lines, p) /\ With(sent, lines, p, g) /\ RemoveAt(sent, p) = lines

SentAs(h, lines, sent) ==
    \/ Instructed(h) = {} /\ sent = lines
    \/ \E p, g, k : Leads(h, lines, sent, p, g, k)

LEMMA InstructedIs ==
  ASSUME NEW h, HistoryInv(h), Instructed(h) # {}
  PROVE  /\ Max(Instructed(h)) \in DOMAIN h /\ \A m \in Instructed(h) : m <= Max(Instructed(h))
         /\ h[Max(Instructed(h))].kind = "request"
         /\ h[Max(Instructed(h))].instructions \in Instruction
<1>1. PICK S : S = Instructed(h)
  OBVIOUS
<1>2. h \in Seq(Message) /\ Len(h) \in Nat /\ DOMAIN h = 1..Len(h)
  BY DEF HistoryInv
<1>3. S \subseteq 1..Len(h)
  BY <1>1, <1>2 DEF Instructed
<1>4. Max(S) \in S /\ \A x \in S : x <= Max(S)
  BY <1>1, <1>2, <1>3, Greatest
<1>5. Max(S) \in DOMAIN h /\ h[Max(S)].kind = "request" /\ h[Max(S)].instructions # NoInstructions
  BY <1>1, <1>4 DEF Instructed
<1>6. h[Max(S)].instructions \in Instructions
  <2>1. h[Max(S)] \in Message
    BY <1>2, <1>5
  <2> QED
    BY <1>5, <2>1 DEF Message
<1> QED
  BY <1>1, <1>4, <1>5, <1>6 DEF Instructions

LEMMA SentIs ==
  ASSUME NEW h, HistoryInv(h), LineInv(Mapped(h))
  PROVE  SentAs(h, Mapped(h), MapMessages(h))
<1>1. PICK lines, sent : lines = Mapped(h) /\ sent = MapMessages(h)
  OBVIOUS
<1>2. CASE Instructed(h) = {}
  BY <1>2 DEF MapMessages, SentAs
<1>3. CASE Instructed(h) # {}
  <2>1. PICK k, p, g : /\ k = h[Max(Instructed(h))].instructions /\ g = Says("system", <<0, k>>)
                       /\ p = InsertionPoint(lines)
    OBVIOUS
  <2>2. k \in Instruction /\ k \in Nat
    BY <1>3, <2>1, InstructedIs, ClientAssumption
  <2>3. g \in Line
    <3>1. <<0, k>> \in Place /\ MissingId \in Place
      BY <2>2 DEF Place, MissingId
    <3>2. <<<<0, k>>>> \in Seq(Place) /\ <<>> \in Seq([id : Place, at : Place])
      BY <3>1
    <3> QED
      BY <2>1, <3>1, <3>2 DEF Says, Line
  <2>4. Divides(lines, p) /\ p \in 1..(Len(lines) + 1) /\ lines \in Seq(Line)
    BY <1>1, <2>1, PointDivides DEF Divides, LineInv
  <2>5. sent = InsertAt(lines, p, g)
    BY <1>1, <1>3, <2>1 DEF MapMessages
  <2>6. With(sent, lines, p, g) /\ RemoveAt(sent, p) = lines
    BY <2>3, <2>4, <2>5, InsertedIs
  <2> QED
    BY <1>1, <1>3, <2>1, <2>2, <2>3, <2>4, <2>6 DEF SentAs, Leads
<1> QED
  BY <1>2, <1>3

-----------------------------------------------------------------------------
\* What the invariant says of a request body that is sent.

LEMMA LineIsNotGiven ==
  ASSUME NEW lines, LineInv(lines), NEW i \in DOMAIN lines
  PROVE  ~IsGiven(lines[i])
<1>1. SUFFICES ASSUME NEW k \in Instruction, lines[i].says = <<<<0, k>>>> PROVE FALSE
  BY DEF IsGiven
<1>2. 1 \in DOMAIN lines[i].says /\ lines[i].says[1] = <<0, k>>
  BY <1>1
<1>3. lines[i].says[1][1] # 0
  BY <1>2 DEF LineInv
<1>4. lines[i].says[1][1] = 0
  BY <1>2
<1> QED
  BY <1>3, <1>4

LEMMA GivensAre ==
  ASSUME NEW lines, LineInv(lines), NEW h, SentAs(h, lines, Sent)
  PROVE  /\ Body = lines
         /\ \/ Instructed(h) = {} /\ Givens = {} /\ Sent = lines
            \/ \E p, g, k : Leads(h, lines, Sent, p, g, k) /\ Givens = {p}
<1>1. CASE Instructed(h) = {} /\ Sent = lines
  <2>1. Givens = {}
    BY <1>1, LineIsNotGiven DEF Givens
  <2> QED
    BY <1>1, <2>1 DEF Body
<1>2. ASSUME NEW p, NEW g, NEW k, Leads(h, lines, Sent, p, g, k)
      PROVE  Body = lines /\ \E q, f, n : Leads(h, lines, Sent, q, f, n) /\ Givens = {q}
  <2>1. PICK sent, n : sent = Sent /\ n = Len(lines)
    OBVIOUS
  <2>2. /\ p \in 1..(n + 1) /\ DOMAIN sent = 1..(n + 1) /\ sent[p] = g
        /\ \A j \in 1..(p - 1) : sent[j] = lines[j]
        /\ \A j \in (p + 1)..(n + 1) : sent[j] = lines[j - 1]
        /\ g.says = <<<<0, k>>>> /\ k \in Instruction /\ n \in Nat /\ DOMAIN lines = 1..n
        /\ RemoveAt(sent, p) = lines
    <3>1. lines \in Seq(Line)
      BY DEF LineInv
    <3>2. n \in Nat /\ DOMAIN lines = 1..n
      BY <2>1, <3>1
    <3>3. g.says = <<<<0, k>>>>
      BY <1>2 DEF Leads, Says
    <3> QED
      BY <1>2, <2>1, <3>2, <3>3 DEF Leads, With
  <2>3. IsGiven(sent[p])
    BY <2>2 DEF IsGiven
  <2>4. ASSUME NEW j \in DOMAIN sent, j # p PROVE ~IsGiven(sent[j])
    <3>1. CASE j < p
      <4>1. j \in 1..(p - 1) /\ j \in DOMAIN lines
        BY <2>2, <3>1
      <4>2. sent[j] = lines[j]
        BY <2>2, <4>1
      <4> QED
        BY <4>1, <4>2, LineIsNotGiven
    <3>2. CASE p < j
      <4>1. j \in (p + 1)..(n + 1) /\ j - 1 \in DOMAIN lines
        BY <2>2, <3>2
      <4>2. sent[j] = lines[j - 1]
        BY <2>2, <4>1
      <4> QED
        BY <4>1, <4>2, LineIsNotGiven
    <3> QED
      BY <2>2, <2>4, <3>1, <3>2
  <2>5. Givens = {p}
    <3>1. p \in DOMAIN sent
      BY <2>2
    <3> QED
      BY <2>1, <2>3, <2>4, <3>1 DEF Givens
  <2>6. Min({p}) = p
    <3>1. {p} \subseteq Nat /\ {p} # {}
      BY <2>2
    <3>2. Min({p}) \in {p}
      BY <3>1, Smallest
    <3> QED
      BY <3>2
  <2>7. Body = lines
    BY <2>1, <2>2, <2>5, <2>6 DEF Body
  <2> QED
    BY <1>2, <2>5, <2>7
<1> QED
  BY <1>1, <1>2 DEF SentAs

LEMMA SentLines ==
  ASSUME ClientInv, phase = "calling"
  PROVE  /\ LineInv(Mapped(history)) /\ PairedUpTo(Mapped(history), Len(Mapped(history)))
         /\ HeardInv(history, HeardIn(Mapped(history)))
         /\ SentAs(history, Mapped(history), Sent) /\ payload.tools = MapTools
<1>1. /\ HistoryInv(history) /\ MappedInv(history) /\ Supported(history) /\ Len(history) % 2 = 1
      /\ payload = [messages |-> MapMessages(history), tools |-> MapTools]
  BY DEF ClientInv, PhaseInv
<1>2. /\ LineInv(Mapped(history)) /\ PairedInv(history, Mapped(history))
      /\ HeardInv(history, HeardIn(Mapped(history)))
  BY <1>1 DEF MappedInv
<1>3. Sent = MapMessages(history) /\ payload.tools = MapTools
  BY <1>1 DEF Sent
<1> QED
  BY <1>1, <1>2, <1>3, SentIs DEF PairedInv

LEMMA NoToolType == NoTool \in NamedTool
BY DEF NamedTool

\* The tools of the agent.
LEMMA ToolsAre ==
  /\ Range(MapTools) = Range(FunctionTools) \cup Range(OutputTools)
  /\ \A tool \in Range(MapTools) : tool \in NamedTool /\ tool # NoTool
<1>1. PICK tools, s, t : tools = MapTools /\ s = FunctionTools /\ t = OutputTools
  OBVIOUS
<1>2. JoinOf(tools, s, t, STRING)
  BY <1>1, ToolsAssumption, JoinIs DEF MapTools
<1>3. Range(tools) \subseteq Range(s) \cup Range(t)
  BY <1>2 DEF JoinOf, Range
<1>4. ASSUME NEW i \in DOMAIN s PROVE s[i] \in Range(tools)
  <2>1. i \in DOMAIN tools /\ tools[i] = s[i]
    BY <1>2 DEF JoinOf
  <2> QED
    BY <2>1 DEF Range
<1>5. ASSUME NEW i \in DOMAIN t PROVE t[i] \in Range(tools)
  <2>1. Len(s) + i \in DOMAIN tools /\ tools[Len(s) + i] = t[i]
    BY <1>2 DEF JoinOf
  <2> QED
    BY <2>1 DEF Range
<1>6. Range(s) \subseteq Range(tools) /\ Range(t) \subseteq Range(tools)
  BY <1>4, <1>5 DEF Range
<1> QED
  BY <1>1, <1>3, <1>6, ToolsAssumption DEF NamedTool

\* Nothing is dropped: the body without the instructions is what the history
\* was mapped to.
LEMMA InvDropsNothing ==
  ASSUME ClientInv
  PROVE  NothingDropped
<1> SUFFICES ASSUME phase = "calling"
             PROVE  /\ Len(Heard) = Cardinality(SayablePlaces) /\ Range(Heard) = SayablePlaces
                    /\ \A i \in 2..Len(Heard) :
                          \/ Heard[i - 1][1] < Heard[i][1]
                          \/ /\ Heard[i - 1][1] = Heard[i][1]
                             /\ history[Heard[i][1]].kind = "request" => Heard[i - 1][2] < Heard[i][2]
                    /\ Range(payload.tools) = Range(FunctionTools) \cup Range(OutputTools)
  BY DEF NothingDropped
<1>1. PICK heard : heard = HeardIn(Mapped(history))
  OBVIOUS
<1>2. Heard = heard
  BY <1>1, SentLines, GivensAre DEF Heard, HeardIn
<1>3. HeardInv(history, heard)
  BY <1>1, SentLines
<1>4. Len(heard) = Cardinality(SayablePlaces)
  <2> DEFINE S == 1..Len(heard)
             T == Range(heard)
  <2>1. heard \in Seq(Place) /\ IsInjective(heard) /\ T = SayablePlaces
    BY <1>3 DEF HeardInv, SayablePlaces
  <2>2. DOMAIN heard = S /\ Len(heard) \in Nat
    BY <2>1
  <2>3. /\ heard \in [S -> T] /\ \A a, b \in S : heard[a] = heard[b] => a = b
        /\ \A t \in T : \E a \in S : heard[a] = t
    BY <2>1, <2>2 DEF Range, IsInjective
  <2>4. IsFiniteSet(S) /\ Cardinality(S) = Len(heard)
    <3>1. PICK n : n = Len(heard) /\ n \in Nat
      BY <2>2
    <3>2. IsFiniteSet(1..n) /\ Cardinality(1..n) = IF 1 > n THEN 0 ELSE n - 1 + 1
      <4>1. 1 \in Int /\ n \in Int
        BY <3>1
      <4> QED
        BY <4>1, FS_Interval
    <3>3. Cardinality(1..n) = n
      BY <3>1, <3>2
    <3> QED
      BY <3>1, <3>2, <3>3
  <2> HIDE DEF S, T
  <2>5. Cardinality(T) = Cardinality(S)
    BY <2>3, <2>4, SameSize
  <2> QED
    BY <2>1, <2>4, <2>5
<1>5. Range(payload.tools) = Range(FunctionTools) \cup Range(OutputTools)
  BY SentLines, ToolsAre
<1>6. Range(heard) = SayablePlaces /\ \A i \in 2..Len(heard) :
                          \/ heard[i - 1][1] < heard[i][1]
                          \/ /\ heard[i - 1][1] = heard[i][1]
                             /\ history[heard[i][1]].kind = "request" => heard[i - 1][2] < heard[i][2]
  BY <1>3 DEF HeardInv, SayablePlaces
<1> QED
  BY <1>2, <1>4, <1>5, <1>6

\* The instructions lead: they are where the other lines begin.
LEMMA InvInstructionsLead ==
  ASSUME ClientInv
  PROVE  InstructionsLead
<1> SUFFICES ASSUME phase = "calling"
             PROVE  /\ Cardinality(Givens) <= 1
                    /\ \A k \in Instruction : Newest(k) =>
                          \E i \in Givens :
                             /\ Sent[i].says = <<<<0, k>>>> /\ Sent[i].role = "system"
                             /\ \A j \in DOMAIN Sent : j < i <=> (Sent[j].role = "system" /\ j # i)
  BY DEF InstructionsLead
<1>1. PICK lines : lines = Mapped(history)
  OBVIOUS
<1>2. LineInv(lines) /\ SentAs(history, lines, Sent) /\ HistoryInv(history)
  BY <1>1, SentLines DEF ClientInv
<1>3. \/ Instructed(history) = {} /\ Givens = {}
      \/ \E p, g, k : Leads(history, lines, Sent, p, g, k) /\ Givens = {p}
  BY <1>2, GivensAre
<1>4. Cardinality(Givens) <= 1
  <2>1. CASE Givens = {}
    BY <2>1, FS_EmptySet
  <2>2. ASSUME NEW p, Givens = {p} PROVE Cardinality(Givens) <= 1
    BY <2>2, FS_Singleton
  <2> QED
    BY <1>3, <2>1, <2>2
<1>5. ASSUME NEW k \in Instruction, Newest(k)
      PROVE  \E i \in Givens :
               /\ Sent[i].says = <<<<0, k>>>> /\ Sent[i].role = "system"
               /\ \A j \in DOMAIN Sent : j < i <=> (Sent[j].role = "system" /\ j # i)
  <2>1. PICK m \in DOMAIN history :
           /\ history[m].kind = "request" /\ history[m].instructions = k
           /\ \A later \in (m + 1)..Len(history) :
                 history[later].kind = "request" => history[later].instructions = NoInstructions
    BY <1>5 DEF Newest
  <2>2. m \in Instructed(history)
    <3>1. k # NoInstructions
      BY ClientAssumption DEF NoInstructions
    <3> QED
      BY <2>1, <3>1 DEF Instructed
  <2>3. Max(Instructed(history)) = m
    <3>1. PICK new : new = Max(Instructed(history))
      OBVIOUS
    <3>2. new \in DOMAIN history /\ m <= new
      BY <1>2, <2>2, <3>1, InstructedIs
    <3>3. history[new].kind = "request" /\ history[new].instructions # NoInstructions
      <4>1. history[new].kind = "request" /\ history[new].instructions \in Instruction
        BY <1>2, <2>2, <3>1, InstructedIs
      <4> QED
        BY <4>1, ClientAssumption DEF NoInstructions
    <3>4. DOMAIN history = 1..Len(history) /\ Len(history) \in Nat
      BY <1>2 DEF HistoryInv
    <3>5. ~(m < new)
      <4>1. SUFFICES ASSUME m < new PROVE FALSE
        OBVIOUS
      <4>2. new \in (m + 1)..Len(history)
        BY <3>2, <3>4, <4>1
      <4> QED
        BY <2>1, <3>3, <4>2
    <3>6. new = m
      BY <3>2, <3>4, <3>5
    <3> QED
      BY <3>1, <3>6
  <2>4. PICK p, g, n : Leads(history, lines, Sent, p, g, n) /\ Givens = {p}
    BY <1>3, <2>2
  <2>5. n = k /\ g = Says("system", <<0, k>>)
    BY <2>1, <2>3, <2>4 DEF Leads
  <2>6. g.says = <<<<0, k>>>> /\ g.role = "system"
    BY <2>5 DEF Says
  <2>7. PICK sent, l : sent = Sent /\ l = Len(lines)
    OBVIOUS
  <2>8. /\ p \in 1..(l + 1) /\ l \in Nat /\ DOMAIN sent = 1..(l + 1) /\ sent[p] = g
        /\ \A j \in 1..(p - 1) : sent[j] = lines[j] /\ lines[j].role = "system"
        /\ \A j \in (p + 1)..(l + 1) : sent[j] = lines[j - 1]
        /\ \A j \in p..l : lines[j].role # "system"
    <3>1. lines \in Seq(Line)
      BY <1>2 DEF LineInv
    <3>2. l \in Nat
      BY <2>7, <3>1
    <3> QED
      BY <2>4, <2>7, <3>2 DEF Leads, With, Divides
  <2>9. ASSUME NEW j \in DOMAIN sent PROVE j < p <=> (sent[j].role = "system" /\ j # p)
    <3>1. CASE j < p
      <4>1. j \in 1..(p - 1)
        BY <2>8, <3>1
      <4> QED
        BY <2>8, <3>1, <4>1
    <3>2. CASE p < j
      <4>1. j \in (p + 1)..(l + 1) /\ j - 1 \in p..l
        BY <2>8, <3>2
      <4>2. sent[j] = lines[j - 1] /\ lines[j - 1].role # "system"
        BY <2>8, <4>1
      <4> QED
        BY <2>8, <3>2, <4>2
    <3>3. j < p \/ p < j \/ j = p
      BY <2>8
    <3>4. CASE j = p
      BY <2>8, <3>4
    <3> QED
      BY <3>1, <3>2, <3>3, <3>4
  <2> QED
    BY <2>4, <2>6, <2>7, <2>8, <2>9
<1> QED
  BY <1>4, <1>5

\* Results follow their calls: lines that pair up still do when instructions
\* are put between the system lines and the others.
LEMMA InsertedPairs ==
  ASSUME NEW lines, LineInv(lines), PairedUpTo(lines, Len(lines)), NEW p, Divides(lines, p),
         NEW g, g.calls = <<>>, g.role = "system", NEW sent, With(sent, lines, p, g)
  PROVE  PairedUpTo(sent, Len(sent))
<1>1. PICK n : n = Len(lines)
  OBVIOUS
<1>2. /\ lines \in Seq(Line) /\ sent \in Seq(Line) /\ n \in Nat /\ p \in 1..(n + 1)
      /\ DOMAIN lines = 1..n /\ DOMAIN sent = 1..(n + 1) /\ Len(sent) = n + 1 /\ sent[p] = g
      /\ \A j \in 1..(p - 1) : sent[j] = lines[j] /\ lines[j].role = "system"
      /\ \A j \in (p + 1)..(n + 1) : sent[j] = lines[j - 1] /\ j - 1 \in p..n
  BY <1>1 DEF LineInv, With, Divides
<1>3. PairedUpTo(lines, n)
  BY <1>1
\* no call is made before the place of the instructions
<1>4. ASSUME NEW i \in DOMAIN sent, i <= p PROVE sent[i].calls = <<>> /\ sent[i].role = "system"
  <2>1. CASE i = p
    BY <1>2, <2>1
  <2>2. CASE i # p
    <3>1. i \in 1..(p - 1) /\ i \in DOMAIN lines
      BY <1>2, <1>4, <2>2
    <3>2. sent[i] = lines[i] /\ lines[i].role = "system"
      BY <1>2, <3>1
    <3>3. lines[i].calls = <<>>
      BY <3>1, <3>2 DEF LineInv
    <3> QED
      BY <3>2, <3>3
  <2> QED
    BY <2>1, <2>2
<1>5. ASSUME NEW i \in p..n
      PROVE  /\ BlockOf(sent, i + 1) = {j + 1 : j \in BlockOf(lines, i)}
             /\ Answered(sent, n + 1, i + 1)
  <2>1. i \in 1..n /\ i + 1 \in (p + 1)..(n + 1) /\ i + 1 - 1 = i /\ i \in Nat
    BY <1>2
  <2>2. sent[i + 1] = lines[i]
    BY <1>2, <2>1
  <2>3. PICK calls, k : calls = lines[i].calls /\ k = Len(calls)
    OBVIOUS
  <2>4. k \in Nat /\ DOMAIN calls = 1..k
    BY <1>2, <2>1, <2>3, LineType
  <2>5. BlockOf(lines, i) = (i + 1)..(i + k) /\ BlockOf(sent, i + 1) = (i + 1 + 1)..(i + 1 + k)
    BY <2>2, <2>3 DEF BlockOf
  <2>6. Answered(lines, n, i)
    BY <1>3, <2>1, PairedIs
  <2>7. ASSUME NEW j \in (i + 1)..(i + k) PROVE j \in p..n /\ lines[j].role = "tool" /\ sent[j + 1] = lines[j]
    <3>1. j \in 1..n /\ lines[j].role = "tool"
      BY <2>5, <2>6 DEF Answered
    <3>2. j \in p..n /\ j + 1 \in (p + 1)..(n + 1) /\ j + 1 - 1 = j
      BY <1>2, <2>1, <2>4, <3>1
    <3> QED
      BY <1>2, <3>1, <3>2
  <2>8. ASSUME NEW j \in BlockOf(sent, i + 1) PROVE j \in 1..(n + 1) /\ sent[j].role = "tool"
    <3>1. PICK u : u = j - 1 /\ u \in (i + 1)..(i + k) /\ j = u + 1
      BY <2>1, <2>4, <2>5
    <3>2. u \in p..n /\ sent[u + 1].role = "tool"
      BY <2>7, <3>1
    <3> QED
      BY <1>2, <3>1, <3>2
  <2>9. BlockOf(sent, i + 1) = {j + 1 : j \in BlockOf(lines, i)}
    <3>1. ASSUME NEW j \in (i + 1 + 1)..(i + 1 + k) PROVE \E u \in (i + 1)..(i + k) : j = u + 1
      <4>1. j - 1 \in (i + 1)..(i + k) /\ j = (j - 1) + 1
        BY <2>1, <2>4
      <4> QED
        BY <4>1
    <3>2. \A u \in (i + 1)..(i + k) : u + 1 \in (i + 1 + 1)..(i + 1 + k)
      BY <2>1, <2>4
    <3> QED
      BY <2>5, <3>1, <3>2
  <2>10. AskedBy(sent, i + 1) = AskedBy(lines, i)
    BY <2>2 DEF AskedBy
  <2>11. GivenTo(sent, i + 1) = GivenTo(lines, i)
    <3>1. ASSUME NEW c \in 1..k PROVE sent[i + 1 + c] = lines[i + c]
      <4>1. i + c \in (i + 1)..(i + k) /\ i + c + 1 = i + 1 + c
        BY <2>1, <2>4
      <4>2. sent[i + c + 1] = lines[i + c]
        BY <2>7, <4>1
      <4> QED
        BY <4>1, <4>2
    <3>2. /\ GivenTo(sent, i + 1) = [c \in 1..k |-> sent[i + 1 + c].call]
          /\ GivenTo(lines, i) = [c \in 1..k |-> lines[i + c].call]
      BY <2>2, <2>3, <2>4 DEF GivenTo
    <3> QED
      BY <3>1, <3>2
  <2> QED
    BY <2>6, <2>8, <2>9, <2>10, <2>11 DEF Answered
<1>6. ASSUME NEW i \in 1..(n + 1) PROVE Answered(sent, n + 1, i)
  <2>1. CASE i <= p
    BY <1>2, <1>4, <2>1, NoneToAnswer
  <2>2. CASE ~(i <= p)
    <3>1. PICK u : u = i - 1 /\ u \in p..n /\ u + 1 = i
      BY <1>2, <2>2
    <3> QED
      BY <1>5, <3>1
  <2> QED
    BY <2>1, <2>2
<1>7. ASSUME NEW j \in 1..(n + 1), sent[j].role = "tool" PROVE \E i \in 1..(n + 1) : j \in BlockOf(sent, i)
  <2>1. ~(j <= p)
    BY <1>2, <1>4, <1>7
  <2>2. PICK u : u = j - 1 /\ u \in p..n /\ u + 1 = j /\ u \in 1..n
    BY <1>2, <2>1
  <2>3. lines[u].role = "tool"
    <3>1. j \in (p + 1)..(n + 1)
      BY <1>2, <2>1
    <3> QED
      BY <1>2, <1>7, <2>2, <3>1
  <2>4. PICK i \in 1..n : u \in BlockOf(lines, i)
    BY <1>3, <2>2, <2>3, PairedIs
  <2>5. i \in p..n
    <3>1. CASE i < p
      <4>1. lines[i].calls = <<>>
        <5>1. i \in 1..(p - 1) /\ i \in DOMAIN lines
          BY <1>2, <3>1
        <5>2. lines[i].role = "system"
          BY <1>2, <5>1
        <5> QED
          BY <5>1, <5>2 DEF LineInv
      <4>2. BlockOf(lines, i) = {}
        BY <1>2, <4>1, NoneToAnswer
      <4> QED
        BY <2>4, <4>2
    <3>2. CASE ~(i < p)
      BY <1>2, <3>2
    <3> QED
      BY <3>1, <3>2
  <2>6. j \in BlockOf(sent, i + 1)
    BY <1>5, <2>2, <2>4, <2>5
  <2>7. i + 1 \in 1..(n + 1)
    BY <1>2
  <2> QED
    BY <2>6, <2>7
<1> QED
  BY <1>2, <1>6, <1>7, PairedIs

LEMMA InvResultsFollow ==
  ASSUME ClientInv
  PROVE  ResultsFollowCalls
<1>1. SUFFICES ASSUME phase = "calling" PROVE PairedUpTo(Sent, Len(Sent)) /\ DOMAIN Sent = 1..Len(Sent)
  <2>1. PICK sent, n : sent = Sent /\ n = Len(Sent)
    OBVIOUS
  <2>2. ASSUME PairedUpTo(sent, n), DOMAIN sent = 1..n
        PROVE  /\ \A i \in DOMAIN sent :
                     /\ \A j \in BlockOf(sent, i) : j \in DOMAIN sent /\ sent[j].role = "tool"
                     /\ \A id \in Range(AskedBy(sent, i)) :
                           Times(id, AskedBy(sent, i)) = Times(id, GivenTo(sent, i))
               /\ \A j \in DOMAIN sent : sent[j].role = "tool" => \E i \in DOMAIN sent : j \in BlockOf(sent, i)
    BY <2>2 DEF PairedUpTo
  <2> QED
    BY <2>1, <2>2 DEF ResultsFollowCalls, BlockOf, AskedBy, GivenTo
<1>2. PICK lines : lines = Mapped(history)
  OBVIOUS
<1>3. LineInv(lines) /\ PairedUpTo(lines, Len(lines)) /\ SentAs(history, lines, Sent)
  BY <1>1, <1>2, SentLines
<1>4. CASE Sent = lines
  BY <1>3, <1>4 DEF LineInv
<1>5. ASSUME NEW p, NEW g, NEW k, Leads(history, lines, Sent, p, g, k)
      PROVE  PairedUpTo(Sent, Len(Sent)) /\ DOMAIN Sent = 1..Len(Sent)
  <2>1. g.calls = <<>> /\ g.role = "system" /\ Divides(lines, p) /\ With(Sent, lines, p, g)
    BY <1>5 DEF Leads, Says
  <2>2. PairedUpTo(Sent, Len(Sent))
    BY <1>3, <2>1, InsertedPairs
  <2> QED
    BY <2>1, <2>2 DEF With
<1> QED
  BY <1>3, <1>4, <1>5 DEF SentAs

-----------------------------------------------------------------------------
\* A history that grows.

\* m may be message n.
Extends(m, n) ==
    /\ m \in Message /\ PartsInv(n, m.parts)
    /\ m.kind = IF n % 2 = 1 THEN "request" ELSE "response"
    /\ m.kind = "request" => m.parts # <<>>

LEMMA HistoryGrows ==
  ASSUME NEW h, HistoryInv(h), NEW m, NEW n, n = Len(h) + 1, Extends(m, n)
  PROVE  HistoryInv(Append(h, m)) /\ n \in Nat /\ n > 1 /\ Len(Append(h, m)) = n /\ Append(h, m)[n] = m
<1>1. h \in Seq(Message) /\ h # <<>>
  BY DEF HistoryInv
<1>2. PICK g : g = Append(h, m)
  OBVIOUS
<1>3. /\ g \in Seq(Message) /\ g # <<>> /\ Len(h) \in Nat /\ DOMAIN h = 1..Len(h)
      /\ Len(g) = n /\ DOMAIN g = 1..n /\ g[n] = m /\ \A i \in 1..Len(h) : g[i] = h[i]
  BY <1>1, <1>2, Appended DEF Extends
<1>4. Len(h) # 0
  BY <1>1
<1>5. ASSUME NEW k \in DOMAIN g
      PROVE  /\ g[k].kind = IF k % 2 = 1 THEN "request" ELSE "response"
             /\ g[k].kind = "request" => g[k].parts # <<>>
             /\ PartsInv(k, g[k].parts)
  <2>1. CASE k = n
    BY <1>3, <2>1 DEF Extends
  <2>2. CASE k # n
    <3>1. k \in DOMAIN h /\ g[k] = h[k]
      BY <1>3, <2>2
    <3> QED
      BY <3>1 DEF HistoryInv
  <2> QED
    BY <2>1, <2>2
<1>6. HistoryInv(g)
  BY <1>3, <1>5 DEF HistoryInv
<1> QED
  BY <1>2, <1>3, <1>4, <1>6

\* What the lines and the places become.
LEMMA LinesAndPlaces ==
  ASSUME NEW h, HistoryInv(h), MappedInv(h), NEW m, NEW n, n = Len(h) + 1, Extends(m, n),
         Supported(Append(h, m))
  PROVE  /\ Mappable(m) /\ LineInv(Mapped(h)) /\ PairedInv(h, Mapped(h))
         /\ Mapped(h) \in Seq(Line) /\ MapMessage(m) \in Seq(Line)
         /\ Mapped(Append(h, m)) = Mapped(h) \o MapMessage(m)
         /\ LineInv(Mapped(Append(h, m)))
         /\ HeardInv(Append(h, m), HeardIn(Mapped(Append(h, m))))
<1>1. h \in Seq(Message) /\ m \in Message /\ PartsInv(n, m.parts) /\ n \in Nat /\ n > 1
  BY HistoryGrows DEF HistoryInv, Extends
<1>2. /\ Supported(h) /\ Mappable(m) /\ Mapped(h) \in Seq(Line) /\ MapMessage(m) \in Seq(Line)
      /\ Mapped(Append(h, m)) = Mapped(h) \o MapMessage(m)
  BY <1>1, MappedAppend
<1>3. /\ LineInv(Mapped(h)) /\ PairedInv(h, Mapped(h)) /\ HeardInv(h, HeardIn(Mapped(h)))
  BY <1>2 DEF MappedInv
<1>4. Fresh(MapMessage(m), n)
  BY <1>1, <1>2, LinesFresh DEF Extends
<1>5. LineInv(Mapped(h) \o MapMessage(m))
  BY <1>1, <1>3, <1>4, LinesGrow
<1>6. MessageHeard(m, HeardIn(MapMessage(m)), n)
  <2>1. CASE m.kind = "request"
    BY <1>1, <1>2, <2>1, RequestHeard
  <2>2. CASE m.kind # "request"
    <3>1. m.kind = "response"
      BY <2>2 DEF Extends
    <3> QED
      BY <1>1, <1>2, <3>1, ResponseHeard
  <2> QED
    BY <2>1, <2>2
<1>7. HeardInv(Append(h, m), HeardIn(Mapped(h)) \o HeardIn(MapMessage(m)))
  BY <1>1, <1>3, <1>6, HeardGrows
<1>8. HeardIn(Mapped(h) \o MapMessage(m)) = HeardIn(Mapped(h)) \o HeardIn(MapMessage(m))
  BY <1>2, HeardConcat
<1> QED
  BY <1>2, <1>3, <1>5, <1>7, <1>8

LEMMA ResponseGrows ==
  ASSUME NEW h, HistoryInv(h), MappedInv(h), NEW m, NEW n, n = Len(h) + 1, Extends(m, n), n % 2 = 0
  PROVE  MappedInv(Append(h, m))
<1> SUFFICES ASSUME Supported(Append(h, m))
             PROVE  /\ LineInv(Mapped(Append(h, m))) /\ PairedInv(Append(h, m), Mapped(Append(h, m)))
                    /\ HeardInv(Append(h, m), HeardIn(Mapped(Append(h, m))))
  BY DEF MappedInv
<1>1. PICK g, lines, more, all, a :
         /\ g = Append(h, m) /\ lines = Mapped(h) /\ more = MapMessage(m) /\ all = Mapped(g)
         /\ a = MapAssistantMessage(m)
  OBVIOUS
<1>2. /\ Mappable(m) /\ LineInv(lines) /\ PairedInv(h, lines) /\ lines \in Seq(Line) /\ more \in Seq(Line)
      /\ all = lines \o more /\ LineInv(all) /\ HeardInv(g, HeardIn(all))
  BY <1>1, LinesAndPlaces
<1>3. n \in Nat /\ Len(g) = n /\ g[n] = m
  BY <1>1, HistoryGrows
<1>4. m.kind = "response"
  BY DEF Extends
<1>5. more = <<a>>
  BY <1>1, <1>2, <1>4, ResponseMapped
<1>6. JoinOf(all, lines, more, Line)
  BY <1>2, JoinIs
<1>7. Len(more) = 1 /\ more[1] = a
  BY <1>5
<1>8. PICK l : l = Len(lines)
  OBVIOUS
<1>9. /\ l \in Nat /\ Len(all) = l + 1 /\ all \in Seq(Line) /\ all[l + 1] = a
      /\ \A i \in 1..l : all[i] = lines[i]
  BY <1>6, <1>7, <1>8 DEF JoinOf
<1>10. PairedUpTo(all, l)
  <2>1. Len(h) % 2 = 1
    <3>1. Len(h) \in Nat
      BY DEF HistoryInv
    <3> QED
      BY <3>1
  <2>2. PairedUpTo(lines, l)
    BY <1>2, <1>8, <2>1 DEF PairedInv
  <2>3. l <= Len(lines) /\ l <= Len(all)
    BY <1>8, <1>9
  <2> QED
    BY <1>2, <1>9, <2>2, <2>3, PairsStay
<1>11. PairedInv(g, all)
  <2>1. Len(g) % 2 # 1 /\ Len(all) - 1 = l /\ all[Len(all)] = MapAssistantMessage(g[Len(g)])
    BY <1>1, <1>3, <1>9
  <2> QED
    BY <1>10, <2>1 DEF PairedInv
<1> QED
  BY <1>1, <1>2, <1>11

\* A request answers the calls of the response before it, if it made any.
Follows(m, last) ==
    LET calls == CallsOf(last.parts)
    IN  IF calls = <<>>
        THEN \A i \in DOMAIN m.parts : m.parts[i].kind = "retry" /\ m.parts[i].tool = NoTool
        ELSE /\ Len(m.parts) = Len(calls)
             /\ \A i \in DOMAIN m.parts : m.parts[i].kind \in {"return", "retry"} /\ m.parts[i].tool # NoTool
             /\ \E order : /\ Permutes(order, Len(calls))
                           /\ \A i \in 1..Len(calls) : m.parts[i].call = calls[order[i]].call

LEMMA FollowsIsReply ==
  ASSUME NEW m, Mappable(m), m.kind = "request", NEW last \in Message, last.kind = "response",
         Follows(m, last)
  PROVE  Replied(MapMessage(m), MapAssistantMessage(last))
<1>1. PICK more, a, calls, parts : /\ more = MapMessage(m) /\ a = MapAssistantMessage(last)
                                   /\ calls = CallsOf(last.parts) /\ parts = m.parts
  OBVIOUS
<1>2. /\ more \in Seq(Line) /\ Len(more) = Len(parts)
      /\ Len(parts) \in Nat /\ parts \in Seq(PartOf(RequestKinds))
      /\ \A i \in 1..Len(parts) : more[i] = MapRequestPart(parts[i])
            /\ parts[i] \in PartOf(RequestKinds) /\ parts[i].kind # "image"
  BY <1>1, RequestMapped
<1>3. /\ a \in Line /\ DOMAIN a.calls = DOMAIN calls
      /\ \A c \in DOMAIN calls : a.calls[c].id = calls[c].call
  BY <1>1, AssistantMapped
<1>4. calls \in Seq(PartOf(ResponseKinds))
  <2>1. last.parts \in Seq(PartOf(ResponseKinds))
    BY DEF Message
  <2> QED
    BY <1>1, <2>1, OfKindSelects DEF CallsOf
<1>5. Len(a.calls) = Len(calls) /\ (a.calls = <<>> <=> calls = <<>>) /\ DOMAIN calls = 1..Len(calls)
  <2>1. <<a>> \in Seq(Line) /\ 1 \in DOMAIN <<a>> /\ <<a>>[1] = a
    BY <1>3
  <2>2. Len(a.calls) \in Nat /\ DOMAIN a.calls = 1..Len(a.calls) /\ (a.calls = <<>> <=> Len(a.calls) = 0)
    BY <2>1, LineType
  <2>3. Len(calls) \in Nat /\ DOMAIN calls = 1..Len(calls) /\ (calls = <<>> <=> Len(calls) = 0)
    BY <1>4
  <2>4. PICK j, k : j = Len(a.calls) /\ k = Len(calls)
    OBVIOUS
  <2>5. 1..j = 1..k /\ j \in Nat /\ k \in Nat
    BY <1>3, <2>2, <2>3, <2>4
  <2>6. j = k
    BY <2>5
  <2> QED
    BY <2>2, <2>3, <2>4, <2>6
<1>6. ASSUME NEW i \in DOMAIN more
      PROVE  /\ i \in DOMAIN parts /\ more[i].calls = <<>>
             /\ more[i].role = "tool" <=> parts[i].kind = "return" \/ (parts[i].kind = "retry" /\ parts[i].tool # NoTool)
             /\ more[i].role = "tool" => more[i].call = parts[i].call
  <2>1. i \in DOMAIN parts /\ i \in 1..Len(parts)
    BY <1>2
  <2>2. PICK p \in PartOf(RequestKinds) : p = parts[i] /\ p.kind # "image" /\ more[i] = MapRequestPart(p)
    BY <1>2, <2>1
  <2>3. /\ MapRequestPart(p).calls = <<>>
        /\ MapRequestPart(p).role = "tool" <=> p.kind = "return" \/ (p.kind = "retry" /\ p.tool # NoTool)
        /\ MapRequestPart(p).role = "tool" => MapRequestPart(p).call = p.call
    BY <2>2, RequestPartMapped
  <2> QED
    BY <2>1, <2>2, <2>3
<1>7. CASE calls = <<>>
  <2>1. \A i \in DOMAIN parts : parts[i].kind = "retry" /\ parts[i].tool = NoTool
    BY <1>1, <1>7 DEF Follows
  <2> QED
    BY <1>1, <1>2, <1>5, <1>6, <1>7, <2>1 DEF Replied
<1>8. CASE calls # <<>>
  <2>1. /\ Len(parts) = Len(calls)
        /\ \A i \in DOMAIN parts : parts[i].kind \in {"return", "retry"} /\ parts[i].tool # NoTool
    BY <1>1, <1>8 DEF Follows
  <2>2. PICK order : Permutes(order, Len(calls)) /\ \A i \in 1..Len(calls) : parts[i].call = calls[order[i]].call
    BY <1>1, <1>8 DEF Follows
  <2>3. ASSUME NEW i \in DOMAIN more PROVE more[i].role = "tool" /\ more[i].call = parts[i].call
    BY <1>6, <2>1
  <2>4. ASSUME NEW i \in 1..Len(calls) PROVE more[i].call = a.calls[order[i]].id
    <3>1. i \in DOMAIN more
      BY <1>2, <2>1
    <3>2. order[i] \in DOMAIN calls
      BY <1>5, <2>2 DEF Permutes
    <3> QED
      BY <1>3, <2>2, <2>3, <3>1, <3>2
  <2> QED
    BY <1>1, <1>2, <1>5, <1>6, <1>8, <2>1, <2>2, <2>3, <2>4 DEF Replied
<1> QED
  BY <1>7, <1>8

LEMMA RequestGrows ==
  ASSUME NEW h, HistoryInv(h), MappedInv(h), NEW m, NEW n, n = Len(h) + 1, Extends(m, n), n % 2 = 1,
         Follows(m, h[Len(h)])
  PROVE  MappedInv(Append(h, m))
<1> SUFFICES ASSUME Supported(Append(h, m))
             PROVE  /\ LineInv(Mapped(Append(h, m))) /\ PairedInv(Append(h, m), Mapped(Append(h, m)))
                    /\ HeardInv(Append(h, m), HeardIn(Mapped(Append(h, m))))
  BY DEF MappedInv
<1>1. PICK g, lines, more, all, a, last :
         /\ g = Append(h, m) /\ lines = Mapped(h) /\ more = MapMessage(m) /\ all = Mapped(g)
         /\ last = h[Len(h)] /\ a = MapAssistantMessage(last)
  OBVIOUS
<1>2. /\ Mappable(m) /\ LineInv(lines) /\ PairedInv(h, lines) /\ lines \in Seq(Line) /\ more \in Seq(Line)
      /\ all = lines \o more /\ LineInv(all) /\ HeardInv(g, HeardIn(all))
  BY <1>1, LinesAndPlaces
<1>3. n \in Nat /\ Len(g) = n
  BY <1>1, HistoryGrows
<1>4. h \in Seq(Message) /\ Len(h) \in Nat /\ Len(h) \in DOMAIN h /\ Len(h) % 2 # 1
  <2>1. h \in Seq(Message) /\ h # <<>>
    BY DEF HistoryInv
  <2>2. Len(h) \in Nat /\ Len(h) # 0 /\ DOMAIN h = 1..Len(h)
    BY <2>1
  <2> QED
    BY <2>1, <2>2
<1>5. last \in Message /\ last.kind = "response"
  BY <1>1, <1>4 DEF HistoryInv
<1>6. m.kind = "request"
  BY DEF Extends
<1>7. Replied(more, a)
  BY <1>1, <1>2, <1>5, <1>6, FollowsIsReply
<1>8. a.role = "assistant"
  BY <1>1, <1>5, AssistantMapped
<1>9. PICK l : l = Len(lines) - 1
  OBVIOUS
<1>10. l \in Nat /\ Len(lines) = l + 1
  <2>1. lines # <<>>
    BY <1>2 DEF LineInv
  <2> QED
    BY <1>2, <1>9, <2>1
<1>11. PairedUpTo(lines, l) /\ lines[l + 1] = a
  BY <1>1, <1>2, <1>4, <1>9, <1>10 DEF PairedInv
<1>12. PairedUpTo(all, Len(all))
  BY <1>2, <1>7, <1>8, <1>10, <1>11, RequestPairs
<1>13. PairedInv(g, all)
  BY <1>3, <1>12 DEF PairedInv
<1> QED
  BY <1>1, <1>2, <1>13

-----------------------------------------------------------------------------
\* The first message, and the messages the actions add.

LEMMA FirstMessage ==
  ASSUME NEW m, Extends(m, 1), \A i \in DOMAIN m.parts : m.parts[i].kind \in {"system", "user", "image"}
  PROVE  HistoryInv(<<m>>) /\ MappedInv(<<m>>) /\ Len(<<m>>) = 1
<1>1. m \in Message /\ m.kind = "request" /\ m.parts # <<>> /\ PartsInv(1, m.parts)
  BY DEF Extends
<1>2. PICK h : h = <<m>>
  OBVIOUS
<1>3. h \in Seq(Message) /\ h # <<>> /\ Len(h) = 1 /\ DOMAIN h = 1..1 /\ h[1] = m
  BY <1>1, <1>2
<1>4. HistoryInv(h)
  <2>1. \A k \in DOMAIN h : k = 1 /\ k % 2 = 1
    BY <1>3
  <2> QED
    BY <1>1, <1>3, <2>1 DEF HistoryInv
<1>5. ASSUME Supported(h)
      PROVE  LineInv(Mapped(h)) /\ PairedInv(h, Mapped(h)) /\ HeardInv(h, HeardIn(Mapped(h)))
  <2>1. Mappable(m)
    BY <1>1, <1>3, <1>5 DEF Supported, Mappable
  <2>2. PICK lines, parts : lines = MapMessage(m) /\ parts = m.parts
    OBVIOUS
  <2>3. Mapped(h) = lines
    BY <1>2, <2>1, <2>2, MappedFirst
  <2>4. /\ lines \in Seq(Line) /\ Len(lines) = Len(parts)
        /\ Len(parts) \in Nat /\ parts \in Seq(PartOf(RequestKinds))
        /\ \A i \in 1..Len(parts) : lines[i] = MapRequestPart(parts[i])
              /\ parts[i] \in PartOf(RequestKinds) /\ parts[i].kind # "image"
    BY <1>1, <2>1, <2>2, RequestMapped
  <2>5. ASSUME NEW i \in DOMAIN lines
        PROVE  /\ lines[i].says = <<<<1, i>>>> /\ lines[i].calls = <<>> /\ lines[i].role # "tool"
               /\ lines[i].role = "system" <=> parts[i].kind = "system"
    <3>1. i \in DOMAIN parts /\ i \in 1..Len(parts)
      BY <2>4
    <3>2. PICK p \in PartOf(RequestKinds) : p = parts[i] /\ p.kind # "image" /\ lines[i] = MapRequestPart(p)
      BY <2>4, <3>1
    <3>3. p.at = <<1, i>> /\ p.kind \in {"system", "user", "image"}
      BY <1>1, <2>2, <3>1, <3>2 DEF PartsInv
    <3>4. /\ MapRequestPart(p).says = <<p.at>> /\ MapRequestPart(p).calls = <<>>
          /\ MapRequestPart(p).role = "system" <=> p.kind = "system"
          /\ MapRequestPart(p).role = "tool" <=> p.kind = "return" \/ (p.kind = "retry" /\ p.tool # NoTool)
      BY <3>2, RequestPartMapped
    <3> QED
      BY <3>2, <3>3, <3>4
  <2>6. LineInv(lines)
    <3>1. lines # <<>>
      BY <1>1, <2>2, <2>4
    <3>2. ASSUME NEW i \in DOMAIN lines
          PROVE  /\ \A j \in DOMAIN lines[i].says : lines[i].says[j][1] # 0
                 /\ lines[i].calls = <<>>
                 /\ lines[i].role = "system" => \A j \in 1..i : lines[j].role = "system"
      <4>1. \A j \in DOMAIN lines[i].says : lines[i].says[j][1] # 0
        <5>1. lines[i].says = <<<<1, i>>>>
          BY <2>5
        <5>2. \A j \in DOMAIN <<<<1, i>>>> : <<<<1, i>>>>[j][1] = 1
          OBVIOUS
        <5> QED
          BY <5>1, <5>2
      <4>2. ASSUME lines[i].role = "system", NEW j \in 1..i PROVE lines[j].role = "system"
        <5>1. i \in DOMAIN parts /\ j \in DOMAIN lines
          BY <2>4
        <5>2. parts[i].kind = "system"
          BY <2>5, <4>2
        <5>3. parts[j].kind = "system"
          BY <1>1, <2>2, <5>1, <5>2 DEF PartsInv
        <5> QED
          BY <2>5, <5>1, <5>3
      <4> QED
        BY <2>5, <4>1, <4>2
    <3> QED
      BY <2>4, <3>1, <3>2 DEF LineInv
  <2>7. PairedUpTo(lines, Len(lines))
    <3>1. ASSUME NEW i \in 1..Len(lines) PROVE Answered(lines, Len(lines), i) /\ lines[i].role # "tool"
      <4>1. i \in DOMAIN lines
        BY <2>4
      <4> QED
        BY <2>4, <2>5, <4>1, NoneToAnswer
    <3> QED
      BY <3>1, PairedIs
  <2>8. HeardInv(h, HeardIn(lines))
    <3>1. MessageHeard(m, HeardIn(MapMessage(m)), 1)
      BY <1>1, <2>1, RequestHeard
    <3> QED
      BY <1>2, <2>2, <3>1, HeardFirst
  <2>9. PairedInv(h, lines)
    BY <1>3, <2>7 DEF PairedInv
  <2> QED
    BY <2>3, <2>6, <2>8, <2>9
<1> QED
  BY <1>2, <1>3, <1>4, <1>5 DEF MappedInv

LEMMA ResponseExtends ==
  ASSUME NEW n \in Nat, n > 1, n % 2 = 0, NEW parts \in Seq(PartOf(ResponseKinds)),
         \A i \in DOMAIN parts : /\ parts[i].at = <<n, i>>
                                 /\ parts[i].kind = "call" => parts[i].tool \in Range(MapTools)
  PROVE  Extends([kind |-> "response", parts |-> parts], n)
<1>1. \A i \in DOMAIN parts : parts[i].kind \in {"text", "call", "thinking"}
  <2>1. ASSUME NEW i \in DOMAIN parts PROVE parts[i].kind \in {"text", "call", "thinking"}
    <3>1. parts[i] \in PartOf(ResponseKinds)
      OBVIOUS
    <3> QED
      BY <3>1 DEF PartOf, ResponseKinds
  <2> QED
    BY <2>1
<1>2. PartsInv(n, parts)
  BY <1>1 DEF PartsInv
<1>3. [kind |-> "response", parts |-> parts] \in Message
  BY DEF Message
<1> QED
  BY <1>2, <1>3 DEF Extends

LEMMA BuiltExtends ==
  ASSUME HistoryInv(history), Len(history) % 2 = 1, Range(payload.tools) = Range(MapTools),
         NEW n \in Nat, NEW raw \in Replies(n)
  PROVE  Extends(BuildResponse(raw, Here), Here)
<1>1. PICK content \in BOOLEAN, tools \in [1..n -> Range(payload.tools)], named \in BOOLEAN :
         raw = [content |-> content,
                calls |-> [i \in 1..n |-> [tool |-> tools[i], id |-> IF named THEN <<Here, i>> ELSE MissingId]]]
  BY DEF Replies
<1>2. Here \in Nat /\ Here > 1 /\ Here % 2 = 0
  <2>1. history \in Seq(Message) /\ history # <<>>
    BY DEF HistoryInv
  <2>2. Len(history) \in Nat
    BY <2>1
  <2> QED
    BY <2>2 DEF Here
<1>3. PICK calls, texts, here : /\ calls = raw.calls /\ texts = (IF raw.content THEN 1 ELSE 0)
                                /\ here = Here
  OBVIOUS
<1>4. texts \in Nat /\ Len(calls) = n
  <2>1. calls = [i \in 1..n |-> [tool |-> tools[i], id |-> IF named THEN <<Here, i>> ELSE MissingId]]
    BY <1>1, <1>3
  <2> QED
    BY <1>3, <2>1
<1>5. ASSUME NEW j \in 1..n PROVE calls[j].tool \in Range(MapTools) /\ calls[j].id \in Place
  <2>1. calls[j] = [tool |-> tools[j], id |-> IF named THEN <<Here, j>> ELSE MissingId]
    BY <1>1, <1>3
  <2>2. <<Here, j>> \in Place /\ MissingId \in Place
    BY <1>2 DEF Place, MissingId
  <2> QED
    BY <2>1, <2>2
<1> DEFINE part(i) == IF i <= texts
                      THEN [kind |-> "text", tool |-> NoTool, call |-> MissingId, at |-> <<here, i>>]
                      ELSE [kind |-> "call", tool |-> calls[i - texts].tool,
                            call |-> calls[i - texts].id, at |-> <<here, i>>]
           parts == [i \in 1..(texts + n) |-> part(i)]
<1>6. BuildResponse(raw, Here) = [kind |-> "response", parts |-> parts]
  BY <1>3, <1>4 DEF BuildResponse
<1>7. ASSUME NEW i \in 1..(texts + n)
      PROVE  /\ part(i) \in PartOf(ResponseKinds) /\ part(i).at = <<here, i>>
             /\ part(i).kind = "call" => part(i).tool \in Range(MapTools)
  <2>1. <<here, i>> \in Place /\ MissingId \in Place /\ NoTool \in NamedTool
    <3>1. i \in Nat
      BY <1>4
    <3>2. here \in Nat
      BY <1>2, <1>3
    <3>3. <<here, i>> \in Place /\ MissingId \in Place
      BY <3>1, <3>2 DEF Place, MissingId
    <3> QED
      BY <3>3, NoToolType
  <2>2. CASE i <= texts
    BY <2>1, <2>2 DEF PartOf, ResponseKinds
  <2>3. CASE ~(i <= texts)
    <3>1. i - texts \in 1..n
      BY <1>4, <2>3
    <3>2. calls[i - texts].tool \in Range(MapTools) /\ calls[i - texts].id \in Place
      BY <1>5, <3>1
    <3>3. calls[i - texts].tool \in NamedTool
      BY <3>2, ToolsAre
    <3>4. part(i) = [kind |-> "call", tool |-> calls[i - texts].tool,
                     call |-> calls[i - texts].id, at |-> <<here, i>>]
      BY <2>3
    <3> HIDE DEF part
    <3> QED
      BY <2>1, <3>2, <3>3, <3>4 DEF PartOf, ResponseKinds
  <2> QED
    BY <2>2, <2>3
<1> HIDE DEF part
<1>8. parts \in Seq(PartOf(ResponseKinds)) /\ DOMAIN parts = 1..(texts + n)
  BY <1>4, <1>7
<1>9. \A i \in DOMAIN parts : /\ parts[i].at = <<here, i>>
                              /\ parts[i].kind = "call" => parts[i].tool \in Range(MapTools)
  <2>1. \A i \in DOMAIN parts : i \in 1..(texts + n) /\ parts[i] = part(i)
    BY <1>8
  <2> QED
    BY <1>7, <2>1
<1> HIDE DEF parts
<1>10. here \in Nat /\ here > 1 /\ here % 2 = 0
  BY <1>2, <1>3
<1>11. Extends([kind |-> "response", parts |-> parts], here)
  BY <1>8, <1>9, <1>10, ResponseExtends
<1> QED
  BY <1>3, <1>6, <1>11

LEMMA OtherExtends ==
  ASSUME HistoryInv(history), Len(history) % 2 = 1, NEW tool \in Range(MapTools),
         NEW kinds \in {<<"thinking", "text">>, <<"thinking", "call">>, <<"call", "text">>}
  PROVE  Extends([kind |-> "response",
                  parts |-> [i \in DOMAIN kinds |-> Part(kinds[i], tool, <<Here, i>>, <<Here, i>>)]], Here)
<1>1. Here \in Nat /\ Here > 1 /\ Here % 2 = 0
  <2>1. history \in Seq(Message) /\ history # <<>>
    BY DEF HistoryInv
  <2>2. Len(history) \in Nat
    BY <2>1
  <2> QED
    BY <2>2 DEF Here
<1>2. DOMAIN kinds = 1..2 /\ kinds[1] \in ResponseKinds /\ kinds[2] \in ResponseKinds
  BY DEF ResponseKinds
<1>3. PICK here, parts : /\ here = Here
                         /\ parts = [i \in DOMAIN kinds |-> Part(kinds[i], tool, <<Here, i>>, <<Here, i>>)]
  OBVIOUS
<1>4. ASSUME NEW i \in 1..2
      PROVE  parts[i] = Part(kinds[i], tool, <<here, i>>, <<here, i>>) /\ parts[i] \in PartOf(ResponseKinds)
  <2>1. parts[i] = Part(kinds[i], tool, <<here, i>>, <<here, i>>)
    BY <1>2, <1>3
  <2>2. kinds[i] \in ResponseKinds /\ <<here, i>> \in Place /\ tool \in NamedTool
    BY <1>1, <1>2, <1>3, ToolsAre DEF Place
  <2> QED
    BY <2>1, <2>2 DEF Part, PartOf
<1>5. parts \in Seq(PartOf(ResponseKinds)) /\ DOMAIN parts = 1..2
  <2>1. parts = [i \in 1..2 |-> parts[i]]
    BY <1>2, <1>3
  <2> QED
    BY <1>4, <2>1
<1>6. \A i \in DOMAIN parts : /\ parts[i].at = <<here, i>>
                              /\ parts[i].kind = "call" => parts[i].tool \in Range(MapTools)
  BY <1>4, <1>5 DEF Part
<1>7. here \in Nat /\ here > 1 /\ here % 2 = 0
  BY <1>1, <1>3
<1>8. Extends([kind |-> "response", parts |-> parts], here)
  BY <1>5, <1>6, <1>7, ResponseExtends
<1> QED
  BY <1>3, <1>8

LEMMA RequestExtends ==
  ASSUME NEW n \in Nat, n > 1, n % 2 = 1, NEW given \in Instructions,
         NEW parts \in Seq(PartOf(RequestKinds)), parts # <<>>,
         \A i \in DOMAIN parts : parts[i].at = <<n, i>> /\ parts[i].kind \in {"return", "retry"}
  PROVE  Extends(Request(parts, given), n)
<1>1. PartsInv(n, parts)
  BY DEF PartsInv
<1>2. Request(parts, given) \in Message
  BY DEF Message, Request
<1> QED
  BY <1>1, <1>2 DEF Extends, Request

\* The calls of the last response.
LEMMA PendingAre ==
  ASSUME HistoryInv(history), Len(history) % 2 = 0
  PROVE  /\ Len(history) \in DOMAIN history /\ Len(history) \in Nat /\ Len(history) # 0
         /\ Pending = CallsOf(history[Len(history)].parts)
         /\ Pending \in Seq(PartOf(ResponseKinds))
         /\ \A i \in DOMAIN Pending : Pending[i].call \in Place /\ Pending[i].tool \in Range(MapTools)
<1>1. /\ Len(history) \in DOMAIN history /\ Len(history) \in Nat /\ Len(history) # 0
      /\ history[Len(history)] \in Message
  <2>1. history \in Seq(Message) /\ history # <<>>
    BY DEF HistoryInv
  <2> QED
    BY <2>1
<1>2. PICK last, parts, calls : last = history[Len(history)] /\ parts = last.parts /\ calls = Pending
  OBVIOUS
<1>3. calls = CallsOf(parts)
  BY <1>2 DEF Pending, LastParts
<1>4. last.kind = "response" /\ PartsInv(Len(history), parts)
  BY <1>1, <1>2 DEF HistoryInv
<1>5. parts \in Seq(PartOf(ResponseKinds))
  BY <1>1, <1>2, <1>4 DEF Message
<1>6. calls \in Seq(PartOf(ResponseKinds)) /\ Selects(calls, parts, "call")
  BY <1>3, <1>5, OfKindSelects DEF CallsOf
<1>7. ASSUME NEW i \in DOMAIN calls PROVE calls[i].call \in Place /\ calls[i].tool \in Range(MapTools)
  <2>1. calls[i] \in PartOf(ResponseKinds)
    BY <1>6
  <2>2. calls[i].kind = "call"
    BY <1>6 DEF Selects
  <2>3. PICK j \in DOMAIN parts : calls[i] = parts[j]
    BY <1>6 DEF Selects
  <2>4. parts[j].tool \in Range(MapTools)
    BY <1>4, <2>2, <2>3 DEF PartsInv
  <2> QED
    BY <2>1, <2>3, <2>4 DEF PartOf
<1> QED
  BY <1>1, <1>2, <1>3, <1>6, <1>7

LEMMA ResultsExtend ==
  ASSUME HistoryInv(history), Len(history) % 2 = 0, Pending # <<>>, NEW given \in Instructions,
         NEW order, Permutes(order, Len(Pending)), NEW kinds \in [1..Len(Pending) -> {"return", "retry"}]
  PROVE  /\ Extends(Request(Results(order, kinds), given), Here)
         /\ Follows(Request(Results(order, kinds), given), history[Len(history)])
<1>1. PICK calls, k, here, parts : /\ calls = Pending /\ k = Len(calls) /\ here = Here
                                   /\ parts = Results(order, kinds)
  OBVIOUS
<1>2. /\ calls = CallsOf(history[Len(history)].parts) /\ calls \in Seq(PartOf(ResponseKinds))
      /\ \A i \in DOMAIN calls : calls[i].call \in Place /\ calls[i].tool \in Range(MapTools)
  BY <1>1, PendingAre
<1>3. k \in Nat /\ k # 0 /\ DOMAIN calls = 1..k
  BY <1>1, <1>2
<1>4. here \in Nat /\ here > 1 /\ here % 2 = 1
  BY <1>1, PendingAre DEF Here
<1>5. order \in [1..k -> 1..k] /\ DOMAIN order = 1..k /\ Permutes(order, k)
  BY <1>1 DEF Permutes
<1>6. parts = [i \in 1..k |-> Part(kinds[i], calls[order[i]].tool, calls[order[i]].call, <<here, i>>)]
  BY <1>1, <1>5 DEF Results
<1>7. ASSUME NEW i \in 1..k
      PROVE  /\ parts[i] \in PartOf(RequestKinds) /\ parts[i].at = <<here, i>>
             /\ parts[i].kind \in {"return", "retry"} /\ parts[i].tool # NoTool
             /\ parts[i].call = calls[order[i]].call
  <2>1. parts[i] = Part(kinds[i], calls[order[i]].tool, calls[order[i]].call, <<here, i>>)
    BY <1>6
  <2>2. calls[order[i]].call \in Place /\ calls[order[i]].tool \in Range(MapTools)
    BY <1>2, <1>3, <1>5
  <2>3. calls[order[i]].tool \in NamedTool /\ calls[order[i]].tool # NoTool
    BY <2>2, ToolsAre
  <2>4. kinds[i] \in {"return", "retry"} /\ <<here, i>> \in Place
    BY <1>1, <1>4 DEF Place
  <2> QED
    BY <2>1, <2>2, <2>3, <2>4 DEF Part, PartOf, RequestKinds
<1>8. parts \in Seq(PartOf(RequestKinds)) /\ DOMAIN parts = 1..k /\ Len(parts) = k /\ parts # <<>>
  <2>1. parts = [i \in 1..k |-> parts[i]]
    BY <1>6
  <2>2. parts \in Seq(PartOf(RequestKinds)) /\ DOMAIN parts = 1..k /\ Len(parts) = k
    BY <1>3, <1>7, <2>1
  <2> QED
    BY <1>3, <2>2
<1>9. Extends(Request(parts, given), here)
  BY <1>4, <1>7, <1>8, RequestExtends
<1>10. Follows(Request(parts, given), history[Len(history)])
  <2>1. PICK m : m = Request(parts, given)
    OBVIOUS
  <2>2. m.parts = parts
    BY <2>1 DEF Request
  <2>3. PICK last : last = history[Len(history)] /\ calls = CallsOf(last.parts) /\ calls # <<>>
    BY <1>1, <1>2
  <2>4. Len(m.parts) = Len(calls)
    BY <1>1, <1>8, <2>2
  <2>5. \A i \in DOMAIN m.parts : m.parts[i].kind \in {"return", "retry"} /\ m.parts[i].tool # NoTool
    BY <1>7, <1>8, <2>2
  <2>6. Permutes(order, Len(calls)) /\ \A i \in 1..Len(calls) : m.parts[i].call = calls[order[i]].call
    BY <1>1, <1>5, <1>7, <2>2
  <2>7. Follows(m, last)
    BY <2>3, <2>4, <2>5, <2>6 DEF Follows
  <2> QED
    BY <2>1, <2>3, <2>7
<1> QED
  BY <1>1, <1>9, <1>10

LEMMA RetryExtends ==
  ASSUME HistoryInv(history), Len(history) % 2 = 0, Pending = <<>>, NEW given \in Instructions
  PROVE  LET m == Request(<<Part("retry", NoTool, <<Here, 1>>, <<Here, 1>>)>>, given)
         IN  Extends(m, Here) /\ Follows(m, history[Len(history)])
<1>1. PICK here, p, parts, m : /\ here = Here /\ p = Part("retry", NoTool, <<here, 1>>, <<here, 1>>)
                               /\ parts = <<p>> /\ m = Request(parts, given)
  OBVIOUS
<1>2. here \in Nat /\ here > 1 /\ here % 2 = 1
  BY <1>1, PendingAre DEF Here
<1>3. p \in PartOf(RequestKinds) /\ p.at = <<here, 1>> /\ p.kind = "retry" /\ p.tool = NoTool
  <2>1. <<here, 1>> \in Place /\ NoTool \in NamedTool
    BY <1>2, NoToolType DEF Place
  <2> QED
    BY <1>1, <2>1 DEF Part, PartOf, RequestKinds
<1>4. parts \in Seq(PartOf(RequestKinds)) /\ parts # <<>> /\ DOMAIN parts = {1} /\ parts[1] = p
  BY <1>1, <1>3
<1>5. Extends(Request(parts, given), here)
  BY <1>2, <1>3, <1>4, RequestExtends
<1>6. Follows(m, history[Len(history)])
  <2>1. m.parts = parts /\ CallsOf(history[Len(history)].parts) = <<>>
    BY <1>1, PendingAre DEF Request
  <2> QED
    BY <1>3, <1>4, <2>1 DEF Follows
<1> QED
  BY <1>1, <1>5, <1>6

-----------------------------------------------------------------------------
\* The invariant.

\* A body that was mapped is not empty.
LEMMA MappedIsSent ==
  ASSUME NEW h, HistoryInv(h), MappedInv(h), Supported(h)
  PROVE  [messages |-> MapMessages(h), tools |-> MapTools] # NoPayload
<1>1. PICK lines, sent : lines = Mapped(h) /\ sent = MapMessages(h)
  OBVIOUS
<1>2. LineInv(lines)
  BY <1>1 DEF MappedInv
<1>3. SentAs(h, lines, sent) /\ lines # <<>> /\ lines \in Seq(Line)
  BY <1>1, <1>2, SentIs DEF LineInv
<1>4. sent # <<>>
  <2>1. ASSUME NEW p, NEW g, NEW k, Leads(h, lines, sent, p, g, k) PROVE sent # <<>>
    <3>1. Len(sent) = Len(lines) + 1 /\ Len(lines) \in Nat
      BY <1>3, <2>1 DEF Leads, With
    <3>2. Len(sent) # 0
      BY <3>1
    <3> QED
      BY <3>2
  <2> QED
    BY <1>3, <2>1 DEF SentAs
<1> QED
  BY <1>1, <1>4 DEF NoPayload

LEMMA InitHolds == Init => ClientInv
<1> SUFFICES ASSUME Init PROVE ClientInv
  OBVIOUS
<1>1. PICK lead \in {0, 2}, prompt \in {"user", "image"}, given \in Instructions :
         history = <<Request([i \in 1..(lead + 1) |->
             Part(IF i <= lead THEN "system" ELSE prompt, NoTool, <<1, i>>, <<1, i>>)], given)>>
  BY DEF Init
<1>2. PICK n, parts, m : /\ n = lead + 1 /\ m = Request(parts, given)
                         /\ parts = [i \in 1..n |->
                               Part(IF i <= lead THEN "system" ELSE prompt, NoTool, <<1, i>>, <<1, i>>)]
  OBVIOUS
<1>3. n \in Nat /\ n # 0 /\ lead \in Nat
  BY <1>2
<1>4. ASSUME NEW i \in 1..n
      PROVE  /\ parts[i] = Part(IF i <= lead THEN "system" ELSE prompt, NoTool, <<1, i>>, <<1, i>>)
             /\ parts[i] \in PartOf(RequestKinds) /\ parts[i].at = <<1, i>>
             /\ parts[i].kind \in {"system", "user", "image"} /\ (parts[i].kind = "system" <=> i <= lead)
  <2>1. parts[i] = Part(IF i <= lead THEN "system" ELSE prompt, NoTool, <<1, i>>, <<1, i>>)
    BY <1>2
  <2>2. <<1, i>> \in Place /\ NoTool \in NamedTool
    BY <1>3, NoToolType DEF Place
  <2>3. CASE i <= lead
    BY <2>1, <2>2, <2>3 DEF Part, PartOf, RequestKinds
  <2>4. CASE ~(i <= lead)
    BY <2>1, <2>2, <2>4 DEF Part, PartOf, RequestKinds
  <2> QED
    BY <2>1, <2>3, <2>4
<1>5. parts \in Seq(PartOf(RequestKinds)) /\ parts # <<>> /\ DOMAIN parts = 1..n
  <2>1. parts = [i \in 1..n |-> parts[i]]
    BY <1>2
  <2>2. \A i \in 1..n : parts[i] \in PartOf(RequestKinds)
    BY <1>4
  <2>3. n \in Nat
    BY <1>3
  <2>4. parts \in Seq(PartOf(RequestKinds)) /\ DOMAIN parts = 1..n /\ Len(parts) = n
    BY <2>1, <2>2, <2>3
  <2> QED
    BY <1>3, <2>4
<1>6. PartsInv(1, parts)
  <2>1. ASSUME NEW i \in DOMAIN parts, parts[i].kind = "system", NEW j \in 1..i PROVE parts[j].kind = "system"
    <3>1. i \in 1..n /\ i <= lead
      BY <1>4, <1>5, <2>1
    <3>2. j \in 1..n /\ j <= lead
      BY <1>3, <3>1
    <3> QED
      BY <1>4, <3>2
  <2>2. \A i \in DOMAIN parts : parts[i].at = <<1, i>> /\ parts[i].kind # "call"
    BY <1>4, <1>5
  <2> QED
    BY <2>1, <2>2 DEF PartsInv
<1>7. m \in Message /\ m.kind = "request" /\ m.parts = parts
  BY <1>2, <1>5 DEF Message, Request
<1>8. Extends(m, 1)
  BY <1>5, <1>6, <1>7 DEF Extends
<1>9. HistoryInv(<<m>>) /\ MappedInv(<<m>>) /\ Len(<<m>>) = 1
  BY <1>4, <1>5, <1>7, <1>8, FirstMessage
<1>10. history = <<m>>
  BY <1>1, <1>2
<1>11. PhaseInv /\ FallsBackOnFaultsOnly
  BY <1>9, <1>10 DEF Init, PhaseInv, FallsBackOnFaultsOnly
<1> QED
  BY <1>9, <1>10, <1>11 DEF ClientInv

\* A message more, by the two kinds of message there are.
LEMMA AnswerKept ==
  ASSUME ClientInv, Len(history) % 2 = 1, NEW m, Extends(m, Here), history' = Append(history, m)
  PROVE  HistoryInv(history') /\ MappedInv(history') /\ Len(history') % 2 = 0
<1>1. HistoryInv(history) /\ MappedInv(history)
  BY DEF ClientInv
<1>2. PICK h, n : h = history /\ n = Here
  OBVIOUS
<1>3. n = Len(h) + 1 /\ HistoryInv(h) /\ MappedInv(h) /\ Extends(m, n) /\ Len(h) \in Nat
  BY <1>1, <1>2 DEF Here, HistoryInv
<1>4. n % 2 = 0
  BY <1>2, <1>3
<1>5. HistoryInv(Append(h, m)) /\ Len(Append(h, m)) = n
  BY <1>3, HistoryGrows
<1>6. MappedInv(Append(h, m))
  BY <1>3, <1>4, ResponseGrows
<1> QED
  BY <1>2, <1>4, <1>5, <1>6

LEMMA QuestionKept ==
  ASSUME ClientInv, Len(history) % 2 = 0, NEW m, Extends(m, Here), Follows(m, history[Len(history)]),
         history' = Append(history, m)
  PROVE  HistoryInv(history') /\ MappedInv(history') /\ Len(history') % 2 = 1
<1>1. HistoryInv(history) /\ MappedInv(history)
  BY DEF ClientInv
<1>2. PICK h, n : h = history /\ n = Here
  OBVIOUS
<1>3. /\ n = Len(h) + 1 /\ HistoryInv(h) /\ MappedInv(h) /\ Extends(m, n) /\ Len(h) \in Nat
      /\ Follows(m, h[Len(h)])
  BY <1>1, <1>2 DEF Here, HistoryInv
<1>4. n % 2 = 1
  BY <1>2, <1>3
<1>5. HistoryInv(Append(h, m)) /\ Len(Append(h, m)) = n
  BY <1>3, HistoryGrows
<1>6. MappedInv(Append(h, m))
  BY <1>3, <1>4, RequestGrows
<1> QED
  BY <1>2, <1>4, <1>5, <1>6

LEMMA AskKeeps ==
  ASSUME ClientInv, Ask
  PROVE  ClientInv'
<1>1. history' = history /\ fault' = fault /\ phase = "ask" /\ outcome # "ModelAPIError" /\ Len(history) % 2 = 1
  BY DEF ClientInv, PhaseInv, Ask
<1>2. HistoryInv(history') /\ MappedInv(history')
  BY <1>1 DEF ClientInv
<1>3. CASE Supported(history)
  <2>1. /\ payload' = [messages |-> MapMessages(history'), tools |-> MapTools]
        /\ phase' = "calling" /\ outcome' = outcome /\ Supported(history') /\ Len(history') % 2 = 1
    BY <1>1, <1>3 DEF Ask, Map
  <2>2. PhaseInv' /\ FallsBackOnFaultsOnly'
    BY <1>1, <2>1 DEF PhaseInv, FallsBackOnFaultsOnly
  <2> QED
    BY <1>2, <2>2 DEF ClientInv
<1>4. CASE ~Supported(history)
  <2>1. phase' = "raised" /\ outcome' = "NotImplementedError"
    BY <1>4 DEF Ask, Map, Raise
  <2>2. PhaseInv' /\ FallsBackOnFaultsOnly'
    BY <2>1 DEF PhaseInv, FallsBackOnFaultsOnly
  <2> QED
    BY <1>2, <2>2 DEF ClientInv
<1> QED
  BY <1>3, <1>4

\* Actions that end the run with something other than a ModelAPIError.
LEMMA EndKeeps ==
  ASSUME ClientInv, Stream \/ Choiceless \/ LimitReached
  PROVE  ClientInv'
<1>1. history' = history /\ phase' = "raised" /\ outcome' # "ModelAPIError"
  BY DEF Stream, Choiceless, LimitReached, Raise
<1>2. HistoryInv(history') /\ MappedInv(history')
  BY <1>1 DEF ClientInv
<1>3. PhaseInv' /\ FallsBackOnFaultsOnly'
  BY <1>1 DEF PhaseInv, FallsBackOnFaultsOnly
<1> QED
  BY <1>2, <1>3 DEF ClientInv

LEMMA CallFailsKeeps ==
  ASSUME ClientInv, NEW kind \in {"sdk_error", "http_error", "other_error"}, CallFails(kind)
  PROVE  ClientInv'
<1>1. /\ history' = history /\ payload' = payload /\ fault' = kind /\ phase = "calling"
      /\ \/ phase' = "failed" /\ outcome' = "ModelAPIError"
         \/ phase' = "raised" /\ outcome' = kind
  BY DEF CallFails, Raise
<1>2. HistoryInv(history) /\ MappedInv(history) /\ Supported(history) /\ Len(history) % 2 = 1
      /\ payload = [messages |-> MapMessages(history), tools |-> MapTools]
  BY <1>1 DEF ClientInv, PhaseInv
<1>3. payload # NoPayload
  BY <1>2, MappedIsSent
<1>4. HistoryInv(history') /\ MappedInv(history')
  BY <1>1, <1>2
<1>5. Supported(history') /\ payload' # NoPayload /\ Len(history') % 2 = 1
  BY <1>1, <1>2, <1>3 DEF NoPayload
<1>6. PhaseInv' /\ FallsBackOnFaultsOnly'
  BY <1>1, <1>5 DEF PhaseInv, FallsBackOnFaultsOnly, NoPayload
<1> QED
  BY <1>4, <1>6 DEF ClientInv

LEMMA ReplyKeeps ==
  ASSUME ClientInv, Reply
  PROVE  ClientInv'
<1>1. /\ phase = "calling" /\ phase' = "answered" /\ outcome' = "response"
  BY DEF Reply
<1>2. HistoryInv(history) /\ Len(history) % 2 = 1 /\ payload.tools = MapTools
  BY <1>1 DEF ClientInv, PhaseInv
<1>3. PICK n \in 0..CallsLeft :
         \E raw \in Replies(n) : history' = Append(history, BuildResponse(raw, Here))
  BY DEF Reply
<1>4. PICK raw \in Replies(n) : n \in Nat /\ history' = Append(history, BuildResponse(raw, Here))
  BY <1>3
<1>5. Extends(BuildResponse(raw, Here), Here)
  BY <1>2, <1>4, BuiltExtends
<1>6. HistoryInv(history') /\ MappedInv(history') /\ Len(history') % 2 = 0
  BY <1>2, <1>4, <1>5, AnswerKept
<1>7. PhaseInv' /\ FallsBackOnFaultsOnly'
  BY <1>1, <1>6 DEF PhaseInv, FallsBackOnFaultsOnly
<1> QED
  BY <1>6, <1>7 DEF ClientInv

LEMMA OtherMemberKeeps ==
  ASSUME ClientInv, OtherMemberAnswers
  PROVE  ClientInv'
<1>1. phase = "failed" /\ phase' = "answered" /\ outcome' = "response"
  BY DEF OtherMemberAnswers
<1>2. HistoryInv(history) /\ Len(history) % 2 = 1
  BY <1>1 DEF ClientInv, PhaseInv
<1>3. PICK kinds \in {<<"thinking", "text">>, <<"thinking", "call">>, <<"call", "text">>},
           tool \in Range(MapTools) :
         history' = Append(history,
            [kind |-> "response",
             parts |-> [i \in DOMAIN kinds |-> Part(kinds[i], tool, <<Here, i>>, <<Here, i>>)]])
  BY DEF OtherMemberAnswers
<1>4. PICK m : m = [kind |-> "response",
                    parts |-> [i \in DOMAIN kinds |-> Part(kinds[i], tool, <<Here, i>>, <<Here, i>>)]]
  OBVIOUS
<1>5. Extends(m, Here)
  BY <1>2, <1>4, OtherExtends
<1>6. HistoryInv(history') /\ MappedInv(history') /\ Len(history') % 2 = 0
  BY <1>2, <1>3, <1>4, <1>5, AnswerKept
<1>7. PhaseInv' /\ FallsBackOnFaultsOnly'
  BY <1>1, <1>6 DEF PhaseInv, FallsBackOnFaultsOnly
<1> QED
  BY <1>6, <1>7 DEF ClientInv

\* Actions that leave history, payload, outcome and fault as they are.
LEMMA RestKeeps ==
  ASSUME ClientInv, ChainExhausted \/ Accept \/ UNCHANGED vars
  PROVE  ClientInv'
<1>1. history' = history /\ payload' = payload /\ outcome' = outcome /\ fault' = fault
  BY DEF ChainExhausted, Accept, vars
<1>2. HistoryInv(history') /\ MappedInv(history')
  BY <1>1 DEF ClientInv
<1>3. FallsBackOnFaultsOnly'
  BY <1>1 DEF ClientInv, FallsBackOnFaultsOnly, NoPayload
<1>4. PhaseInv'
  <2>1. PhaseInv
    BY DEF ClientInv
  <2>2. CASE ChainExhausted
    BY <1>1, <2>1, <2>2 DEF PhaseInv, ChainExhausted
  <2>3. CASE Accept
    <3>1. phase = "answered" /\ phase' = "done"
      BY <2>3 DEF Accept
    <3>2. outcome # "ModelAPIError"
      BY <2>1, <3>1 DEF PhaseInv
    <3> QED
      BY <1>1, <3>1, <3>2 DEF PhaseInv
  <2>4. CASE UNCHANGED vars
    BY <2>1, <2>4 DEF PhaseInv, vars
  <2> QED
    BY <2>2, <2>3, <2>4
<1> QED
  BY <1>2, <1>3, <1>4 DEF ClientInv

LEMMA NextTurnKeeps ==
  ASSUME ClientInv, NextTurn
  PROVE  ClientInv'
<1>1. phase = "answered" /\ phase' = "ask" /\ outcome' = "none"
  BY DEF NextTurn
<1>2. HistoryInv(history) /\ Len(history) % 2 = 0
  BY <1>1 DEF ClientInv, PhaseInv
<1>3. \E m : /\ Extends(m, Here) /\ Follows(m, history[Len(history)])
             /\ history' = Append(history, m)
  <2>1. CASE Pending # <<>>
    <3>1. PICK order \in {f \in [1..Len(Pending) -> 1..Len(Pending)] : IsInjective(f)},
               kinds \in [1..Len(Pending) -> {"return", "retry"}], given \in Instructions :
             history' = Append(history, Request(Results(order, kinds), given))
      BY <2>1 DEF NextTurn, AnswerCalls
    <3>2. Permutes(order, Len(Pending))
      BY DEF Permutes
    <3>3. PICK m : m = Request(Results(order, kinds), given)
      OBVIOUS
    <3>4. Extends(m, Here) /\ Follows(m, history[Len(history)])
      BY <1>2, <2>1, <3>2, <3>3, ResultsExtend
    <3> QED
      BY <3>1, <3>3, <3>4
  <2>2. CASE Pending = <<>>
    <3>1. PICK given \in Instructions :
             history' = Append(history, Request(<<Part("retry", NoTool, <<Here, 1>>, <<Here, 1>>)>>, given))
      BY <2>2 DEF NextTurn, AnswerText
    <3>2. PICK m : m = Request(<<Part("retry", NoTool, <<Here, 1>>, <<Here, 1>>)>>, given)
      OBVIOUS
    <3>3. Extends(m, Here) /\ Follows(m, history[Len(history)])
      BY <1>2, <2>2, <3>2, RetryExtends
    <3> QED
      BY <3>1, <3>2, <3>3
  <2> QED
    BY <2>1, <2>2
<1>4. HistoryInv(history') /\ MappedInv(history') /\ Len(history') % 2 = 1
  BY <1>2, <1>3, QuestionKept
<1>5. PhaseInv' /\ FallsBackOnFaultsOnly'
  BY <1>1, <1>4 DEF PhaseInv, FallsBackOnFaultsOnly
<1> QED
  BY <1>4, <1>5 DEF ClientInv

\* The history of a run keeps its shape, and what it is mapped to keeps the
\* order of the parts, the pairs of calls and results, and the system lines
\* in front, in every state of every run.
THEOREM ClientInvariant == Spec => []ClientInv
<1>1. Init => ClientInv
  BY InitHolds
<1>2. ClientInv /\ [Next]_vars => ClientInv'
  <2> SUFFICES ASSUME ClientInv, [Next]_vars PROVE ClientInv'
    OBVIOUS
  <2>1. CASE Ask
    BY <2>1, AskKeeps
  <2>2. CASE Stream \/ Choiceless \/ LimitReached
    BY <2>2, EndKeeps
  <2>3. CASE Reply
    BY <2>3, ReplyKeeps
  <2>4. CASE \E kind \in {"sdk_error", "http_error", "other_error"} : CallFails(kind)
    BY <2>4, CallFailsKeeps
  <2>5. CASE OtherMemberAnswers
    BY <2>5, OtherMemberKeeps
  <2>6. CASE ChainExhausted \/ Accept \/ UNCHANGED vars
    BY <2>6, RestKeeps
  <2>7. CASE NextTurn
    BY <2>7, NextTurnKeeps
  <2> QED
    BY <2>1, <2>2, <2>3, <2>4, <2>5, <2>6, <2>7 DEF Next
<1> QED
  BY <1>1, <1>2, PTL DEF Spec

\* _map_messages drops no part: every body that is sent carries each part of
\* the history once, in order, however long the run is.
THEOREM EverythingSent == Spec => []NothingDropped
<1>1. ClientInv => NothingDropped
  BY InvDropsNothing
<1> QED
  BY <1>1, ClientInvariant, PTL

\* The newest instructions are sent, once, between the system prompts and
\* everything else.
THEOREM InstructionsSent == Spec => []InstructionsLead
<1>1. ClientInv => InstructionsLead
  BY InvInstructionsLead
<1> QED
  BY <1>1, ClientInvariant, PTL

\* Every call in a body is answered right behind it, and nothing else is.
THEOREM ResultsPaired == Spec => []ResultsFollowCalls
<1>1. ClientInv => ResultsFollowCalls
  BY InvResultsFollow
<1> QED
  BY <1>1, ClientInvariant, PTL

\* A ModelAPIError comes of a call that was made and failed.
THEOREM FallbackEarned == Spec => []FallsBackOnFaultsOnly
<1>1. ClientInv => FallsBackOnFaultsOnly
  BY DEF ClientInv
<1> QED
  BY <1>1, ClientInvariant, PTL
=============================================================================
