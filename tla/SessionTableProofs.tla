--------------------------- MODULE SessionTableProofs ----------------------------
(***************************************************************************)
(* The session implements the table of streams (SessionAbs), for any       *)
(* number of streams and whatever allocations fail, as long as the         *)
(* application adds no SSRC twice.                                         *)
(***************************************************************************)
EXTENDS SessionProofs

-----------------------------------------------------------------------------
(* The lookup and the table, with the list and the contexts as parameters *)

Entry(c) == [direction |-> c.direction, index |-> c.index]

TableOf(l, st) ==
    [s \in {x \in Ssrcs : Find(l, st, x) # 0} |->
        Entry(st[l[Find(l, st, s)]])]

(* The contexts X have SSRCs of their own. *)
Unique(X, st) ==
    /\ \A id \in X : st[id].ssrc \in Ssrcs
    /\ \A id, other \in X : st[id].ssrc = st[other].ssrc => id = other

(* The table tb is the one of the contexts X. *)
Represents(tb, X, st) ==
    /\ \E f : tb = [s \in {st[id].ssrc : id \in X} |-> f[s]]
    /\ \A id \in X : tb[st[id].ssrc] = Entry(st[id])

LEMMA FindFacts ==
    ASSUME NEW l, l \in Seq(Ids), NEW st, NEW s
    PROVE  /\ Find(l, st, s) # 0 =>
                /\ Find(l, st, s) \in DOMAIN l
                /\ l[Find(l, st, s)] \in Range(l)
                /\ st[l[Find(l, st, s)]].ssrc = s
           /\ Find(l, st, s) = 0 => \A id \in Range(l) : st[id].ssrc # s
  <1> DEFINE I == {i \in 1 .. Len(l) : st[l[i]].ssrc = s}
             p == Find(l, st, s)
  <1>1. DOMAIN l = 1 .. Len(l) /\ Len(l) \in Nat
    OBVIOUS
  <1>2. p = IF I # {} THEN Min(I) ELSE 0
    BY DEF Find
  <1>3. I \subseteq Nat /\ 0 \notin I
    BY <1>1
  <1>4. \A i : i \in I <=> i \in DOMAIN l /\ st[l[i]].ssrc = s
    BY <1>1
  <1> HIDE DEF I, p
  <1>5. I # {} => Min(I) \in I
    BY <1>3, LeastExists, Zenon
  <1>6. p # 0 => p \in I
    BY <1>2, <1>5
  <1>7. p = 0 => I = {}
    BY <1>2, <1>3, <1>5
  <1>8. p # 0 => p \in DOMAIN l /\ l[p] \in Range(l) /\ st[l[p]].ssrc = s
    BY <1>4, <1>6, Zenon DEF Range
  <1>9. p = 0 => \A id \in Range(l) : st[id].ssrc # s
    BY <1>4, <1>7, Zenon DEF Range
  <1> QED BY <1>8, <1>9 DEF p

(* The list is searched for an SSRC that one context has. *)
LEMMA FindsContext ==
    ASSUME NEW l, l \in Seq(Ids), NEW st, Unique(Range(l), st),
           NEW id \in Range(l)
    PROVE  Find(l, st, st[id].ssrc) # 0
           /\ l[Find(l, st, st[id].ssrc)] = id
  <1> DEFINE p == Find(l, st, st[id].ssrc)
  <1>1. /\ p # 0 => l[p] \in Range(l) /\ st[l[p]].ssrc = st[id].ssrc
        /\ p = 0 => \A x \in Range(l) : st[x].ssrc # st[id].ssrc
    BY FindFacts, ZenonT(60)
  <1> HIDE DEF p
  <1>2. p # 0
    BY <1>1, Zenon
  <1>3. l[p] = id
    BY <1>1, <1>2, Zenon DEF Unique
  <1> QED BY <1>2, <1>3 DEF p

LEMMA TableRepresents ==
    ASSUME NEW l, l \in Seq(Ids), NEW st, Unique(Range(l), st)
    PROVE  Represents(TableOf(l, st), Range(l), st)
  <1> DEFINE D == {x \in Ssrcs : Find(l, st, x) # 0}
             tb == TableOf(l, st)
  <1>1. ASSUME NEW id \in Range(l)
        PROVE  /\ Find(l, st, st[id].ssrc) # 0
               /\ l[Find(l, st, st[id].ssrc)] = id
               /\ st[id].ssrc \in Ssrcs
    <2>1. st[id].ssrc \in Ssrcs
      BY DEF Unique
    <2> QED BY <2>1, FindsContext
  <1>2. D = {st[id].ssrc : id \in Range(l)}
    <2>1. ASSUME NEW x \in D PROVE \E id \in Range(l) : x = st[id].ssrc
      <3>1. Find(l, st, x) # 0
        OBVIOUS
      <3>2. /\ l[Find(l, st, x)] \in Range(l)
            /\ st[l[Find(l, st, x)]].ssrc = x
        BY <3>1, FindFacts
      <3> QED BY <3>2, Zenon
    <2> QED BY <1>1, <2>1, Zenon
  <1>3. tb = [s \in D |-> Entry(st[l[Find(l, st, s)]])]
    BY DEF TableOf
  <1>4. \A s \in D : tb[s] = Entry(st[l[Find(l, st, s)]])
    BY <1>3
  <1>5. tb = [s \in D |-> tb[s]]
    BY <1>3
  <1> HIDE DEF D, tb
  <1>6. \A id \in Range(l) : st[id].ssrc \in D
    BY <1>2, Zenon
  <1>7. \A id \in Range(l) : tb[st[id].ssrc] = Entry(st[id])
    BY <1>1, <1>4, <1>6, Zenon
  <1>8. \E f : tb = [s \in {st[id].ssrc : id \in Range(l)} |-> f[s]]
    BY <1>2, <1>5
  <1> QED BY <1>7, <1>8, Zenon DEF Represents, tb

(* There is one table of the contexts X. *)
LEMMA RepresentsOne ==
    ASSUME NEW X, NEW st, NEW a, NEW b,
           Represents(a, X, st), Represents(b, X, st)
    PROVE  a = b
  <1> DEFINE D == {st[id].ssrc : id \in X}
  <1>1. PICK f : a = [s \in D |-> f[s]]
    BY DEF Represents
  <1>2. PICK g : b = [s \in D |-> g[s]]
    BY DEF Represents
  <1>3. ASSUME NEW s \in D PROVE a[s] = b[s]
    <2>1. PICK id \in X : s = st[id].ssrc
      BY Zenon
    <2> QED BY <2>1, Zenon DEF Represents
  <1> HIDE DEF D
  <1>4. \A s \in D : f[s] = g[s]
    BY <1>1, <1>2, <1>3
  <1> QED BY <1>1, <1>2, <1>4

(* Only the SSRC, direction and index of the contexts matter. *)
LEMMA RepresentsSame ==
    ASSUME NEW X, NEW st, NEW new, NEW tb, Represents(tb, X, st),
           \A id \in X : new[id].ssrc = st[id].ssrc /\ Entry(new[id]) = Entry(st[id])
    PROVE  Represents(tb, X, new)
  <1>1. {new[id].ssrc : id \in X} = {st[id].ssrc : id \in X}
    OBVIOUS
  <1> QED BY <1>1, Zenon DEF Represents

LEMMA RepresentsAdded ==
    ASSUME NEW X, NEW st, NEW tb, Represents(tb, X, st),
           NEW f, f \notin X, NEW c, \A id \in X : st[id].ssrc # c.ssrc,
           DOMAIN st \cap X = X
    PROVE  Represents([s \in DOMAIN tb \cup {c.ssrc} |->
                          IF s = c.ssrc THEN Entry(c) ELSE tb[s]],
                      X \cup {f}, With(st, f, c))
  <1> DEFINE D == {st[id].ssrc : id \in X}
             new == With(st, f, c)
             big == [s \in D \cup {c.ssrc} |->
                        IF s = c.ssrc THEN Entry(c) ELSE tb[s]]
  <1>1. DOMAIN tb = D
    BY DEF Represents
  <1>2. new[f] = c /\ \A id \in X : new[id] = st[id]
    BY DEF With
  <1> HIDE DEF new
  <1>3. {new[id].ssrc : id \in X \cup {f}} = D \cup {c.ssrc}
    BY <1>2
  <1>4. big = [s \in D \cup {c.ssrc} |-> big[s]]
    OBVIOUS
  <1>5. big[c.ssrc] = Entry(c)
    OBVIOUS
  <1>6. \A id \in X : big[st[id].ssrc] = tb[st[id].ssrc]
    OBVIOUS
  <1> HIDE DEF big, D
  <1>7. \A id \in X : tb[st[id].ssrc] = Entry(st[id])
    BY DEF Represents
  <1>8. \A id \in X \cup {f} : big[new[id].ssrc] = Entry(new[id])
    <2>1. big[new[f].ssrc] = Entry(new[f])
      BY <1>2, <1>5
    <2>2. \A id \in X : big[new[id].ssrc] = Entry(new[id])
      BY <1>2, <1>6, <1>7
    <2> QED BY <2>1, <2>2, Zenon
  <1>9. \E g : big = [s \in {new[id].ssrc : id \in X \cup {f}} |-> g[s]]
    BY <1>3, <1>4
  <1>10. Represents(big, X \cup {f}, new)
    BY <1>8, <1>9, Zenon DEF Represents
  <1> QED BY <1>1, <1>10 DEF big, new

LEMMA RepresentsLess ==
    ASSUME NEW X, NEW st, NEW tb, Represents(tb, X, st), Unique(X, st),
           NEW gone \in SUBSET X
    PROVE  Represents([s \in DOMAIN tb \ {st[id].ssrc : id \in gone} |-> tb[s]],
                      X \ gone, st)
  <1> DEFINE D == {st[id].ssrc : id \in X}
             G == {st[id].ssrc : id \in gone}
             less == [s \in D \ G |-> tb[s]]
  <1>1. DOMAIN tb = D
    BY DEF Represents
  <1>2. \A id \in X \ gone : st[id].ssrc \in D \ G
    BY Zenon DEF Unique
  <1>3. \A s \in D \ G : \E id \in X \ gone : s = st[id].ssrc
    BY Zenon
  <1>4. {st[id].ssrc : id \in X \ gone} = D \ G
    BY <1>2, <1>3, SMT
  <1>5. \A s \in D \ G : less[s] = tb[s]
    OBVIOUS
  <1>6. less = [s \in D \ G |-> less[s]]
    OBVIOUS
  <1> HIDE DEF D, G, less
  <1>7. \A id \in X \ gone : less[st[id].ssrc] = Entry(st[id])
    BY <1>2, <1>5, Zenon DEF Represents
  <1>8. \E g : less = [s \in {st[id].ssrc : id \in X \ gone} |-> g[s]]
    BY <1>4, <1>6
  <1>9. Represents(less, X \ gone, st)
    BY <1>7, <1>8, Zenon DEF Represents
  <1> QED BY <1>1, <1>9 DEF less, G

(* One context stands for another with its SSRC, direction and index. *)
LEMMA RepresentsReplaced ==
    ASSUME NEW X, NEW st, NEW new, NEW tb, Represents(tb, X, st),
           NEW old \in X, NEW f,
           new[f].ssrc = st[old].ssrc, Entry(new[f]) = Entry(st[old]),
           \A id \in X \ {old} :
              new[id].ssrc = st[id].ssrc /\ Entry(new[id]) = Entry(st[id])
    PROVE  Represents(tb, (X \ {old}) \cup {f}, new)
  <1>1. {new[id].ssrc : id \in (X \ {old}) \cup {f}} = {st[id].ssrc : id \in X}
    <2>1. ASSUME NEW id \in X PROVE \E y \in (X \ {old}) \cup {f} :
                                      new[y].ssrc = st[id].ssrc
      BY Zenon
    <2>2. ASSUME NEW y \in (X \ {old}) \cup {f}
          PROVE  \E id \in X : new[y].ssrc = st[id].ssrc
      BY Zenon
    <2> DEFINE Y == (X \ {old}) \cup {f}
    <2> HIDE DEF Y
    <2>3. {new[y].ssrc : y \in Y} = {st[id].ssrc : id \in X}
      BY <2>1, <2>2 DEF Y
    <2> QED BY <2>3 DEF Y
  <1>2. \A id \in (X \ {old}) \cup {f} : tb[new[id].ssrc] = Entry(new[id])
    BY ZenonT(60) DEF Represents
  <1> QED BY <1>1, <1>2, Zenon DEF Represents

(* A packet of one context. *)
LEMMA RepresentsUsed ==
    ASSUME NEW X, NEW st, NEW new, NEW tb, Represents(tb, X, st), Unique(X, st),
           NEW id \in X,
           \A x \in X : new[x].ssrc = st[x].ssrc,
           \A x \in X \ {id} : Entry(new[x]) = Entry(st[x])
    PROVE  Represents([s \in DOMAIN tb \cup {st[id].ssrc} |->
                          IF s = st[id].ssrc THEN Entry(new[id]) ELSE tb[s]],
                      X, new)
  <1> DEFINE D == {st[x].ssrc : x \in X}
             s0 == st[id].ssrc
             big == [s \in D |-> IF s = s0 THEN Entry(new[id]) ELSE tb[s]]
  <1>1. DOMAIN tb \cup {s0} = D
    BY DEF Represents
  <1>2. {new[x].ssrc : x \in X} = D
    OBVIOUS
  <1>3. big = [s \in D |-> big[s]]
    OBVIOUS
  <1>4. \A s \in D : big[s] = IF s = s0 THEN Entry(new[id]) ELSE tb[s]
    OBVIOUS
  <1> HIDE DEF big
  <1>5. ASSUME NEW x \in X PROVE big[new[x].ssrc] = Entry(new[x])
    <2>1. new[x].ssrc = st[x].ssrc /\ st[x].ssrc \in D
      OBVIOUS
    <2>2. CASE x = id
      BY <1>4, <2>1, <2>2, SMTT(30)
    <2>3. CASE x # id
      <3>1. st[x].ssrc # s0
        BY <2>3, Zenon DEF Unique
      <3>2. big[st[x].ssrc] = tb[st[x].ssrc]
        BY <1>4, <2>1, <3>1
      <3>3. tb[st[x].ssrc] = Entry(st[x]) /\ Entry(new[x]) = Entry(st[x])
        BY <2>3 DEF Represents
      <3> QED BY <2>1, <3>2, <3>3
    <2> QED BY <2>2, <2>3
  <1> HIDE DEF D
  <1>6. \E g : big = [s \in {new[x].ssrc : x \in X} |-> g[s]]
    BY <1>2, <1>3
  <1>7. Represents(big, X, new)
    BY <1>5, <1>6, Zenon DEF Represents
  <1> QED BY <1>1, <1>7 DEF big

-----------------------------------------------------------------------------
(* The invariant *)

(* The template t has a direction and its clones in L have it, too. *)
Steady(L, t, st) ==
    t # Nil =>
        /\ st[t].direction \in {"sender", "receiver"}
        /\ \A id \in L : st[id].keys = st[t].keys =>
                            st[id].direction = st[t].direction

TableInv ==
    /\ SessionInv
    /\ Unique(Range(list), stream)
    /\ Steady(Range(list), template, stream)
    /\ ~live => list = <<>> /\ template = Nil

Tb == TableOf(list, stream)

(* The mapped table, and what it has to do with the lookups. *)
LEMMA TbFacts ==
    /\ [ssrc \in {s \in Ssrcs : Listed(s)} |-> View(ssrc)] = Tb
    /\ DOMAIN Tb = {s \in Ssrcs : Listed(s)}
    /\ \A ssrc : /\ Listed(ssrc) <=> Find(list, stream, ssrc) # 0
                 /\ GetStream(ssrc) = list[Find(list, stream, ssrc)]
                 /\ View(ssrc) = Entry(stream[GetStream(ssrc)])
  <1>1. \A ssrc : Find(list, stream, ssrc) = Position(ssrc)
    BY DEF Position
  <1>2. \A ssrc : View(ssrc) = Entry(stream[GetStream(ssrc)])
    BY DEF View, Entry
  <1>3. Tb = [s \in {x \in Ssrcs : Listed(x)} |-> Entry(stream[GetStream(s)])]
    BY <1>1 DEF Tb, TableOf, Listed, GetStream
  <1>4. [ssrc \in {s \in Ssrcs : Listed(s)} |-> View(ssrc)] = Tb
    BY <1>2, <1>3
  <1>5. DOMAIN Tb = {s \in Ssrcs : Listed(s)}
    BY <1>3
  <1>6. \A ssrc : /\ Listed(ssrc) <=> Find(list, stream, ssrc) # 0
                  /\ GetStream(ssrc) = list[Find(list, stream, ssrc)]
    BY <1>1 DEF Listed, GetStream
  <1> QED BY <1>2, <1>4, <1>5, <1>6, SMTT(30)

LEMMA TbRepresents ==
    ASSUME TableInv
    PROVE  Represents(Tb, Range(list), stream)
  <1>1. list \in Seq(Ids) /\ Unique(Range(list), stream)
    BY DEF TableInv, SessionInv, Simple
  <1>2. \A l, st : l \in Seq(Ids) /\ Unique(Range(l), st) =>
          Represents(TableOf(l, st), Range(l), st)
    BY TableRepresents, Zenon
  <1> QED BY <1>1, <1>2, Zenon DEF Tb

(* The table after a step, found by what it stands for. *)
LEMMA TbNext ==
    ASSUME TableInv', NEW tb, Represents(tb, Range(list'), stream')
    PROVE  Tb' = tb
  <1>1. list' \in Seq(Ids) /\ Unique(Range(list'), stream')
    BY DEF TableInv, SessionInv, Simple
  <1>2. \A l, st : l \in Seq(Ids) /\ Unique(Range(l), st) =>
          Represents(TableOf(l, st), Range(l), st)
    BY TableRepresents, Zenon
  <1>3. Represents(Tb', Range(list'), stream')
    BY <1>1, <1>2, Zenon DEF Tb
  <1>4. \A X, st, a, b : Represents(a, X, st) /\ Represents(b, X, st) => a = b
    BY RepresentsOne, Zenon
  <1> QED BY <1>3, <1>4, Zenon

LEMMA TableInvInit == Init => TableInv /\ Tb = <<>> /\ TemplateDirection = "none"
  <1> SUFFICES ASSUME Init
               PROVE  TableInv /\ Tb = <<>> /\ TemplateDirection = "none"
    OBVIOUS
  <1>1. list = <<>> /\ template = Nil
    BY DEF Init
  <1>2. SessionInv
    BY SessionInvInit
  <1>3. TableInv
    BY <1>1, <1>2, EmptySimple, Zenon DEF TableInv, Unique, Steady
  <1>4. \A s : Find(<<>>, stream, s) = 0
    BY DEF Find
  <1>5. Tb = <<>>
    BY <1>1, <1>4 DEF Tb, TableOf
  <1> QED BY <1>1, <1>3, <1>5 DEF TemplateDirection

(* A call that leaves the list, the template and the contexts alone. *)
LEMMA QuietTable ==
    ASSUME TableInv, SessionInv', UNCHANGED <<list, template, stream>>,
           live' = live \/ live' = TRUE
    PROVE  TableInv' /\ Tb' = Tb /\ TemplateDirection' = TemplateDirection
  BY DEF TableInv, Tb, TemplateDirection

LEMMA DeallocTable ==
    ASSUME TableInv, SessionInv', Dealloc
    PROVE  TableInv' /\ Tb' = <<>> /\ TemplateDirection' = "none"
  <1>1. list' = <<>> /\ template' = Nil
    BY DEF Dealloc
  <1>2. Range(list') = {}
    BY <1>1, EmptySimple
  <1>3. TableInv'
    BY <1>1, <1>2, Zenon DEF TableInv, Unique, Steady
  <1>4. \A st, s : Find(<<>>, st, s) = 0
    BY DEF Find
  <1>5. Tb' = <<>>
    BY <1>1, <1>4 DEF Tb, TableOf
  <1> QED BY <1>1, <1>3, <1>5 DEF TemplateDirection

(* What the session's invariant says of the contexts. *)
LEMMA ContextFacts ==
    ASSUME SessionInv
    PROVE  /\ DOMAIN stream = Cells(Range(list), template)
           /\ Range(list) \subseteq DOMAIN stream
           /\ template # Nil => template \in DOMAIN stream
           /\ template \notin Range(list)
           /\ \A id \in DOMAIN stream : /\ stream[id] \in StreamType
                                        /\ stream[id].keys \in keys
           /\ Simple(list)
  <1>1. Memory(Range(list), template, stream, keys) /\ Simple(list)
    BY DEF SessionInv
  <1>2. DOMAIN stream = Cells(Range(list), template)
    BY <1>1 DEF Memory
  <1>3. \A id \in DOMAIN stream : stream[id] \in StreamType
    BY <1>1, <1>2 DEF Memory
  <1>4. /\ Range(list) \subseteq DOMAIN stream
        /\ template # Nil => template \in DOMAIN stream
    BY <1>2, Zenon DEF Cells
  <1> QED BY <1>1, <1>2, <1>3, <1>4, Zenon DEF Memory

LEMMA AddTemplateTable ==
    ASSUME TableInv, SessionInv', NEW d \in {"sender", "receiver"}, AddTemplate(d)
    PROVE  /\ TableInv' /\ Tb' = Tb
           /\ TemplateDirection = "none" /\ TemplateDirection' = d
  <1> DEFINE s == NewStream(Nil, d)
             L == Range(list)
  <1>1. /\ template = Nil /\ Available # {} /\ live' = live /\ live
        /\ list' = list /\ template' = Fresh /\ stream' = With(stream, Fresh, s)
    BY DEF AddTemplate
  <1>2. SessionInv /\ Unique(L, stream)
    BY DEF TableInv
  <1>3. Fresh \in Ids /\ Fresh \notin keys /\ Fresh \notin L /\ Fresh # Nil
    BY <1>1, <1>2, FreshInSession, NilIsNoId, Zenon
  <1>4. L \subseteq DOMAIN stream /\ \A id \in L : stream[id].keys \in keys
    BY <1>2, ContextFacts, Zenon
  <1>5. stream'[Fresh] = s /\ \A id \in L : stream'[id] = stream[id]
    BY <1>1, <1>3, <1>4 DEF With
  <1>6. s.direction = d /\ s.keys = Fresh
    BY DEF NewStream
  <1> HIDE DEF L, s
  <1>7. Unique(L, stream')
    BY <1>2, <1>5, Zenon DEF Unique
  <1>8. Steady(L, Fresh, stream')
    BY <1>3, <1>4, <1>5, <1>6, Zenon DEF Steady
  <1>9. TableInv'
    BY <1>1, <1>7, <1>8, Zenon DEF TableInv, L
  <1>10. Tb' = Tb
    <2>1. Represents(Tb, L, stream)
      BY TbRepresents DEF L
    <2>2. \A id \in L : /\ stream'[id].ssrc = stream[id].ssrc
                        /\ Entry(stream'[id]) = Entry(stream[id])
      BY <1>5
    <2>3. \A X, st, new, tb :
            Represents(tb, X, st)
            /\ (\A id \in X : /\ new[id].ssrc = st[id].ssrc
                              /\ Entry(new[id]) = Entry(st[id])) =>
              Represents(tb, X, new)
      BY RepresentsSame, Zenon
    <2>4. Represents(Tb, L, stream')
      BY <2>1, <2>2, <2>3, Zenon
    <2>5. \A tb : Represents(tb, Range(list'), stream') => Tb' = tb
      BY <1>9, TbNext, Zenon
    <2> QED BY <1>1, <2>4, <2>5, Zenon DEF L
  <1>11. TemplateDirection = "none" /\ TemplateDirection' = d
    BY <1>1, <1>3, <1>5, <1>6, SMTT(30) DEF TemplateDirection
  <1> QED BY <1>9, <1>10, <1>11

(* One context more, at the end of the list. *)
Appended(ssrc, c) ==
    /\ live /\ live' = live /\ template' = template
    /\ Available # {} /\ ~Listed(ssrc)
    /\ list' = Append(list, Fresh)
    /\ stream' = With(stream, Fresh, c)
    /\ c.ssrc = ssrc
    /\ template # Nil /\ c.keys = stream[template].keys =>
          c.direction = stream[template].direction

LEMMA AppendedTable ==
    ASSUME TableInv, SessionInv', NEW ssrc \in Ssrcs, NEW c, Appended(ssrc, c)
    PROVE  /\ TableInv'
           /\ Tb' = [s \in DOMAIN Tb \cup {ssrc} |->
                        IF s = ssrc THEN Entry(c) ELSE Tb[s]]
           /\ TemplateDirection' = TemplateDirection
  <1> DEFINE L == Range(list)
             M == L \cup {Fresh}
  <1>1. /\ live /\ live' = live /\ template' = template
        /\ Available # {} /\ ~Listed(ssrc)
        /\ list' = Append(list, Fresh)
        /\ stream' = With(stream, Fresh, c)
        /\ c.ssrc = ssrc
        /\ template # Nil /\ c.keys = stream[template].keys =>
              c.direction = stream[template].direction
    BY DEF Appended
  <1>2. SessionInv /\ Unique(L, stream) /\ Steady(L, template, stream)
    BY DEF TableInv
  <1>3. /\ Fresh \in Ids /\ Fresh \notin L
        /\ Fresh \notin Cells(L, template)
    BY <1>1, <1>2, FreshInSession, Zenon
  <1>4. /\ L \subseteq DOMAIN stream /\ Simple(list)
        /\ template # Nil => template \in DOMAIN stream /\ template # Fresh
    BY <1>2, <1>3, ContextFacts, Zenon
  <1>5. Range(list') = M
    <2>1. \A l : \A f \in Ids : Simple(l) /\ f \notin Range(l) =>
            Range(Append(l, f)) = Range(l) \cup {f}
      BY AppendSimple, Zenon
    <2> QED BY <1>1, <1>3, <1>4, <2>1, Zenon
  <1>6. \A id \in L : stream[id].ssrc # ssrc
    <2>1. list \in Seq(Ids)
      BY <1>4 DEF Simple
    <2>2. \A i \in DOMAIN list : stream[list[i]].ssrc # ssrc
      BY <1>1, <2>1, PositionFacts, SMTT(30)
    <2> QED BY <2>2, Zenon DEF Range
  <1> HIDE DEF L
  <1>7. /\ stream'[Fresh] = c
        /\ \A id \in L : stream'[id] = stream[id]
        /\ template # Nil => stream'[template] = stream[template]
    BY <1>1, <1>3, <1>4 DEF With
  <1>8. Unique(M, stream')
    <2>1. \A id \in M : stream'[id].ssrc \in Ssrcs
      BY <1>1, <1>2, <1>7, Zenon DEF Unique
    <2>2. ASSUME NEW id \in M, NEW other \in M,
                 stream'[id].ssrc = stream'[other].ssrc
          PROVE  id = other
      BY <1>1, <1>2, <1>6, <1>7, <2>2, ZenonT(60) DEF Unique
    <2> QED BY <2>1, <2>2, Zenon DEF Unique
  <1>9. Steady(M, template, stream')
    BY <1>1, <1>2, <1>7, Zenon DEF Steady
  <1>10. TableInv'
    BY <1>1, <1>5, <1>8, <1>9, Zenon DEF TableInv
  <1>11. Tb' = [s \in DOMAIN Tb \cup {ssrc} |->
                  IF s = ssrc THEN Entry(c) ELSE Tb[s]]
    <2>1. Represents(Tb, L, stream)
      BY TbRepresents DEF L
    <2>2. DOMAIN stream \cap L = L
      BY <1>4
    <2>3. \A X, st, tb, f, x :
            /\ Represents(tb, X, st) /\ f \notin X
            /\ \A id \in X : st[id].ssrc # x.ssrc
            /\ DOMAIN st \cap X = X
            => Represents([s \in DOMAIN tb \cup {x.ssrc} |->
                              IF s = x.ssrc THEN Entry(x) ELSE tb[s]],
                          X \cup {f}, With(st, f, x))
      BY RepresentsAdded, ZenonT(60)
    <2>4. Represents([s \in DOMAIN Tb \cup {c.ssrc} |->
                         IF s = c.ssrc THEN Entry(c) ELSE Tb[s]],
                     M, With(stream, Fresh, c))
      <3>1. \A id \in L : stream[id].ssrc # c.ssrc
        BY <1>1, <1>6, Zenon
      <3> QED BY <1>3, <2>1, <2>2, <2>3, <3>1, Zenon
    <2>5. \A tb : Represents(tb, Range(list'), stream') => Tb' = tb
      BY <1>10, TbNext, Zenon
    <2>6. Tb' = [s \in DOMAIN Tb \cup {c.ssrc} |->
                  IF s = c.ssrc THEN Entry(c) ELSE Tb[s]]
      BY <1>1, <1>5, <2>4, <2>5, Zenon
    <2> QED BY <1>1, <2>6, Zenon
  <1>12. TemplateDirection' = TemplateDirection
    BY <1>1, <1>7 DEF TemplateDirection
  <1> QED BY <1>10, <1>11, <1>12, SMTT(30)

(* The contexts of gone leave the list and are freed. *)
LEMMA LeftTable ==
    ASSUME TableInv, SessionInv', NEW gone \in SUBSET Range(list),
           Range(list') = Range(list) \ gone, stream' = Without(gone),
           template' = template, live, live' = live
    PROVE  /\ TableInv'
           /\ Tb' = [s \in DOMAIN Tb \ {stream[id].ssrc : id \in gone} |-> Tb[s]]
           /\ {stream[id].ssrc : id \in gone} \subseteq DOMAIN Tb
           /\ {stream[id].ssrc : id \in gone} \subseteq Ssrcs
           /\ TemplateDirection' = TemplateDirection
  <1> DEFINE L == Range(list)
             G == {stream[id].ssrc : id \in gone}
  <1>1. SessionInv /\ Unique(L, stream) /\ Steady(L, template, stream)
    BY DEF TableInv
  <1>2. /\ L \subseteq DOMAIN stream /\ template \notin L
        /\ template # Nil => template \in DOMAIN stream
    BY <1>1, ContextFacts, Zenon
  <1>3. /\ \A id \in L \ gone : stream'[id] = stream[id]
        /\ template # Nil => stream'[template] = stream[template]
    BY <1>2 DEF Without
  <1>4. Unique(L \ gone, stream')
    BY <1>1, <1>3, Zenon DEF Unique
  <1>5. Steady(L \ gone, template, stream')
    BY <1>1, <1>3, Zenon DEF Steady
  <1>6. TableInv'
    BY <1>4, <1>5, Zenon DEF TableInv
  <1>7. Represents(Tb, L, stream)
    BY TbRepresents
  <1>8. G \subseteq DOMAIN Tb /\ G \subseteq Ssrcs
    <2>1. DOMAIN Tb = {stream[id].ssrc : id \in L}
      BY <1>7 DEF Represents
    <2> QED BY <1>1, <2>1, Zenon DEF Unique
  <1>9. Tb' = [s \in DOMAIN Tb \ G |-> Tb[s]]
    <2> DEFINE less == [s \in DOMAIN Tb \ G |-> Tb[s]]
    <2>1. \A X, st, tb : \A g \in SUBSET X :
            Represents(tb, X, st) /\ Unique(X, st) =>
              Represents([s \in DOMAIN tb \ {st[id].ssrc : id \in g} |-> tb[s]],
                         X \ g, st)
      BY RepresentsLess, Zenon
    <2>2. Represents(less, L \ gone, stream)
      BY <1>1, <1>7, <2>1, Zenon
    <2>3. \A X, st, new, tb :
            Represents(tb, X, st)
            /\ (\A id \in X : /\ new[id].ssrc = st[id].ssrc
                              /\ Entry(new[id]) = Entry(st[id])) =>
              Represents(tb, X, new)
      BY RepresentsSame, Zenon
    <2>4. \A id \in L \ gone : /\ stream'[id].ssrc = stream[id].ssrc
                               /\ Entry(stream'[id]) = Entry(stream[id])
      BY <1>3
    <2> HIDE DEF less
    <2>5. Represents(less, L \ gone, stream')
      BY <2>2, <2>3, <2>4, Zenon
    <2>6. \A tb : Represents(tb, Range(list'), stream') => Tb' = tb
      BY <1>6, TbNext, Zenon
    <2>7. Tb' = less
      BY <2>5, <2>6, Zenon
    <2> QED BY <2>7 DEF less
  <1>10. TemplateDirection' = TemplateDirection
    BY <1>3 DEF TemplateDirection
  <1> QED BY <1>6, <1>8, <1>9, <1>10, SMTT(30)

(* A packet of a stream in the list; an unprotect that is refused changes
   nothing. *)
Used(call, ssrc, d, recorded) ==
    /\ ssrc \in DOMAIN Tb
    /\ Tb[ssrc].direction \in {"unknown", d}
    /\ Tb[ssrc].index + recorded <= MaxIndex
    /\ call = "protect" \/ recorded = 1 =>
          Tb' = [s \in DOMAIN Tb \cup {ssrc} |->
                   IF s = ssrc
                   THEN [direction |-> d, index |-> Tb[ssrc].index + recorded]
                   ELSE Tb[s]]
    /\ ~(call = "protect" \/ recorded = 1) => Tb' = Tb

LEMMA UsedTable ==
    ASSUME TableInv, SessionInv', NEW call, NEW ssrc \in Ssrcs,
           NEW d \in {"sender", "receiver"}, NEW recorded \in {0, 1},
           UseStream(call, ssrc, d, recorded)
    PROVE  /\ TableInv' /\ TemplateDirection' = TemplateDirection
           /\ Used(call, ssrc, d, recorded)
  <1> DEFINE L == Range(list)
             id == GetStream(ssrc)
             dir == IF call = "protect" \/ recorded = 1
                    THEN d ELSE stream[id].direction
             idx == stream[id].index + recorded
  <1>1. /\ live /\ live' = live /\ Listed(ssrc) /\ idx <= MaxIndex
        /\ stream[id].direction \in {"unknown", d}
        /\ list' = list /\ template' = template
        /\ stream' = [stream EXCEPT
                         ![id].direction = IF call = "protect" \/ recorded = 1
                                           THEN d ELSE @,
                         ![id].index = @ + recorded]
    BY DEF UseStream
  <1>2. SessionInv /\ Unique(L, stream) /\ Steady(L, template, stream)
    BY DEF TableInv
  <1>3. /\ L \subseteq DOMAIN stream /\ Simple(list) /\ template \notin L
        /\ template # Nil => template \in DOMAIN stream
        /\ \A x \in DOMAIN stream : stream[x] \in StreamType
    BY <1>2, ContextFacts, Zenon
  <1>4. id \in L /\ stream[id].ssrc = ssrc
    BY <1>1, <1>3, PositionFacts DEF Simple
  <1>5. stream[id] \in StreamType
    BY <1>3, <1>4, Zenon
  <1>6. Represents(Tb, L, stream)
    BY TbRepresents
  <1>7. ssrc \in DOMAIN Tb /\ Tb[ssrc] = Entry(stream[id])
    BY <1>4, <1>6, SMTT(30) DEF Represents
  <1>8. Tb[ssrc].direction = stream[id].direction /\ Tb[ssrc].index = stream[id].index
    BY <1>7 DEF Entry
  <1> HIDE DEF id, L
  <1>9. stream' = [stream EXCEPT ![id] = [@ EXCEPT !.direction = dir, !.index = idx]]
    BY <1>1, <1>3, <1>4, <1>5, Zenon DEF StreamType
  <1>10. /\ call = "protect" \/ recorded = 1 => dir = d
         /\ ~(call = "protect" \/ recorded = 1) =>
               dir = stream[id].direction /\ recorded = 0
    OBVIOUS
  <1>11. recorded = 0 => idx = stream[id].index
    BY <1>5 DEF StreamType
  <1> HIDE DEF dir, idx
  <1>12. /\ stream'[id] = [stream[id] EXCEPT !.direction = dir, !.index = idx]
         /\ \A x \in DOMAIN stream : x # id => stream'[x] = stream[x]
    BY <1>3, <1>4, <1>9, Zenon
  <1>13. /\ stream'[id].direction = dir /\ stream'[id].index = idx
         /\ stream'[id].ssrc = stream[id].ssrc /\ stream'[id].keys = stream[id].keys
    BY <1>5, <1>12 DEF StreamType
  <1>14. /\ \A x \in L : /\ stream'[x].ssrc = stream[x].ssrc
                         /\ stream'[x].keys = stream[x].keys
         /\ \A x \in L \ {id} : stream'[x] = stream[x]
         /\ template # Nil => stream'[template] = stream[template]
    BY <1>3, <1>4, <1>12, <1>13, Zenon
  <1>15. Unique(L, stream')
    <2>1. \A x \in L : stream'[x].ssrc = stream[x].ssrc
      BY <1>14, Zenon
    <2> QED BY <1>2, <2>1, Zenon DEF Unique
  <1>16. Steady(L, template, stream')
    <2> SUFFICES ASSUME template # Nil
                 PROVE  /\ stream'[template].direction \in {"sender", "receiver"}
                        /\ \A x \in L : stream'[x].keys = stream'[template].keys =>
                              stream'[x].direction = stream'[template].direction
      BY DEF Steady
    <2>1. stream'[template] = stream[template]
      BY <1>14
    <2>2. /\ stream[template].direction \in {"sender", "receiver"}
          /\ \A x \in L : stream[x].keys = stream[template].keys =>
                stream[x].direction = stream[template].direction
      BY <1>2 DEF Steady
    <2>3. stream[id].keys = stream[template].keys => dir = stream[template].direction
      BY <1>1, <1>4, <1>10, <2>2, SMTT(30)
    <2>4. ASSUME NEW x \in L, stream'[x].keys = stream[template].keys
          PROVE  stream'[x].direction = stream[template].direction
      <3>1. stream[x].keys = stream[template].keys
        BY <1>14, <2>4, Zenon
      <3>2. CASE x = id
        BY <1>13, <2>3, <3>1, <3>2, SMTT(30)
      <3>3. CASE x # id
        BY <1>14, <2>2, <3>1, <3>3, SMTT(30)
      <3> QED BY <3>2, <3>3
    <2> QED BY <2>1, <2>2, <2>4, Zenon
  <1>17. TableInv'
    BY <1>1, <1>15, <1>16, Zenon DEF TableInv, L
  <1>18. Tb' = [s \in DOMAIN Tb \cup {ssrc} |->
                  IF s = ssrc THEN Entry(stream'[id]) ELSE Tb[s]]
    <2> DEFINE big == [s \in DOMAIN Tb \cup {stream[id].ssrc} |->
                          IF s = stream[id].ssrc THEN Entry(stream'[id]) ELSE Tb[s]]
    <2>1. \A X, st, new, tb : \A i \in X :
            (/\ Represents(tb, X, st)
             /\ Unique(X, st)
             /\ \A x \in X : new[x].ssrc = st[x].ssrc
             /\ \A x \in X \ {i} : Entry(new[x]) = Entry(st[x]))
            => Represents([s \in DOMAIN tb \cup {st[i].ssrc} |->
                              IF s = st[i].ssrc THEN Entry(new[i]) ELSE tb[s]],
                          X, new)
      <3> SUFFICES ASSUME NEW X, NEW st, NEW new, NEW tb, NEW i \in X,
                          Represents(tb, X, st), Unique(X, st),
                          \A x \in X : new[x].ssrc = st[x].ssrc,
                          \A x \in X \ {i} : Entry(new[x]) = Entry(st[x])
                   PROVE  Represents([s \in DOMAIN tb \cup {st[i].ssrc} |->
                              IF s = st[i].ssrc THEN Entry(new[i]) ELSE tb[s]],
                              X, new)
        OBVIOUS
      <3> QED BY RepresentsUsed, SMTT(30)
    <2>2. \A x \in L \ {id} : Entry(stream'[x]) = Entry(stream[x])
      BY <1>14, Zenon
    <2>3. \A x \in L : stream'[x].ssrc = stream[x].ssrc
      BY <1>14, Zenon
    <2>4. Represents(big, L, stream')
      BY <1>2, <1>4, <1>6, <2>1, <2>2, <2>3, ZenonT(60)
    <2>5. \A tb : Represents(tb, Range(list'), stream') => Tb' = tb
      BY <1>17, TbNext, Zenon
    <2> HIDE DEF big
    <2>6. Tb' = big
      BY <1>1, <2>4, <2>5, Zenon DEF L
    <2> QED BY <1>4, <2>6, Zenon DEF big
  <1>19. Entry(stream'[id]) = [direction |-> dir, index |-> idx]
    BY <1>13, Zenon DEF Entry
  <1>20. dir = d => Tb' = [s \in DOMAIN Tb \cup {ssrc} |->
                     IF s = ssrc
                     THEN [direction |-> d, index |-> Tb[ssrc].index + recorded]
                     ELSE Tb[s]]
    <2>1. idx = Tb[ssrc].index + recorded
      BY <1>8 DEF idx
    <2> QED BY <1>18, <1>19, <2>1, Zenon
  <1>21. ~(call = "protect" \/ recorded = 1) => Tb' = Tb
    <2> SUFFICES ASSUME ~(call = "protect" \/ recorded = 1) PROVE Tb' = Tb
      OBVIOUS
    <2>1. Entry(stream'[id]) = Entry(stream[id])
      BY <1>10, <1>11, <1>19, SMTT(30) DEF Entry
    <2>2. \A x \in L : /\ stream'[x].ssrc = stream[x].ssrc
                       /\ Entry(stream'[x]) = Entry(stream[x])
      BY <1>14, <2>1, Zenon
    <2>3. \A X, st, new, tb :
            Represents(tb, X, st)
            /\ (\A x \in X : /\ new[x].ssrc = st[x].ssrc
                             /\ Entry(new[x]) = Entry(st[x])) =>
              Represents(tb, X, new)
      BY RepresentsSame, Zenon
    <2>4. Represents(Tb, L, stream')
      BY <1>6, <2>2, <2>3, Zenon
    <2>5. \A tb : Represents(tb, Range(list'), stream') => Tb' = tb
      BY <1>17, TbNext, Zenon
    <2> QED BY <1>1, <2>4, <2>5, Zenon DEF L
  <1>22. TemplateDirection' = TemplateDirection
    <2>1. template # Nil => stream'[template] = stream[template]
      BY <1>14, Zenon
    <2>2. template' = template
      BY <1>1
    <2> QED BY <2>1, <2>2 DEF TemplateDirection
  <1>23. Tb[ssrc].direction \in {"unknown", d} /\ Tb[ssrc].index + recorded <= MaxIndex
    BY <1>1, <1>8 DEF idx
  <1> QED BY <1>7, <1>10, <1>17, <1>20, <1>21, <1>22, <1>23, ZenonT(60) DEF Used

(* stream_update finds the stream it has just added, for it is the only one
   with the SSRC, and gives it the index and direction of the old one. *)
LEMMA UpdatedTable ==
    ASSUME TableInv, SessionInv', NEW ssrc \in Ssrcs, UpdateStream(ssrc)
    PROVE  TableInv' /\ Tb' = Tb /\ TemplateDirection' = TemplateDirection
  <1> DEFINE L == Range(list)
             old == GetStream(ssrc)
             rest == Removed(list, Position(ssrc))
             entries == Append(rest, Fresh)
             new == NewStream(ssrc, "unknown")
             contexts == With(Without({old}), Fresh, new)
             found == Find(entries, contexts, ssrc)
             M == (L \ {old}) \cup {Fresh}
  <1>1. /\ live /\ live' = live /\ Listed(ssrc) /\ Available # {}
        /\ template' = template /\ list' = entries
        /\ stream' = [contexts EXCEPT
                         ![entries[found]].index = stream[old].index,
                         ![entries[found]].direction = stream[old].direction]
    BY Zenon DEF UpdateStream
  <1>2. SessionInv /\ Unique(L, stream) /\ Steady(L, template, stream)
    BY DEF TableInv
  <1>3. /\ L \subseteq DOMAIN stream /\ Simple(list) /\ template \notin L
        /\ template # Nil => template \in DOMAIN stream
        /\ \A x \in DOMAIN stream : stream[x] \in StreamType
        /\ \A x \in DOMAIN stream : stream[x].keys \in keys
    BY <1>2, ContextFacts, Zenon
  <1>4. /\ Fresh \in Ids /\ Fresh \notin keys /\ Fresh \notin L
        /\ template # Nil => template # Fresh
    BY <1>1, <1>2, FreshInSession, Zenon DEF Cells
  <1>5. old \in L /\ Simple(rest) /\ Range(rest) = L \ {old}
    BY <1>1, <1>2, RemovalKeeps, Zenon
  <1>6. stream[old].ssrc = ssrc
    BY <1>1, <1>3, PositionFacts, Zenon DEF Simple
  <1>7. /\ new.ssrc = ssrc /\ new.keys = Fresh
        /\ new = [ssrc |-> ssrc, direction |-> "unknown", index |-> 0, keys |-> Fresh]
    BY SMTT(30) DEF NewStream
  <1> HIDE DEF L, old, rest, new
  <1>8. /\ Fresh \in DOMAIN contexts /\ contexts[Fresh] = new
        /\ \A x \in L \ {old} : x \in DOMAIN contexts /\ contexts[x] = stream[x]
        /\ template # Nil => /\ template \in DOMAIN contexts
                             /\ contexts[template] = stream[template]
    BY <1>3, <1>4, <1>5 DEF With, Without
  <1>9. Simple(entries) /\ Range(entries) = M
    <2>1. \A l : \A f \in Ids : Simple(l) /\ f \notin Range(l) =>
            Simple(Append(l, f)) /\ Range(Append(l, f)) = Range(l) \cup {f}
      BY AppendSimple, Zenon
    <2> QED BY <1>4, <1>5, <2>1, Zenon
  <1> HIDE DEF contexts, entries
  <1>10. \A x \in L \ {old} : stream[x].ssrc # ssrc
    BY <1>2, <1>5, <1>6, Zenon DEF Unique
  <1>11. Unique(M, contexts)
    <2>1. \A x \in M : contexts[x].ssrc \in Ssrcs
      BY <1>2, <1>7, <1>8, Zenon DEF Unique
    <2>2. ASSUME NEW x \in M, NEW other \in M, contexts[x].ssrc = contexts[other].ssrc
          PROVE  x = other
      BY <1>2, <1>7, <1>8, <1>10, <2>2, ZenonT(60) DEF Unique
    <2> QED BY <2>1, <2>2, Zenon DEF Unique
  <1>12. entries[found] = Fresh
    <2>1. \A l, st : \A x \in Range(l) :
            l \in Seq(Ids) /\ Unique(Range(l), st) =>
              l[Find(l, st, st[x].ssrc)] = x
      BY FindsContext, ZenonT(60)
    <2>2. Fresh \in Range(entries) /\ entries \in Seq(Ids)
          /\ Unique(Range(entries), contexts) /\ contexts[Fresh].ssrc = ssrc
      BY <1>7, <1>8, <1>9, <1>11, Zenon DEF Simple
    <2>3. entries[Find(entries, contexts, contexts[Fresh].ssrc)] = Fresh
      BY <2>1, <2>2, Zenon
    <2> QED BY <2>2, <2>3, Zenon
  <1>13. stream' = [contexts EXCEPT ![Fresh].index = stream[old].index,
                                    ![Fresh].direction = stream[old].direction]
    BY <1>1, <1>12, Zenon
  <1>14. /\ stream'[Fresh] = [new EXCEPT !.index = stream[old].index,
                                         !.direction = stream[old].direction]
         /\ \A x \in DOMAIN contexts : x # Fresh => stream'[x] = contexts[x]
    BY <1>8, <1>13
  <1>15. /\ stream'[Fresh].ssrc = ssrc /\ stream'[Fresh].keys = Fresh
         /\ stream'[Fresh].direction = stream[old].direction
         /\ stream'[Fresh].index = stream[old].index
    BY <1>7, <1>14
  <1>16. /\ \A x \in L \ {old} : stream'[x] = stream[x]
         /\ template # Nil => stream'[template] = stream[template]
    BY <1>4, <1>8, <1>14, Zenon
  <1>17. Unique(M, stream')
    <2>1. \A x \in M : stream'[x].ssrc = contexts[x].ssrc
      BY <1>7, <1>8, <1>15, <1>16, ZenonT(60)
    <2> QED BY <1>11, <2>1, Zenon DEF Unique
  <1>18. Steady(M, template, stream')
    <2>1. template # Nil => stream[template].keys # Fresh
      BY <1>3, <1>4, Zenon
    <2> QED BY <1>2, <1>15, <1>16, <2>1, ZenonT(60) DEF Steady
  <1>19. TableInv'
    BY <1>1, <1>9, <1>17, <1>18, Zenon DEF TableInv
  <1>20. Tb' = Tb
    <2>1. Represents(Tb, L, stream)
      BY TbRepresents DEF L
    <2>2. Entry(stream'[Fresh]) = Entry(stream[old])
      BY <1>15 DEF Entry
    <2>3. stream'[Fresh].ssrc = stream[old].ssrc
      BY <1>6, <1>15
    <2>4. \A x \in L \ {old} : /\ stream'[x].ssrc = stream[x].ssrc
                               /\ Entry(stream'[x]) = Entry(stream[x])
      BY <1>16
    <2>5. Represents(Tb, M, stream')
      <3>1. \A X, st, nw, tb, f : \A o \in X :
              /\ Represents(tb, X, st)
              /\ nw[f].ssrc = st[o].ssrc /\ Entry(nw[f]) = Entry(st[o])
              /\ \A x \in X \ {o} : /\ nw[x].ssrc = st[x].ssrc
                                    /\ Entry(nw[x]) = Entry(st[x])
              => Represents(tb, (X \ {o}) \cup {f}, nw)
        BY RepresentsReplaced
      <3> QED BY <1>5, <2>1, <2>2, <2>3, <2>4, <3>1, ZenonT(60)
    <2>6. \A tb : Represents(tb, Range(list'), stream') => Tb' = tb
      BY <1>19, TbNext, Zenon
    <2> QED BY <1>1, <1>9, <2>5, <2>6, Zenon
  <1>21. TemplateDirection' = TemplateDirection
    <2>1. template' = template
      BY <1>1
    <2> QED BY <1>16, <2>1, SMTT(30) DEF TemplateDirection
  <1> QED BY <1>19, <1>20, <1>21, SMTT(30)

(* The clones of the new template have the direction of the old one, which was
   theirs before. *)
LEMMA RetemplatedTable ==
    ASSUME TableInv, SessionInv', UpdateTemplate
    PROVE  TableInv' /\ Tb' = Tb /\ TemplateDirection' = TemplateDirection
  <1> DEFINE L == Range(list)
             f == Fresh
             t == template
             d == stream[t].direction
  <1>1. /\ live /\ live' = live /\ t # Nil /\ Available # {}
        /\ template' = f /\ list' = list
        /\ stream' = [id \in (DOMAIN stream \ {t}) \cup {f} |->
                        IF id = f
                        THEN NewStream(Nil, d)
                        ELSE IF stream[id].keys = stream[t].keys
                        THEN [stream[id] EXCEPT !.keys = f, !.direction = d]
                        ELSE stream[id]]
    BY Zenon DEF UpdateTemplate, IsClone
  <1>2. SessionInv /\ Unique(L, stream) /\ Steady(L, t, stream)
    BY DEF TableInv
  <1>3. /\ L \subseteq DOMAIN stream /\ t \notin L
        /\ \A x \in DOMAIN stream : stream[x] \in StreamType
        /\ \A x \in DOMAIN stream : stream[x].keys \in keys
    BY <1>2, ContextFacts, Zenon
  <1>4. f \in Ids /\ f \notin keys /\ f \notin L /\ f # Nil
    BY <1>1, <1>2, FreshInSession, NilIsNoId, Zenon
  <1>5. NewStream(Nil, d).direction = d /\ NewStream(Nil, d).keys = f
    BY DEF NewStream
  <1>6. /\ d \in {"sender", "receiver"}
        /\ \A x \in L : stream[x].keys = stream[t].keys => stream[x].direction = d
    BY <1>1, <1>2, Zenon DEF Steady
  <1> HIDE DEF L, f, t, d
  <1>7. stream'[f].direction = d /\ stream'[f].keys = f
    BY <1>1, <1>5, Zenon
  <1>8. ASSUME NEW x \in L
        PROVE  /\ stream'[x].ssrc = stream[x].ssrc
               /\ stream'[x].direction = stream[x].direction
               /\ stream'[x].index = stream[x].index
               /\ stream'[x].keys = f => stream'[x].direction = d
    <2>1. stream[x] \in StreamType /\ stream[x].keys \in keys
          /\ x # f /\ x # t /\ x \in DOMAIN stream
      BY <1>3, <1>4, Zenon
    <2>2. stream'[x] = IF stream[x].keys = stream[t].keys
                       THEN [stream[x] EXCEPT !.keys = f, !.direction = d]
                       ELSE stream[x]
      BY <1>1, <2>1, Zenon
    <2>3. CASE stream[x].keys = stream[t].keys
      <3>1. stream[x].direction = d
        BY <1>6, <2>3
      <3>2. stream'[x] = [stream[x] EXCEPT !.keys = f, !.direction = d]
        BY <2>2, <2>3
      <3> QED BY <2>1, <3>1, <3>2, SMTT(30) DEF StreamType
    <2>4. CASE stream[x].keys # stream[t].keys
      BY <1>4, <2>1, <2>2, <2>4, SMTT(30)
    <2> QED BY <2>3, <2>4
  <1>9. Unique(L, stream')
    <2>1. \A x \in L : stream'[x].ssrc = stream[x].ssrc
      BY <1>8
    <2> QED BY <1>2, <2>1, Zenon DEF Unique
  <1>10. Steady(L, f, stream')
    BY <1>6, <1>7, <1>8, Zenon DEF Steady
  <1>11. TableInv'
    BY <1>1, <1>9, <1>10, Zenon DEF TableInv, L
  <1>12. Tb' = Tb
    <2>1. Represents(Tb, L, stream)
      BY TbRepresents, SMTT(30) DEF L
    <2>2. \A x \in L : /\ stream'[x].ssrc = stream[x].ssrc
                       /\ Entry(stream'[x]) = Entry(stream[x])
      BY <1>8 DEF Entry
    <2>3. \A X, st, new, tb :
            Represents(tb, X, st)
            /\ (\A x \in X : /\ new[x].ssrc = st[x].ssrc
                             /\ Entry(new[x]) = Entry(st[x])) =>
              Represents(tb, X, new)
      BY RepresentsSame, Zenon
    <2>4. Represents(Tb, L, stream')
      BY <2>1, <2>2, <2>3, Zenon
    <2>5. \A tb : Represents(tb, Range(list'), stream') => Tb' = tb
      BY <1>11, TbNext, Zenon
    <2> QED BY <1>1, <2>4, <2>5, Zenon DEF L
  <1>13. TemplateDirection = d
    BY <1>1, Zenon DEF TemplateDirection, d, t
  <1>14. TemplateDirection' = d
    BY <1>1, <1>4, <1>7, ZenonT(60) DEF TemplateDirection
  <1> QED BY <1>11, <1>12, <1>13, <1>14, SMTT(30)

-----------------------------------------------------------------------------
(* Every step of the session is one of the table *)

Same == UNCHANGED <<live, TemplateDirection, Tb>>

(* The table the session is mapped to. *)
Table == [ssrc \in {s \in Ssrcs : Listed(s)} |-> View(ssrc)]

LEMMA TableIsTb == Table = Tb
  BY TbFacts DEF Table

LEMMA TableIsTbNext == Table' = Tb'
  <1>1. (Table = Tb)'
    BY TableIsTb, PTL
  <1> QED BY <1>1

(* The steps of SessionAbs that leave the table Tb alone. *)
LEMMA AbsQuietSteps ==
    ASSUME Same
    PROVE  /\ last' = last => UNCHANGED Abs!vars
           /\ last'.status # "ok" => Abs!Refuse
           /\ live /\ last'.call \in {"update", "update_template"}
              /\ last'.status = "ok" => Abs!Rekey
  <1>1. UNCHANGED <<live, TemplateDirection, Table>>
    BY TableIsTb, TableIsTbNext DEF Same
  <1>2. last' = last => UNCHANGED Abs!vars
    BY <1>1 DEF Abs!vars, Table
  <1>3. last'.status # "ok" => Abs!Refuse
    BY <1>1 DEF Abs!Refuse, Table
  <1>4. live /\ last'.call \in {"update", "update_template"}
        /\ last'.status = "ok" => Abs!Rekey
    BY <1>1, SMTT(30) DEF Abs!Rekey, Abs!Returns, Table
  <1> QED BY <1>2, <1>3, <1>4

(* The steps for the session. *)
LEMMA AbsSteps ==
    /\ ~live /\ live' = TRUE /\ UNCHANGED <<TemplateDirection, Tb>>
       /\ last' = Outcome("create", Nil, "ok") => Abs!Open
    /\ live /\ live' = FALSE /\ TemplateDirection' = "none" /\ Tb' = <<>>
       /\ last' = Outcome("dealloc", Nil, "ok") => Abs!Close
    /\ \A d : live /\ TemplateDirection = "none" /\ TemplateDirection' = d
              /\ UNCHANGED <<live, Tb>> /\ last' = Outcome("add", Nil, "ok")
              => Abs!SetTemplate(d)
    /\ \A gone : live /\ TemplateDirection # "none" /\ gone \subseteq DOMAIN Tb
                 /\ Tb' = [s \in DOMAIN Tb \ gone |-> Tb[s]]
                 /\ UNCHANGED <<live, TemplateDirection>>
                 /\ last' = Outcome("update_template", Nil, "alloc_fail")
                 => Abs!Lose(gone)
  <1>1. Table = Tb /\ Table' = Tb'
    BY TableIsTb, TableIsTbNext
  <1>2. \A call, status : last' = Outcome(call, Nil, status) => Abs!Returns(call, status)
    BY DEF Outcome, Abs!Returns
  <1>3. ~live /\ live' = TRUE /\ UNCHANGED <<TemplateDirection, Table>>
        /\ last' = Outcome("create", Nil, "ok") => Abs!Open
    BY <1>2 DEF Abs!Open, Table
  <1>4. live /\ live' = FALSE /\ TemplateDirection' = "none" /\ Table' = <<>>
        /\ last' = Outcome("dealloc", Nil, "ok") => Abs!Close
    BY <1>2 DEF Abs!Close, Table
  <1>5. ASSUME NEW d
        PROVE  live /\ TemplateDirection = "none" /\ TemplateDirection' = d
               /\ UNCHANGED <<live, Table>> /\ last' = Outcome("add", Nil, "ok")
               => Abs!SetTemplate(d)
    BY <1>2 DEF Abs!SetTemplate, Table
  <1>6. ASSUME NEW gone
        PROVE  live /\ TemplateDirection # "none" /\ gone \subseteq DOMAIN Table
               /\ Table' = [s \in DOMAIN Table \ gone |-> Table[s]]
               /\ UNCHANGED <<live, TemplateDirection>>
               /\ last' = Outcome("update_template", Nil, "alloc_fail")
               => Abs!Lose(gone)
    BY <1>2, SMTT(30) DEF Abs!Lose, Abs!Without, Table
  <1> QED BY <1>1, <1>3, <1>4, <1>5, <1>6, SMTT(30)

(* The steps for one stream. *)
LEMMA AbsStreamSteps ==
    ASSUME NEW ssrc, live, UNCHANGED <<live, TemplateDirection>>
    PROVE  /\ /\ ssrc \notin DOMAIN Tb
              /\ last' = Outcome("add", ssrc, "ok")
              /\ Tb' = [s \in DOMAIN Tb \cup {ssrc} |->
                          IF s = ssrc THEN [direction |-> "unknown", index |-> 0]
                          ELSE Tb[s]]
              => Abs!Join(ssrc)
           /\ /\ ssrc \in DOMAIN Tb
              /\ last' \in {Outcome("remove", ssrc, "ok"),
                            Outcome("update", ssrc, "alloc_fail")}
              /\ Tb' = [s \in DOMAIN Tb \ {ssrc} |-> Tb[s]]
              => Abs!Leave(ssrc)
  <1>1. Table = Tb /\ Table' = Tb'
    BY TableIsTb, TableIsTbNext
  <1>2. \A call, status :
          last' = Outcome(call, ssrc, status) => Abs!ReturnsFor(call, ssrc, status)
    BY DEF Outcome, Abs!ReturnsFor
  <1>3. /\ ssrc \notin DOMAIN Table
        /\ last' = Outcome("add", ssrc, "ok")
        /\ Table' = [s \in DOMAIN Table \cup {ssrc} |->
                    IF s = ssrc THEN [direction |-> "unknown", index |-> 0]
                    ELSE Table[s]]
        => Abs!Join(ssrc)
    BY <1>2 DEF Abs!Join, Abs!With, Table
  <1>4. /\ ssrc \in DOMAIN Table
        /\ last' \in {Outcome("remove", ssrc, "ok"),
                      Outcome("update", ssrc, "alloc_fail")}
        /\ Table' = [s \in DOMAIN Table \ {ssrc} |-> Table[s]]
        => Abs!Leave(ssrc)
    BY <1>2, SMTT(30) DEF Abs!Leave, Abs!Without, Table
  <1> QED BY <1>1, <1>3, <1>4, SMTT(30)

(* A packet that is handled, or that cannot be protected. *)
Report(call, ssrc, n) ==
    /\ n = 1 \/ call = "protect"
    /\ last' = Outcome(call, ssrc, IF n = 1 THEN "ok" ELSE "fail")

LEMMA AbsPacketSteps ==
    ASSUME NEW ssrc, live, UNCHANGED <<live, TemplateDirection>>,
           NEW call, NEW d, NEW n, d = Abs!SideOf(call), Report(call, ssrc, n)
    PROVE  /\ /\ ssrc \notin DOMAIN Tb
              /\ TemplateDirection = d
              /\ Tb' = [s \in DOMAIN Tb \cup {ssrc} |->
                          IF s = ssrc THEN [direction |-> d, index |-> n]
                          ELSE Tb[s]]
              => Abs!Appear(call, ssrc, n)
           /\ /\ ssrc \in DOMAIN Tb
              /\ Tb[ssrc].direction \in {"unknown", d}
              /\ Tb[ssrc].index + n <= MaxIndex
              /\ Tb' = [s \in DOMAIN Tb \cup {ssrc} |->
                          IF s = ssrc
                          THEN [direction |-> d, index |-> Tb[ssrc].index + n]
                          ELSE Tb[s]]
              => Abs!Packet(call, ssrc, n)
  <1>1. Table = Tb /\ Table' = Tb'
    BY TableIsTb, TableIsTbNext
  <1>2. Abs!Handled(call, ssrc, n)
    BY DEF Report, Outcome, Abs!Handled, Abs!ReturnsFor
  <1>3. /\ ssrc \notin DOMAIN Table
        /\ TemplateDirection = d
        /\ Table' = [s \in DOMAIN Table \cup {ssrc} |->
                       IF s = ssrc THEN [direction |-> d, index |-> n]
                       ELSE Table[s]]
        => Abs!Appear(call, ssrc, n)
    BY <1>2, SMTT(30) DEF Abs!Appear, Abs!With, Table
  <1>4. /\ ssrc \in DOMAIN Table
        /\ Table[ssrc].direction \in {"unknown", d}
        /\ Table[ssrc].index + n <= MaxIndex
        /\ Table' = [s \in DOMAIN Table \cup {ssrc} |->
                       IF s = ssrc
                       THEN [direction |-> d, index |-> Table[ssrc].index + n]
                       ELSE Table[s]]
        => Abs!Packet(call, ssrc, n)
    BY <1>2, SMTT(30) DEF Abs!Packet, Abs!With, Table
  <1> QED BY <1>1, <1>3, <1>4, SMTT(30)

Moves == Abs!Next \/ UNCHANGED Abs!vars

LEMMA RefusedMoves ==
    ASSUME TableInv, SessionInv', UNCHANGED <<live, list, template, stream>>,
           last'.status # "ok" \/ last' = last
    PROVE  TableInv' /\ Moves
  <1>1. TableInv' /\ Tb' = Tb /\ TemplateDirection' = TemplateDirection
    BY QuietTable
  <1>2. Abs!Refuse \/ UNCHANGED Abs!vars
    BY <1>1, AbsQuietSteps, SMTT(30) DEF Same
  <1> QED BY <1>1, <1>2, Zenon DEF Moves, Abs!Next

LEMMA AddStreamMoves ==
    ASSUME ~AddDuplicates, TableInv, SessionInv', NEW ssrc \in Ssrcs, AddStream(ssrc)
    PROVE  TableInv' /\ Moves
  <1> DEFINE c == NewStream(ssrc, "unknown")
  <1>1. /\ live /\ live' = live /\ ~Listed(ssrc) /\ Available # {}
        /\ template' = template /\ list' = Append(list, Fresh)
        /\ stream' = With(stream, Fresh, c)
        /\ last' = Outcome("add", ssrc, "ok")
    BY DEF AddStream
  <1>2. c.ssrc = ssrc /\ c.keys = Fresh /\ Entry(c) = [direction |-> "unknown", index |-> 0]
    BY DEF NewStream, Entry
  <1>3. template # Nil => stream[template].keys # Fresh
    <2>1. SessionInv
      BY DEF TableInv
    <2> QED BY <1>1, <2>1, ContextFacts, FreshInSession, Zenon
  <1> HIDE DEF c
  <1>4. Appended(ssrc, c)
    BY <1>1, <1>2, <1>3, Zenon DEF Appended
  <1>5. \A x : Appended(ssrc, x) =>
          /\ TableInv'
          /\ Tb' = [s \in DOMAIN Tb \cup {ssrc} |->
                      IF s = ssrc THEN Entry(x) ELSE Tb[s]]
          /\ TemplateDirection' = TemplateDirection
    BY AppendedTable, Zenon
  <1>6. /\ TableInv'
        /\ Tb' = [s \in DOMAIN Tb \cup {ssrc} |->
                    IF s = ssrc THEN Entry(c) ELSE Tb[s]]
        /\ TemplateDirection' = TemplateDirection
    BY <1>4, <1>5, Zenon
  <1>7. ssrc \notin DOMAIN Tb
    BY <1>1, TbFacts, SMTT(30)
  <1>8. Abs!Join(ssrc)
    BY <1>1, <1>2, <1>6, <1>7, AbsStreamSteps, SMTT(30)
  <1> QED BY <1>6, <1>8, Zenon DEF Moves, Abs!Next

(* srtp_stream_remove, and an update whose new stream cannot be had. *)
LEMMA RemovalMoves ==
    ASSUME TableInv, SessionInv', NEW ssrc \in Ssrcs,
           RemoveStream(ssrc) \/ UpdateStreamFails(ssrc)
    PROVE  TableInv' /\ Moves
  <1> DEFINE id == GetStream(ssrc)
             rest == Removed(list, Position(ssrc))
  <1>1. /\ live /\ live' = live /\ Listed(ssrc) /\ template' = template
        /\ list' = rest /\ stream' = Without({id})
    BY DEF RemoveStream, UpdateStreamFails
  <1>2. id \in Range(list) /\ Range(rest) = Range(list) \ {id}
    BY <1>1, RemovalKeeps, Zenon DEF TableInv
  <1>3. stream[id].ssrc = ssrc
    <2>1. list \in Seq(Ids)
      BY DEF TableInv, SessionInv, Simple
    <2> QED BY <1>1, <2>1, PositionFacts, Zenon
  <1>4. last' \in {Outcome("remove", ssrc, "ok"), Outcome("update", ssrc, "alloc_fail")}
    BY Zenon DEF RemoveStream, UpdateStreamFails
  <1> HIDE DEF id, rest
  <1>5. {id} \in SUBSET Range(list) /\ Range(list') = Range(list) \ {id}
    BY <1>1, <1>2, SMTT(30)
  <1>6. /\ TableInv'
        /\ Tb' = [s \in DOMAIN Tb \ {stream[x].ssrc : x \in {id}} |-> Tb[s]]
        /\ {stream[x].ssrc : x \in {id}} \subseteq DOMAIN Tb
        /\ TemplateDirection' = TemplateDirection
    BY <1>1, <1>5, LeftTable, Zenon
  <1>7. {stream[x].ssrc : x \in {id}} = {ssrc}
    BY <1>3
  <1>8. Tb' = [s \in DOMAIN Tb \ {ssrc} |-> Tb[s]] /\ ssrc \in DOMAIN Tb
    BY <1>6, <1>7, SMTT(30)
  <1>9. Abs!Leave(ssrc)
    BY <1>1, <1>4, <1>6, <1>8, AbsStreamSteps, SMTT(30)
  <1> QED BY <1>6, <1>9, Zenon DEF Moves, Abs!Next

LEMMA StopsMoves ==
    ASSUME TableInv, SessionInv', NEW n, UpdateTemplateStops(n)
    PROVE  TableInv' /\ Moves
  <1> DEFINE gone == {list[i] : i \in 1 .. n}
             rest == SubSeq(list, n + 1, Len(list))
             G == {stream[id].ssrc : id \in gone}
  <1>1. /\ live /\ live' = live /\ n \in DOMAIN list /\ template' = template
        /\ list' = rest /\ stream' = Without(gone) /\ template # Nil
        /\ last' = Outcome("update_template", Nil, "alloc_fail")
    BY DEF UpdateTemplateStops
  <1>2. Simple(list)
    BY DEF TableInv, SessionInv
  <1>3. Range(rest) = Range(list) \ gone
    <2>1. \A l : \A m \in DOMAIN l : Simple(l) =>
            Range(SubSeq(l, m + 1, Len(l))) = Range(l) \ {l[i] : i \in 1 .. m}
      BY TailSimple
    <2> QED BY <1>1, <1>2, <2>1, ZenonT(60)
  <1>4. gone \in SUBSET Range(list)
    <2>1. \A i \in 1 .. n : i \in DOMAIN list
      BY <1>1, <1>2 DEF Simple
    <2> QED BY <2>1, Zenon DEF Range
  <1> HIDE DEF gone, rest
  <1>5. /\ TableInv'
        /\ Tb' = [s \in DOMAIN Tb \ G |-> Tb[s]]
        /\ G \subseteq DOMAIN Tb /\ G \subseteq Ssrcs
        /\ TemplateDirection' = TemplateDirection
    BY <1>1, <1>3, <1>4, LeftTable, Zenon
  <1>6. TemplateDirection # "none"
    BY <1>1, SMTT(30) DEF TableInv, Steady, TemplateDirection
  <1> HIDE DEF G
  <1>7. Abs!Lose(G) /\ G \in SUBSET Ssrcs
    BY <1>1, <1>5, <1>6, AbsSteps, SMTT(30)
  <1> QED BY <1>5, <1>7, Zenon DEF Moves, Abs!Next

(* A clone of the template for a packet of its direction. *)
LEMMA CloneMoves ==
    ASSUME TableInv, SessionInv', NEW call \in {"protect", "unprotect"},
           NEW ssrc \in Ssrcs, NEW d, d = Abs!SideOf(call), NEW n \in {0, 1},
           n = 1 \/ call = "protect", CloneTemplate(call, ssrc, d, n)
    PROVE  TableInv' /\ Moves
  <1> DEFINE c == [CloneOf(template, ssrc, d) EXCEPT !.index = n]
  <1>1. /\ live /\ live' = live /\ ~Listed(ssrc) /\ Available # {}
        /\ template' = template /\ list' = Append(list, Fresh)
        /\ stream' = With(stream, Fresh, c) /\ TemplateDirection = d
    BY DEF CloneTemplate
  <1>2. c.ssrc = ssrc /\ c.direction = d /\ Entry(c) = [direction |-> d, index |-> n]
    BY DEF CloneOf, Entry
  <1>3. template # Nil => d = stream[template].direction
    BY <1>1 DEF TemplateDirection
  <1> HIDE DEF c
  <1>4. Appended(ssrc, c)
    BY <1>1, <1>2, <1>3, Zenon DEF Appended
  <1>5. \A x : Appended(ssrc, x) =>
          /\ TableInv'
          /\ Tb' = [s \in DOMAIN Tb \cup {ssrc} |->
                      IF s = ssrc THEN Entry(x) ELSE Tb[s]]
          /\ TemplateDirection' = TemplateDirection
    BY AppendedTable, Zenon
  <1>6. /\ TableInv'
        /\ Tb' = [s \in DOMAIN Tb \cup {ssrc} |->
                    IF s = ssrc THEN Entry(c) ELSE Tb[s]]
        /\ TemplateDirection' = TemplateDirection
    BY <1>4, <1>5, ZenonT(60)
  <1>7. ssrc \notin DOMAIN Tb
    BY <1>1, TbFacts, SMTT(30)
  <1>8. Report(call, ssrc, n)
    BY DEF CloneTemplate, Report
  <1>9. Abs!Appear(call, ssrc, n)
    <2>1. Tb' = [s \in DOMAIN Tb \cup {ssrc} |->
                    IF s = ssrc THEN [direction |-> d, index |-> n] ELSE Tb[s]]
      BY <1>2, <1>6, Zenon
    <2>2. live /\ UNCHANGED <<live, TemplateDirection>>
      BY <1>1, <1>6
    <2>3. /\ ssrc \notin DOMAIN Tb
          /\ TemplateDirection = d
          /\ Tb' = [s \in DOMAIN Tb \cup {ssrc} |->
                      IF s = ssrc THEN [direction |-> d, index |-> n] ELSE Tb[s]]
          => Abs!Appear(call, ssrc, n)
      BY <1>8, <2>2, AbsPacketSteps, Zenon
    <2> QED BY <1>1, <1>7, <2>1, <2>3, Zenon
  <1> QED BY <1>6, <1>9, Zenon DEF Moves, Abs!Next

LEMMA UseMoves ==
    ASSUME TableInv, SessionInv', NEW call \in {"protect", "unprotect"},
           NEW ssrc \in Ssrcs, NEW d, d = Abs!SideOf(call), NEW n \in {0, 1},
           UseStream(call, ssrc, d, n)
    PROVE  TableInv' /\ Moves
  <1>1. d \in {"sender", "receiver"}
    BY DEF Abs!SideOf
  <1>2. TableInv' /\ TemplateDirection' = TemplateDirection /\ Used(call, ssrc, d, n)
    BY <1>1, UsedTable, Zenon
  <1>3. /\ live /\ live' = live
        /\ last' = Outcome(call, ssrc, IF n = 1 THEN "ok" ELSE "fail")
    BY DEF UseStream
  <1>4. CASE call = "protect" \/ n = 1
    <2>1. Report(call, ssrc, n)
      BY <1>3, <1>4 DEF Report
    <2>2. Abs!Packet(call, ssrc, n)
      BY <1>2, <1>3, <1>4, <2>1, AbsPacketSteps, SMTT(30) DEF Used
    <2> QED BY <1>2, <2>2, Zenon DEF Moves, Abs!Next
  <1>5. CASE ~(call = "protect" \/ n = 1)
    <2>1. Same
      BY <1>2, <1>3, <1>5, SMTT(30) DEF Same, Used
    <2>2. last'.status # "ok"
      BY <1>3, <1>5, SMTT(30) DEF Outcome
    <2>3. Abs!Refuse
      BY <2>1, <2>2, AbsQuietSteps, SMTT(30)
    <2> QED BY <1>2, <2>3, Zenon DEF Moves, Abs!Next
  <1> QED BY <1>4, <1>5, SMTT(30)

LEMMA ManageMoves ==
    ASSUME ~AddDuplicates, TableInv, Manage
    PROVE  TableInv' /\ Moves
  <1>1. SessionInv'
    BY ManageKeeps DEF TableInv
  <1>2. CASE CreateFails \/ CreateNoList \/ AddTemplateRefused \/ AddFails
             \/ \E ssrc \in Ssrcs : RemoveUnknown(ssrc)
    <2>1. UNCHANGED <<live, list, template, stream>>
      BY <1>2 DEF CreateFails, CreateNoList, AddTemplateRefused, AddFails,
                  RemoveUnknown
    <2>2. last'.status # "ok"
      BY <1>2, SMTT(30) DEF CreateFails, CreateNoList, AddTemplateRefused, AddFails,
                            RemoveUnknown, Outcome
    <2> QED BY <1>1, <2>1, <2>2, RefusedMoves, SMTT(30)
  <1>3. CASE Create
    <2>1. ~live /\ live' = TRUE /\ UNCHANGED <<list, template, stream>>
          /\ last' = Outcome("create", Nil, "ok")
      BY <1>3 DEF Create
    <2>2. TableInv' /\ Tb' = Tb /\ TemplateDirection' = TemplateDirection
      BY <1>1, <2>1, QuietTable, SMTT(30)
    <2>3. Abs!Open
      BY <2>1, <2>2, AbsSteps, SMTT(30)
    <2> QED BY <2>2, <2>3, Zenon DEF Moves, Abs!Next
  <1>4. CASE Dealloc
    <2>1. live /\ live' = FALSE /\ last' = Outcome("dealloc", Nil, "ok")
      BY <1>4 DEF Dealloc
    <2>2. TableInv' /\ Tb' = <<>> /\ TemplateDirection' = "none"
      BY <1>1, <1>4, DeallocTable, SMTT(30)
    <2>3. Abs!Close
      BY <2>1, <2>2, AbsSteps, SMTT(30)
    <2> QED BY <2>2, <2>3, Zenon DEF Moves, Abs!Next
  <1>5. ASSUME NEW d \in {"sender", "receiver"}, AddTemplate(d)
        PROVE  TableInv' /\ Moves
    <2>1. live /\ live' = live /\ last' = Outcome("add", Nil, "ok")
      BY <1>5 DEF AddTemplate
    <2>2. /\ TableInv' /\ Tb' = Tb
          /\ TemplateDirection = "none" /\ TemplateDirection' = d
      BY <1>1, <1>5, AddTemplateTable, SMTT(30)
    <2>3. Abs!SetTemplate(d)
      BY <2>1, <2>2, AbsSteps, SMTT(30)
    <2> QED BY <2>2, <2>3, Zenon DEF Moves, Abs!Next
  <1>6. ASSUME NEW ssrc \in Ssrcs, AddStream(ssrc) PROVE TableInv' /\ Moves
    BY <1>1, <1>6, AddStreamMoves, SMTT(30)
  <1>7. ASSUME NEW ssrc \in Ssrcs, RemoveStream(ssrc) PROVE TableInv' /\ Moves
    BY <1>1, <1>7, RemovalMoves, SMTT(30)
  <1> QED BY <1>2, <1>3, <1>4, <1>5, <1>6, <1>7, ZenonT(60) DEF Manage

LEMMA RekeyMoves ==
    ASSUME TableInv, Rekey
    PROVE  TableInv' /\ Moves
  <1>1. SessionInv'
    BY RekeyKeeps DEF TableInv
  <1>2. ASSUME UpdateTemplate \/ \E ssrc \in Ssrcs : UpdateStream(ssrc)
        PROVE  TableInv' /\ Moves
    <2>1. live /\ live' = live
      BY <1>2, Zenon DEF UpdateTemplate, UpdateStream
    <2>2. TableInv' /\ Tb' = Tb /\ TemplateDirection' = TemplateDirection
      BY <1>1, <1>2, UpdatedTable, RetemplatedTable, Zenon
    <2>3. last'.call \in {"update", "update_template"} /\ last'.status = "ok"
      <3>1. UpdateTemplate => last' = Outcome("update_template", Nil, "ok")
        BY Zenon DEF UpdateTemplate
      <3>2. \A ssrc : UpdateStream(ssrc) => last' = Outcome("update", ssrc, "ok")
        BY Zenon DEF UpdateStream
      <3> QED BY <1>2, <3>1, <3>2, SMTT(30) DEF Outcome
    <2>4. Same
      BY <2>1, <2>2 DEF Same
    <2>5. Abs!Rekey
      BY <2>1, <2>3, <2>4, AbsQuietSteps, SMTT(30)
    <2> QED BY <2>2, <2>5, Zenon DEF Moves, Abs!Next
  <1>3. ASSUME NEW ssrc \in Ssrcs, UpdateStreamFails(ssrc) PROVE TableInv' /\ Moves
    BY <1>1, <1>3, RemovalMoves, SMTT(30)
  <1>4. CASE UpdateRefused \/ UpdateTemplateFails
    <2>1. UNCHANGED <<live, list, template, stream>>
      BY <1>4 DEF UpdateRefused, UpdateTemplateFails
    <2>2. last'.status # "ok"
      BY <1>4, SMTT(30) DEF UpdateRefused, UpdateTemplateFails, Outcome
    <2> QED BY <1>1, <2>1, <2>2, RefusedMoves, SMTT(30)
  <1>5. ASSUME NEW n, UpdateTemplateStops(n) PROVE TableInv' /\ Moves
    BY <1>1, <1>5, StopsMoves, SMTT(30)
  <1> QED BY <1>2, <1>3, <1>4, <1>5, Zenon DEF Rekey

(* The calls of PacketWork, each with its direction. *)
LEMMA PacketCalls ==
    ASSUME NEW ssrc, Protect(ssrc) \/ Unprotect(ssrc)
    PROVE  \E call \in {"protect", "unprotect"} :
             \/ PacketQuiet(call, ssrc)
             \/ \E n \in {0, 1} :
                  \/ /\ n = 1 \/ call = "protect"
                     /\ CloneTemplate(call, ssrc, Abs!SideOf(call), n)
                  \/ UseStream(call, ssrc, Abs!SideOf(call), n)
  <1>1. Abs!SideOf("protect") = "sender" /\ Abs!SideOf("unprotect") = "receiver"
    BY DEF Abs!SideOf
  <1>2. CASE Protect(ssrc)
    BY <1>1, <1>2, Zenon DEF Protect, PacketQuiet
  <1>3. CASE Unprotect(ssrc)
    BY <1>1, <1>3, Zenon DEF Unprotect, PacketQuiet
  <1> QED BY <1>2, <1>3

LEMMA PacketMoves ==
    ASSUME TableInv, NEW ssrc \in Ssrcs, Protect(ssrc) \/ Unprotect(ssrc)
    PROVE  TableInv' /\ Moves
  <1>1. SessionInv'
    BY PacketKeeps DEF TableInv
  <1>2. PICK call \in {"protect", "unprotect"} :
          \/ PacketQuiet(call, ssrc)
          \/ \E n \in {0, 1} :
               \/ /\ n = 1 \/ call = "protect"
                  /\ CloneTemplate(call, ssrc, Abs!SideOf(call), n)
               \/ UseStream(call, ssrc, Abs!SideOf(call), n)
    BY PacketCalls, Zenon
  <1>3. CASE PacketQuiet(call, ssrc)
    <2>1. UNCHANGED <<live, list, template, stream>>
      BY <1>3 DEF PacketQuiet, NoContext, CloneFails, Collision
    <2>2. last'.status # "ok"
      BY <1>3, SMTT(30) DEF PacketQuiet, NoContext, CloneFails, Collision, Outcome
    <2> QED BY <1>1, <2>1, <2>2, RefusedMoves, SMTT(30)
  <1>4. ASSUME NEW n \in {0, 1}, n = 1 \/ call = "protect",
               CloneTemplate(call, ssrc, Abs!SideOf(call), n)
        PROVE  TableInv' /\ Moves
    BY <1>1, <1>4, CloneMoves, ZenonT(60)
  <1>5. ASSUME NEW n \in {0, 1}, UseStream(call, ssrc, Abs!SideOf(call), n)
        PROVE  TableInv' /\ Moves
    BY <1>1, <1>5, UseMoves, ZenonT(60)
  <1> QED BY <1>2, <1>3, <1>4, <1>5, Zenon

LEMMA StepMoves ==
    ASSUME ~AddDuplicates, TableInv, [Next]_vars
    PROVE  TableInv' /\ Moves
  <1>1. CASE UNCHANGED vars
    <2>1. UNCHANGED <<live, list, template, stream>> /\ last' = last
          /\ UNCHANGED <<list, template, stream, keys, fault>>
      BY <1>1 DEF vars
    <2>2. SessionInv'
      BY <2>1, QuietKeeps DEF TableInv
    <2> QED BY <2>1, <2>2, RefusedMoves, SMTT(30)
  <1> QED BY <1>1, ManageMoves, RekeyMoves, PacketMoves, Zenon DEF Next

LEMMA TableInvHolds == ~AddDuplicates => (Spec => []TableInv)
  <1> SUFFICES ASSUME ~AddDuplicates PROVE Spec => []TableInv
    OBVIOUS
  <1>1. Init => TableInv
    BY TableInvInit
  <1>2. TableInv /\ [Next]_vars => TableInv'
    BY StepMoves
  <1> QED BY <1>1, <1>2, PTL DEF Spec

-----------------------------------------------------------------------------
(* Without a second srtp_stream_add for an SSRC, no SSRC is listed twice
   (Session!UniqueSsrc): neither the clone a packet makes nor the stream an
   update adds meets one that is there. *)
THEOREM NoSsrcTwice == ~AddDuplicates => (Spec => []UniqueSsrc)
  <1> SUFFICES ASSUME ~AddDuplicates PROVE Spec => []UniqueSsrc
    OBVIOUS
  <1>1. TableInv => UniqueSsrc
    <2> SUFFICES ASSUME TableInv, NEW i \in DOMAIN list, NEW j \in DOMAIN list,
                        stream[list[i]].ssrc = stream[list[j]].ssrc
                 PROVE  i = j
      BY DEF UniqueSsrc
    <2>1. Unique(Range(list), stream) /\ Simple(list)
      BY DEF TableInv, SessionInv
    <2>2. list[i] = list[j]
      BY <2>1, ZenonT(60) DEF Unique, Range
    <2> QED BY <2>1, <2>2, Zenon DEF Simple
  <1>2. Spec => []TableInv
    BY TableInvHolds
  <1> QED BY <1>1, <1>2, PTL

LEMMA ManageReports ==
    ASSUME Manage
    PROVE  last'.call \notin {"update", "update_template"}
  <1>1. CASE Create \/ CreateFails \/ CreateNoList
    BY <1>1, SMTT(30) DEF Create, CreateFails, CreateNoList, Outcome
  <1>2. CASE Dealloc
    BY <1>2 DEF Dealloc, Outcome
  <1>3. CASE AddTemplateRefused \/ AddFails
    BY <1>3 DEF AddTemplateRefused, AddFails, Outcome
  <1>4. ASSUME NEW d, AddTemplate(d)
        PROVE  last'.call \notin {"update", "update_template"}
    BY <1>4, SMTT(30) DEF AddTemplate, Outcome
  <1>5. ASSUME NEW ssrc, AddStream(ssrc) \/ RemoveStream(ssrc) \/ RemoveUnknown(ssrc)
        PROVE  last'.call \notin {"update", "update_template"}
    BY <1>5 DEF AddStream, RemoveStream, RemoveUnknown, Outcome
  <1> QED BY <1>1, <1>2, <1>3, <1>4, <1>5, Zenon DEF Manage

LEMMA RekeyReports ==
    /\ \A ssrc : UpdateStreamFails(ssrc) => last'.status # "ok"
    /\ UpdateRefused \/ UpdateTemplateFails => last'.status # "ok"
    /\ \A n : UpdateTemplateStops(n) => last'.status # "ok"
  <1>1. ASSUME NEW ssrc, UpdateStreamFails(ssrc) PROVE last'.status # "ok"
    BY <1>1 DEF UpdateStreamFails, Outcome
  <1>2. ASSUME UpdateRefused \/ UpdateTemplateFails PROVE last'.status # "ok"
    BY <1>2, SMTT(30) DEF UpdateRefused, UpdateTemplateFails, Outcome
  <1>3. ASSUME NEW n, UpdateTemplateStops(n) PROVE last'.status # "ok"
    BY <1>3 DEF UpdateTemplateStops, Outcome
  <1> QED BY <1>1, <1>2, <1>3, SMTT(30)

(* srtp_stream_update and srtp_update keep the streams they rekey, with their
   index and direction (Session!UpdateKeeps), for a session of any size. *)
THEOREM UpdatesKeep == ~AddDuplicates => (Spec => UpdateKeeps)
  <1> SUFFICES ASSUME ~AddDuplicates PROVE Spec => UpdateKeeps
    OBVIOUS
  <1>1. ASSUME TableInv, [Next]_vars PROVE [UpdateKeepsStep]_vars
    <2> SUFFICES ASSUME Next, last'.call \in {"update", "update_template"},
                        last'.status = "ok", NEW ssrc \in Ssrcs
                 PROVE  /\ Listed(ssrc)' = Listed(ssrc)
                        /\ Listed(ssrc) => View(ssrc)' = View(ssrc)
      BY <1>1 DEF UpdateKeepsStep
    <2>1. ~Manage
      BY ManageReports, SMTT(30)
    <2>2. \A x : ~Protect(x) /\ ~Unprotect(x)
      BY DEF Protect, Unprotect, NoContext, CloneTemplate, CloneFails, Collision,
             UseStream, Outcome
    <2>3. Rekey
      BY <2>1, <2>2 DEF Next
    <2>4. UpdateTemplate \/ \E x \in Ssrcs : UpdateStream(x)
      BY <2>3, RekeyReports, Zenon DEF Rekey
    <2>5. SessionInv'
      BY <1>1, <2>3, RekeyKeeps, SMTT(30) DEF TableInv
    <2>6. Tb' = Tb
      BY <1>1, <2>4, <2>5, UpdatedTable, RetemplatedTable, ZenonT(60)
    <2>7. Table' = Table
      BY <2>6, TableIsTb, TableIsTbNext, SMTT(30)
    <2>8. DOMAIN Table = {s \in Ssrcs : Listed(s)} /\ Listed(ssrc) \in BOOLEAN
      BY DEF Table, Listed
    <2>9. DOMAIN Table' = {s \in Ssrcs : Listed(s)'} /\ Listed(ssrc)' \in BOOLEAN
      BY DEF Table, Listed
    <2>10. Listed(ssrc)' = Listed(ssrc)
      BY <2>7, <2>8, <2>9, SMTT(30)
    <2>11. /\ Listed(ssrc) => Table[ssrc] = View(ssrc)
           /\ Listed(ssrc)' => Table'[ssrc] = View(ssrc)'
      BY DEF Table
    <2> QED BY <2>7, <2>10, <2>11, SMTT(30)
  <1>2. Spec => []TableInv
    BY TableInvHolds
  <1> QED BY <1>1, <1>2, PTL DEF Spec, UpdateKeeps

(* A session to which no SSRC is added twice is a table of streams
   (Session!Implements), whatever allocations fail: srtp_create, srtp_dealloc,
   srtp_stream_add, srtp_stream_remove, the updates and the packet functions do
   to the table what the status they return allows, and lose no stream but by
   srtp_stream_remove or an update that runs out of memory. *)
THEOREM SessionIsTable == ~AddDuplicates => (Spec => Implements)
  <1> SUFFICES ASSUME ~AddDuplicates PROVE Spec => Implements
    OBVIOUS
  <1>1. Init => Abs!Init
    <2> SUFFICES ASSUME Init PROVE Abs!Init
      OBVIOUS
    <2>1. live = FALSE /\ Table = <<>> /\ TemplateDirection = "none"
      BY TableInvInit, TableIsTb, SMTT(30) DEF Init
    <2>2. last.call = "none"
      BY DEF Init, Outcome
    <2> QED BY <2>1, <2>2 DEF Abs!Init, Table
  <1>2. TableInv /\ [Next]_vars => [Abs!Next]_(Abs!vars)
    BY StepMoves DEF Moves
  <1>3. Spec => []TableInv
    BY TableInvHolds
  <1> QED BY <1>1, <1>2, <1>3, PTL DEF Spec, Implements, Abs!Spec

=============================================================================
