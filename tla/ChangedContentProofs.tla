-------------------------- MODULE ChangedContentProofs --------------------------
(***************************************************************************)
(* Proofs about what the exam holds under the changesets of the AI: while  *)
(* the builder is not used, the original with some whole changes; and when *)
(* requests come one after the other and none fails, those that are marked *)
(* as applied.  A content is seen as a set of facts, each about a key; a   *)
(* change replaces the facts about its keys.                               *)
(***************************************************************************)
EXTENDS ChangeSetsProofs

-------------------------------------------------------------------------------
(* What a content holds as a set of facts, each about a key: the details,  *)
(* the title of a section, or an item and the section it is in.            *)

FactSet ==
    {"details"} \X {0} \X Versions \cup {"title"} \X SectionIds \X Versions
    \cup {"item"} \X SectionIds \X ExamItems

Facts(c) ==
    {<<"details", 0, Holdings(c).details>>}
    \cup {<<"title", x[1], x[2]>> : x \in Holdings(c).titles}
    \cup {<<"item", x[1], x[2]>> : x \in Holdings(c).items}

DetailsKey == <<"details", 0>>
TitleKey(s) == <<"title", s>>
ItemKey(i) == <<"item", i>>
KeyOf(f) == IF f[1] = "item" THEN ItemKey(f[3].id) ELSE <<f[1], f[2]>>

\* The facts with other ones about some keys.
Over(facts, keys, new) == {f \in facts : KeyOf(f) \notin keys} \cup new

LEMMA Keys ==
    /\ \A v : KeyOf(<<"details", 0, v>>) = DetailsKey
    /\ \A s, v : KeyOf(<<"title", s, v>>) = TitleKey(s)
    /\ \A s, it : KeyOf(<<"item", s, it>>) = ItemKey(it.id)
    /\ \A s, i : DetailsKey # TitleKey(s) /\ DetailsKey # ItemKey(i)
            /\ TitleKey(s) # ItemKey(i)
    /\ \A s, t : TitleKey(s) = TitleKey(t) => s = t
    /\ \A i, j : ItemKey(i) = ItemKey(j) => i = j
<1>1. /\ \A v : KeyOf(<<"details", 0, v>>) = DetailsKey
      /\ \A s, v : KeyOf(<<"title", s, v>>) = TitleKey(s)
      /\ \A s, it : KeyOf(<<"item", s, it>>) = ItemKey(it.id)
  BY DEF KeyOf, DetailsKey, TitleKey
<1>2. /\ \A s, i : /\ DetailsKey # TitleKey(s) /\ DetailsKey # ItemKey(i)
                   /\ TitleKey(s) # ItemKey(i)
      /\ \A s, t : TitleKey(s) = TitleKey(t) => s = t
      /\ \A i, j : ItemKey(i) = ItemKey(j) => i = j
  BY DEF DetailsKey, TitleKey, ItemKey
<1>3. QED
  BY <1>1, <1>2

LEMMA FactIn ==
    ASSUME NEW c \in Contents
    PROVE  /\ Facts(c) \subseteq FactSet
           /\ \A v : <<"details", 0, v>> \in Facts(c) <=> v = Holdings(c).details
           /\ \A s, v : <<"title", s, v>> \in Facts(c) <=> <<s, v>> \in Holdings(c).titles
           /\ \A s, it : <<"item", s, it>> \in Facts(c) <=> <<s, it>> \in Holdings(c).items
<1>1. /\ Holdings(c).details \in Versions
      /\ Holdings(c).titles \subseteq SectionIds \X Versions
      /\ Holdings(c).items \subseteq SectionIds \X ExamItems
  BY HeldTypes
<1>2. \A x \in Holdings(c).titles : x = <<x[1], x[2]>> /\ x[1] \in SectionIds
                                    /\ x[2] \in Versions
  BY <1>1
<1>3. \A x \in Holdings(c).items : x = <<x[1], x[2]>> /\ x[1] \in SectionIds
                                   /\ x[2] \in ExamItems
  BY <1>1
<1>4. ASSUME NEW f \in Facts(c)
      PROVE  f \in FactSet
  <2>1. CASE f = <<"details", 0, Holdings(c).details>>
    BY <1>1, <2>1 DEF FactSet
  <2>2. CASE f \in {<<"title", x[1], x[2]>> : x \in Holdings(c).titles}
    BY <1>2, <2>2 DEF FactSet
  <2>3. CASE f \in {<<"item", x[1], x[2]>> : x \in Holdings(c).items}
    BY <1>3, <2>3 DEF FactSet
  <2>4. QED
    BY <2>1, <2>2, <2>3 DEF Facts
<1>5. ASSUME NEW v
      PROVE  <<"details", 0, v>> \in Facts(c) <=> v = Holdings(c).details
  BY DEF Facts
<1>6. ASSUME NEW s, NEW v
      PROVE  <<"title", s, v>> \in Facts(c) <=> <<s, v>> \in Holdings(c).titles
  <2>1. ASSUME <<"title", s, v>> \in Facts(c)
        PROVE  <<s, v>> \in Holdings(c).titles
    <3>1. PICK x \in Holdings(c).titles : <<"title", s, v>> = <<"title", x[1], x[2]>>
      BY <2>1 DEF Facts
    <3>2. x = <<s, v>>
      BY <1>2, <3>1
    <3>3. QED
      BY <3>2
  <2>2. ASSUME <<s, v>> \in Holdings(c).titles
        PROVE  <<"title", s, v>> \in Facts(c)
    BY <2>2 DEF Facts
  <2>3. QED
    BY <2>1, <2>2
<1>7. ASSUME NEW s, NEW it
      PROVE  <<"item", s, it>> \in Facts(c) <=> <<s, it>> \in Holdings(c).items
  <2>1. ASSUME <<"item", s, it>> \in Facts(c)
        PROVE  <<s, it>> \in Holdings(c).items
    <3>1. PICK x \in Holdings(c).items : <<"item", s, it>> = <<"item", x[1], x[2]>>
      BY <2>1 DEF Facts
    <3>2. x = <<s, it>>
      BY <1>3, <3>1
    <3>3. QED
      BY <3>2
  <2>2. ASSUME <<s, it>> \in Holdings(c).items
        PROVE  <<"item", s, it>> \in Facts(c)
    BY <2>2 DEF Facts
  <2>3. QED
    BY <2>1, <2>2
<1>8. QED
  BY <1>4, <1>5, <1>6, <1>7

\* Two sets of facts are the same when they agree on each kind.
LEMMA SameFacts ==
    ASSUME NEW F \in SUBSET FactSet, NEW G \in SUBSET FactSet,
           \A v \in Versions : <<"details", 0, v>> \in F <=> <<"details", 0, v>> \in G,
           \A s \in SectionIds : \A v \in Versions :
              <<"title", s, v>> \in F <=> <<"title", s, v>> \in G,
           \A s \in SectionIds : \A it \in ExamItems :
              <<"item", s, it>> \in F <=> <<"item", s, it>> \in G
    PROVE  F = G
<1>1. \A f \in FactSet : f \in F <=> f \in G
  <2>1. ASSUME NEW f \in FactSet
        PROVE  f \in F <=> f \in G
    <3>1. CASE f \in {"details"} \X {0} \X Versions
      <4>1. PICK v \in Versions : f = <<"details", 0, v>>
        BY <3>1
      <4>2. QED
        BY <4>1
    <3>2. CASE f \in {"title"} \X SectionIds \X Versions
      <4>1. f = <<"title", f[2], f[3]>> /\ f[2] \in SectionIds /\ f[3] \in Versions
        BY <3>2
      <4>2. QED
        BY <4>1
    <3>3. CASE f \in {"item"} \X SectionIds \X ExamItems
      <4>1. f = <<"item", f[2], f[3]>> /\ f[2] \in SectionIds /\ f[3] \in ExamItems
        BY <3>3
      <4>2. QED
        BY <4>1
    <3>4. QED
      BY <3>1, <3>2, <3>3 DEF FactSet
  <2>2. QED
    BY <2>1
<1>2. QED
  BY <1>1

\* Facts and holdings tell the same.
LEMMA FactsAreHoldings ==
    ASSUME NEW c \in Contents, NEW d \in Contents, Facts(c) = Facts(d)
    PROVE  Holdings(c) = Holdings(d)
<1>1. Holdings(c).details = Holdings(d).details
  BY FactIn
<1>2. Holdings(c).titles = Holdings(d).titles
  <2>1. \A s \in SectionIds : \A v \in Versions :
            <<s, v>> \in Holdings(c).titles <=> <<s, v>> \in Holdings(d).titles
    BY FactIn
  <2>2. /\ Holdings(c).titles \subseteq SectionIds \X Versions
        /\ Holdings(d).titles \subseteq SectionIds \X Versions
    BY HeldTypes
  <2>3. QED
    BY <2>1, <2>2
<1>3. Holdings(c).items = Holdings(d).items
  <2>1. \A s \in SectionIds : \A it \in ExamItems :
            <<s, it>> \in Holdings(c).items <=> <<s, it>> \in Holdings(d).items
    BY FactIn
  <2>2. /\ Holdings(c).items \subseteq SectionIds \X ExamItems
        /\ Holdings(d).items \subseteq SectionIds \X ExamItems
    BY HeldTypes
  <2>3. QED
    BY <2>1, <2>2
<1>4. QED
  BY <1>1, <1>2, <1>3 DEF Holdings

\* The facts about a key are one at most.
LEMMA OneFact ==
    ASSUME NEW c \in Contents, Distinct(c), NEW f \in Facts(c), NEW g \in Facts(c),
           KeyOf(f) = KeyOf(g)
    PROVE  f = g
<1>1. f \in FactSet /\ g \in FactSet
  BY FactIn
<1>2. CASE f \in {"details"} \X {0} \X Versions
  <2>1. g \in {"details"} \X {0} \X Versions
    BY <1>1, <1>2 DEF FactSet, KeyOf, ItemKey
  <2>2. f = <<"details", 0, f[3]>> /\ g = <<"details", 0, g[3]>>
    BY <1>2, <2>1
  <2>3. f[3] = Holdings(c).details /\ g[3] = Holdings(c).details
    BY <2>2, FactIn
  <2>4. QED
    BY <2>2, <2>3
<1>3. CASE f \in {"title"} \X SectionIds \X Versions
  <2>1. g \in {"title"} \X SectionIds \X Versions /\ g[2] = f[2]
    BY <1>1, <1>3 DEF FactSet, KeyOf, ItemKey
  <2>2. f = <<"title", f[2], f[3]>> /\ g = <<"title", f[2], g[3]>>
    BY <1>3, <2>1
  <2>3. <<f[2], f[3]>> \in Holdings(c).titles /\ <<f[2], g[3]>> \in Holdings(c).titles
    BY <2>2, FactIn
  <2>4. <<f[2], f[3]>> = <<f[2], g[3]>>
    BY <2>3, HeldOnce
  <2>5. QED
    BY <2>2, <2>4
<1>4. CASE f \in {"item"} \X SectionIds \X ExamItems
  <2>1. g \in {"item"} \X SectionIds \X ExamItems /\ g[3].id = f[3].id
    BY <1>1, <1>4 DEF FactSet, KeyOf, ItemKey
  <2>2. f = <<"item", f[2], f[3]>> /\ g = <<"item", g[2], g[3]>>
    BY <1>4, <2>1
  <2>3. <<f[2], f[3]>> \in Holdings(c).items /\ <<g[2], g[3]>> \in Holdings(c).items
    BY <2>2, FactIn
  <2>4. <<f[2], f[3]>> = <<g[2], g[3]>>
    BY <2>1, <2>3, HeldOnce
  <2>5. QED
    BY <2>2, <2>4
<1>5. QED
  BY <1>1, <1>2, <1>3, <1>4 DEF FactSet

\* There is a fact about a key.
Says(facts, key) == \E f \in facts : KeyOf(f) = key

SectionKeys(s) == {TitleKey(s.id)} \cup {ItemKey(s.items[k].id) : k \in DOMAIN s.items}
SectionFacts(s) ==
    {<<"title", s.id, s.title>>} \cup {<<"item", s.id, s.items[k]>> : k \in DOMAIN s.items}

\* The keys of a change, and of its inverse.
KeysOf(ch) ==
    CASE ch.kind \in {"edit_item", "remove_item", "move_item", "add_item"}
            -> {ItemKey(ch.item.id)}
      [] ch.kind \in {"add_section", "remove_section"} -> SectionKeys(ch.section)
      [] ch.kind = "rename_section" -> {TitleKey(ch.section)}
      [] OTHER -> {DetailsKey}

LEMMA SaysSection ==
    ASSUME NEW c \in Contents, NEW s
    PROVE  HasSection(c, s) <=> Says(Facts(c), TitleKey(s))
<1>1. ASSUME HasSection(c, s)
      PROVE  Says(Facts(c), TitleKey(s))
  <2>1. PICK x \in Holdings(c).titles : x[1] = s
    BY <1>1, HasSectionHeld
  <2>2. x = <<s, x[2]>>
    BY <2>1, HeldTypes
  <2>3. <<"title", s, x[2]>> \in Facts(c)
    BY <2>2, FactIn
  <2>4. KeyOf(<<"title", s, x[2]>>) = TitleKey(s)
    BY Keys
  <2>5. QED
    BY <2>3, <2>4 DEF Says
<1>2. ASSUME Says(Facts(c), TitleKey(s))
      PROVE  HasSection(c, s)
  <2>1. PICK f \in Facts(c) : KeyOf(f) = TitleKey(s)
    BY <1>2 DEF Says
  <2>2. f \in FactSet
    BY FactIn
  <2>3. f = <<"title", s, f[3]>>
    BY <2>1, <2>2 DEF FactSet, KeyOf, TitleKey, ItemKey
  <2>4. <<s, f[3]>> \in Holdings(c).titles
    BY <2>3, FactIn
  <2>5. QED
    BY <2>4, HasSectionHeld
<1>3. QED
  BY <1>1, <1>2

LEMMA SaysItem ==
    ASSUME NEW c \in Contents, NEW i
    PROVE  /\ Places(c, i) # {} <=> Says(Facts(c), ItemKey(i))
           /\ \A f \in Facts(c) : KeyOf(f) = ItemKey(i) =>
                 f = <<"item", f[2], f[3]>> /\ f[2] \in SectionIds /\ f[3] \in ExamItems
                 /\ f[3].id = i
<1>1. ASSUME Places(c, i) # {}
      PROVE  Says(Facts(c), ItemKey(i))
  <2>1. PICK x \in Holdings(c).items : x[2].id = i
    BY <1>1, ItemHeld
  <2>2. x = <<x[1], x[2]>>
    BY <2>1, HeldTypes
  <2>3. <<"item", x[1], x[2]>> \in Facts(c)
    BY <2>2, FactIn
  <2>4. KeyOf(<<"item", x[1], x[2]>>) = ItemKey(i)
    BY <2>1, Keys
  <2>5. QED
    BY <2>3, <2>4 DEF Says
<1>2. ASSUME NEW f \in Facts(c), KeyOf(f) = ItemKey(i)
      PROVE  f = <<"item", f[2], f[3]>> /\ f[2] \in SectionIds /\ f[3] \in ExamItems
             /\ f[3].id = i
  <2>1. f \in FactSet
    BY FactIn
  <2>2. QED
    BY <1>2, <2>1 DEF FactSet, KeyOf, ItemKey
<1>3. ASSUME Says(Facts(c), ItemKey(i))
      PROVE  Places(c, i) # {}
  <2>1. PICK f \in Facts(c) : KeyOf(f) = ItemKey(i)
    BY <1>3 DEF Says
  <2>2. f = <<"item", f[2], f[3]>> /\ f[3].id = i
    BY <1>2, <2>1
  <2>3. <<f[2], f[3]>> \in Holdings(c).items
    BY <2>2, FactIn
  <2>4. QED
    BY <2>2, <2>3, ItemHeld
<1>4. QED
  BY <1>1, <1>2, <1>3

\* An item is somewhere else, or other, or new.
LEMMA ItemOver ==
    ASSUME NEW c \in Contents, NEW d \in Contents,
           Holdings(d).details = Holdings(c).details, Holdings(d).titles = Holdings(c).titles,
           NEW s \in SectionIds, NEW it \in ExamItems,
           \A x : x \in Holdings(d).items <=>
              (x \in Holdings(c).items /\ x[2].id # it.id) \/ x = <<s, it>>
    PROVE  Facts(d) = Over(Facts(c), {ItemKey(it.id)}, {<<"item", s, it>>})
<1> DEFINE G == Over(Facts(c), {ItemKey(it.id)}, {<<"item", s, it>>})
<1>1. /\ Facts(d) \subseteq FactSet /\ Facts(c) \subseteq FactSet
      /\ <<"item", s, it>> \in FactSet
  BY FactIn DEF FactSet
<1>2. G \subseteq FactSet
  BY <1>1 DEF Over
<1>3. \A v \in Versions : <<"details", 0, v>> \in Facts(d) <=> <<"details", 0, v>> \in G
  <2>1. ASSUME NEW v \in Versions
        PROVE  <<"details", 0, v>> \in G <=> <<"details", 0, v>> \in Facts(c)
    <3>1. KeyOf(<<"details", 0, v>>) # ItemKey(it.id)
      BY Keys
    <3>2. <<"details", 0, v>> # <<"item", s, it>>
      OBVIOUS
    <3>3. QED
      BY <3>1, <3>2 DEF Over
  <2> HIDE DEF G
  <2>2. QED
    BY <2>1, FactIn
<1>4. \A t \in SectionIds : \A v \in Versions :
          <<"title", t, v>> \in Facts(d) <=> <<"title", t, v>> \in G
  <2>1. ASSUME NEW t \in SectionIds, NEW v \in Versions
        PROVE  <<"title", t, v>> \in G <=> <<"title", t, v>> \in Facts(c)
    <3>1. KeyOf(<<"title", t, v>>) # ItemKey(it.id)
      BY Keys
    <3>2. <<"title", t, v>> # <<"item", s, it>>
      OBVIOUS
    <3>3. QED
      BY <3>1, <3>2 DEF Over
  <2> HIDE DEF G
  <2>2. QED
    BY <2>1, FactIn
<1>5. \A t \in SectionIds : \A x \in ExamItems :
          <<"item", t, x>> \in Facts(d) <=> <<"item", t, x>> \in G
  <2>1. ASSUME NEW t \in SectionIds, NEW x \in ExamItems
        PROVE  <<"item", t, x>> \in G <=>
                  (<<"item", t, x>> \in Facts(c) /\ x.id # it.id) \/ <<t, x>> = <<s, it>>
    <3>1. KeyOf(<<"item", t, x>>) = ItemKey(it.id) <=> x.id = it.id
      BY Keys
    <3>2. <<"item", t, x>> = <<"item", s, it>> <=> <<t, x>> = <<s, it>>
      OBVIOUS
    <3>3. QED
      BY <3>1, <3>2 DEF Over
  <2> HIDE DEF G
  <2>2. ASSUME NEW t \in SectionIds, NEW x \in ExamItems
        PROVE  <<"item", t, x>> \in Facts(d) <=>
                  (<<"item", t, x>> \in Facts(c) /\ x.id # it.id) \/ <<t, x>> = <<s, it>>
    <3>1. <<t, x>>[2] = x
      OBVIOUS
    <3>2. <<t, x>> \in Holdings(d).items <=>
              (<<t, x>> \in Holdings(c).items /\ x.id # it.id) \/ <<t, x>> = <<s, it>>
      BY <3>1
    <3>3. QED
      BY <3>2, FactIn
  <2>3. QED
    BY <2>1, <2>2
<1> HIDE DEF G
<1>6. Facts(d) = G
  BY <1>1, <1>2, <1>3, <1>4, <1>5, SameFacts
<1>7. QED
  BY <1>6 DEF G

\* An item is gone.
LEMMA ItemAway ==
    ASSUME NEW c \in Contents, NEW d \in Contents,
           Holdings(d).details = Holdings(c).details, Holdings(d).titles = Holdings(c).titles,
           NEW i,
           \A x : x \in Holdings(d).items <=> x \in Holdings(c).items /\ x[2].id # i
    PROVE  Facts(d) = Over(Facts(c), {ItemKey(i)}, {})
<1> DEFINE G == Over(Facts(c), {ItemKey(i)}, {})
<1>1. Facts(d) \subseteq FactSet /\ Facts(c) \subseteq FactSet
  BY FactIn
<1>2. G \subseteq FactSet
  BY <1>1 DEF Over
<1>3. \A f : f \in G <=> f \in Facts(c) /\ KeyOf(f) # ItemKey(i)
  BY DEF Over
<1> HIDE DEF G
<1>4. \A v \in Versions : <<"details", 0, v>> \in Facts(d) <=> <<"details", 0, v>> \in G
  BY <1>3, FactIn, Keys
<1>5. \A t \in SectionIds : \A v \in Versions :
          <<"title", t, v>> \in Facts(d) <=> <<"title", t, v>> \in G
  <2>1. ASSUME NEW t \in SectionIds, NEW v \in Versions
        PROVE  <<"title", t, v>> \in G <=> <<"title", t, v>> \in Facts(c)
    <3>1. KeyOf(<<"title", t, v>>) # ItemKey(i)
      BY Keys
    <3>2. QED
      BY <1>3, <3>1
  <2>2. QED
    BY <2>1, FactIn
<1>6. ASSUME NEW t \in SectionIds, NEW x \in ExamItems
      PROVE  <<"item", t, x>> \in Facts(d) <=> <<"item", t, x>> \in G
  <2>1. <<t, x>>[2] = x
    OBVIOUS
  <2>2. <<t, x>> \in Holdings(d).items <=> <<t, x>> \in Holdings(c).items /\ x.id # i
    BY <2>1
  <2>3. KeyOf(<<"item", t, x>>) # ItemKey(i) <=> x.id # i
    BY Keys
  <2>4. QED
    BY <1>3, <2>2, <2>3, FactIn
<1>7. Facts(d) = G
  BY <1>1, <1>2, <1>4, <1>5, <1>6, SameFacts
<1>8. QED
  BY <1>7 DEF G

LEMMA SectionFactIn ==
    ASSUME NEW s \in ExamSections
    PROVE  /\ SectionFacts(s) \subseteq FactSet
           /\ \A f \in SectionFacts(s) : KeyOf(f) \in SectionKeys(s)
           /\ \A v : <<"details", 0, v>> \notin SectionFacts(s)
           /\ \A t, v : <<"title", t, v>> \in SectionFacts(s) <=> t = s.id /\ v = s.title
           /\ \A t, x : <<"item", t, x>> \in SectionFacts(s) <=>
                 t = s.id /\ \E k \in DOMAIN s.items : x = s.items[k]
           /\ \A t : TitleKey(t) \in SectionKeys(s) <=> t = s.id
           /\ \A i : ItemKey(i) \in SectionKeys(s) <=>
                 \E k \in DOMAIN s.items : s.items[k].id = i
           /\ DetailsKey \notin SectionKeys(s)
<1>1. /\ s.id \in SectionIds /\ s.title \in Versions
      /\ \A k \in DOMAIN s.items : s.items[k] \in ExamItems
  BY DEF ExamSections, SectionIds
<1>2. SectionFacts(s) \subseteq FactSet
  BY <1>1 DEF SectionFacts, FactSet
<1>3. ASSUME NEW f \in SectionFacts(s)
      PROVE  KeyOf(f) \in SectionKeys(s)
  <2>1. CASE f = <<"title", s.id, s.title>>
    BY <2>1, Keys DEF SectionKeys
  <2>2. CASE f \in {<<"item", s.id, s.items[k]>> : k \in DOMAIN s.items}
    <3>1. PICK k \in DOMAIN s.items : f = <<"item", s.id, s.items[k]>>
      BY <2>2
    <3>2. KeyOf(f) = ItemKey(s.items[k].id)
      BY <3>1, Keys
    <3>3. QED
      BY <3>2 DEF SectionKeys
  <2>3. QED
    BY <2>1, <2>2 DEF SectionFacts
<1>4. \A v : <<"details", 0, v>> \notin SectionFacts(s)
  BY DEF SectionFacts
<1>5. \A t, v : <<"title", t, v>> \in SectionFacts(s) <=> t = s.id /\ v = s.title
  BY DEF SectionFacts
<1>6. ASSUME NEW t, NEW x
      PROVE  <<"item", t, x>> \in SectionFacts(s) <=>
                 t = s.id /\ \E k \in DOMAIN s.items : x = s.items[k]
  BY DEF SectionFacts
<1>7. ASSUME NEW t
      PROVE  TitleKey(t) \in SectionKeys(s) <=> t = s.id
  BY Keys DEF SectionKeys
<1>8. ASSUME NEW i
      PROVE  ItemKey(i) \in SectionKeys(s) <=> \E k \in DOMAIN s.items : s.items[k].id = i
  BY Keys DEF SectionKeys
<1>9. DetailsKey \notin SectionKeys(s)
  BY Keys DEF SectionKeys
<1>10. QED
  BY <1>2, <1>3, <1>4, <1>5, <1>6, <1>7, <1>8, <1>9

\* A section is new, with its items.
LEMMA SectionOver ==
    ASSUME NEW c \in Contents, NEW d \in Contents, NEW s \in ExamSections,
           Holdings(d).details = Holdings(c).details, ~HasSection(c, s.id), Free(c, s),
           \A x : x \in Holdings(d).titles <=>
              x \in Holdings(c).titles \/ x = <<s.id, s.title>>,
           \A x : x \in Holdings(d).items <=>
              x \in Holdings(c).items \/ \E k \in DOMAIN s.items : x = <<s.id, s.items[k]>>
    PROVE  Facts(d) = Over(Facts(c), SectionKeys(s), SectionFacts(s))
<1> DEFINE G == Over(Facts(c), SectionKeys(s), SectionFacts(s))
<1>1. /\ Facts(d) \subseteq FactSet /\ Facts(c) \subseteq FactSet
      /\ SectionFacts(s) \subseteq FactSet
  BY FactIn, SectionFactIn
<1>2. G \subseteq FactSet
  BY <1>1 DEF Over
<1>3. \A f : f \in G <=>
          (f \in Facts(c) /\ KeyOf(f) \notin SectionKeys(s)) \/ f \in SectionFacts(s)
  BY DEF Over
<1>4. \A f \in Facts(c) : KeyOf(f) \notin SectionKeys(s)
  <2>1. ASSUME NEW f \in Facts(c), KeyOf(f) \in SectionKeys(s)
        PROVE  FALSE
    <3>1. CASE KeyOf(f) = TitleKey(s.id)
      BY <3>1, SaysSection DEF Says
    <3>2. CASE KeyOf(f) \in {ItemKey(s.items[k].id) : k \in DOMAIN s.items}
      <4>1. PICK k \in DOMAIN s.items : KeyOf(f) = ItemKey(s.items[k].id)
        BY <3>2
      <4>2. Says(Facts(c), ItemKey(s.items[k].id))
        BY <4>1 DEF Says
      <4>3. Places(c, s.items[k].id) # {}
        BY <4>2, SaysItem
      <4>4. QED
        BY <4>3 DEF Free
    <3>3. QED
      BY <2>1, <3>1, <3>2 DEF SectionKeys
  <2>2. QED
    BY <2>1
<1>a. \A f : f \in G <=> f \in Facts(c) \/ f \in SectionFacts(s)
  BY <1>3, <1>4
<1> HIDE DEF G
<1>5. \A v \in Versions : <<"details", 0, v>> \in Facts(d) <=> <<"details", 0, v>> \in G
  BY <1>a, FactIn, SectionFactIn
<1>6. ASSUME NEW t \in SectionIds, NEW v \in Versions
      PROVE  <<"title", t, v>> \in Facts(d) <=> <<"title", t, v>> \in G
  <2>1. <<"title", t, v>> \in G <=>
          <<t, v>> \in Holdings(c).titles \/ (t = s.id /\ v = s.title)
    BY <1>a, FactIn, SectionFactIn
  <2>2. <<t, v>> \in Holdings(d).titles <=>
            <<t, v>> \in Holdings(c).titles \/ (t = s.id /\ v = s.title)
    OBVIOUS
  <2>3. QED
    BY <2>1, <2>2, FactIn
<1>7. ASSUME NEW t \in SectionIds, NEW x \in ExamItems
      PROVE  <<"item", t, x>> \in Facts(d) <=> <<"item", t, x>> \in G
  <2>1. <<"item", t, x>> \in G <=>
            \/ <<t, x>> \in Holdings(c).items
            \/ t = s.id /\ \E k \in DOMAIN s.items : x = s.items[k]
    BY <1>a, FactIn, SectionFactIn
  <2>2. <<t, x>> \in Holdings(d).items <=>
            \/ <<t, x>> \in Holdings(c).items
            \/ t = s.id /\ \E k \in DOMAIN s.items : x = s.items[k]
    OBVIOUS
  <2>3. QED
    BY <2>1, <2>2, FactIn
<1>8. Facts(d) = G
  BY <1>1, <1>2, <1>5, <1>6, <1>7, SameFacts
<1>9. QED
  BY <1>8 DEF G

\* A section is gone, and it had these items and no others.
LEMMA SectionAway ==
    ASSUME NEW c \in Contents, Distinct(c), NEW d \in Contents, NEW s \in ExamSections,
           Holdings(d).details = Holdings(c).details,
           \A x : x \in Holdings(d).titles <=> x \in Holdings(c).titles /\ x[1] # s.id,
           \A x : x \in Holdings(d).items <=> x \in Holdings(c).items /\ x[1] # s.id,
           \A x : x \in Holdings(c).items /\ x[1] = s.id <=>
              \E k \in DOMAIN s.items : x = <<s.id, s.items[k]>>
    PROVE  Facts(d) = Over(Facts(c), SectionKeys(s), {})
<1> DEFINE G == Over(Facts(c), SectionKeys(s), {})
<1>1. Facts(d) \subseteq FactSet /\ Facts(c) \subseteq FactSet
  BY FactIn
<1>2. G \subseteq FactSet
  BY <1>1 DEF Over
<1>3. \A f : f \in G <=> f \in Facts(c) /\ KeyOf(f) \notin SectionKeys(s)
  BY DEF Over
<1> HIDE DEF G
<1>4. ASSUME NEW v \in Versions
      PROVE  <<"details", 0, v>> \in Facts(d) <=> <<"details", 0, v>> \in G
  <2>1. KeyOf(<<"details", 0, v>>) \notin SectionKeys(s)
    BY Keys, SectionFactIn
  <2>2. QED
    BY <1>3, <2>1, FactIn
<1>5. ASSUME NEW t \in SectionIds, NEW v \in Versions
      PROVE  <<"title", t, v>> \in Facts(d) <=> <<"title", t, v>> \in G
  <2>1. KeyOf(<<"title", t, v>>) \notin SectionKeys(s) <=> t # s.id
    BY Keys, SectionFactIn
  <2>2. <<t, v>> \in Holdings(d).titles <=> <<t, v>> \in Holdings(c).titles /\ t # s.id
    OBVIOUS
  <2>3. QED
    BY <1>3, <2>1, <2>2, FactIn
<1>6. ASSUME NEW t \in SectionIds, NEW x \in ExamItems
      PROVE  <<"item", t, x>> \in Facts(d) <=> <<"item", t, x>> \in G
  <2>1. KeyOf(<<"item", t, x>>) \in SectionKeys(s) <=>
            \E k \in DOMAIN s.items : s.items[k].id = x.id
    BY Keys, SectionFactIn
  <2>2. ASSUME <<t, x>> \in Holdings(c).items
        PROVE  t = s.id <=> \E k \in DOMAIN s.items : s.items[k].id = x.id
    <3>1. ASSUME t = s.id
          PROVE  \E k \in DOMAIN s.items : s.items[k].id = x.id
      <4>1. \E k \in DOMAIN s.items : <<t, x>> = <<s.id, s.items[k]>>
        BY <2>2, <3>1
      <4>2. QED
        BY <4>1
    <3>2. ASSUME NEW k \in DOMAIN s.items, s.items[k].id = x.id
          PROVE  t = s.id
      <4>1. <<s.id, s.items[k]>> \in Holdings(c).items
        OBVIOUS
      <4>2. <<t, x>>[2].id = <<s.id, s.items[k]>>[2].id
        BY <3>2
      <4>3. <<t, x>> = <<s.id, s.items[k]>>
        BY <2>2, <4>1, <4>2, HeldOnce
      <4>4. QED
        BY <4>3
    <3>3. QED
      BY <3>1, <3>2
  <2>3. <<t, x>> \in Holdings(d).items <=> <<t, x>> \in Holdings(c).items /\ t # s.id
    OBVIOUS
  <2>4. QED
    BY <1>3, <2>1, <2>2, <2>3, FactIn
<1>7. Facts(d) = G
  BY <1>1, <1>2, <1>4, <1>5, <1>6, SameFacts
<1>8. QED
  BY <1>7 DEF G

\* A section has another title.
LEMMA TitleOver ==
    ASSUME NEW c \in Contents, NEW d \in Contents, NEW s \in SectionIds,
           NEW title \in Versions,
           Holdings(d).details = Holdings(c).details, Holdings(d).items = Holdings(c).items,
           \A x : x \in Holdings(d).titles <=>
              (x \in Holdings(c).titles /\ x[1] # s) \/ x = <<s, title>>
    PROVE  Facts(d) = Over(Facts(c), {TitleKey(s)}, {<<"title", s, title>>})
<1> DEFINE G == Over(Facts(c), {TitleKey(s)}, {<<"title", s, title>>})
<1>1. /\ Facts(d) \subseteq FactSet /\ Facts(c) \subseteq FactSet
      /\ <<"title", s, title>> \in FactSet
  BY FactIn DEF FactSet
<1>2. G \subseteq FactSet
  BY <1>1 DEF Over
<1>3. \A f : f \in G <=>
          (f \in Facts(c) /\ KeyOf(f) # TitleKey(s)) \/ f = <<"title", s, title>>
  BY DEF Over
<1> HIDE DEF G
<1>4. ASSUME NEW v \in Versions
      PROVE  <<"details", 0, v>> \in Facts(d) <=> <<"details", 0, v>> \in G
  <2>1. KeyOf(<<"details", 0, v>>) # TitleKey(s)
    BY Keys
  <2>2. QED
    BY <1>3, <2>1, FactIn
<1>5. ASSUME NEW t \in SectionIds, NEW v \in Versions
      PROVE  <<"title", t, v>> \in Facts(d) <=> <<"title", t, v>> \in G
  <2>1. KeyOf(<<"title", t, v>>) = TitleKey(s) <=> t = s
    BY Keys
  <2>2. <<t, v>> \in Holdings(d).titles <=>
            (<<t, v>> \in Holdings(c).titles /\ t # s) \/ (t = s /\ v = title)
    OBVIOUS
  <2>3. <<"title", t, v>> = <<"title", s, title>> <=> t = s /\ v = title
    OBVIOUS
  <2>4. QED
    BY <1>3, <2>1, <2>2, <2>3, FactIn
<1>6. ASSUME NEW t \in SectionIds, NEW x \in ExamItems
      PROVE  <<"item", t, x>> \in Facts(d) <=> <<"item", t, x>> \in G
  <2>1. KeyOf(<<"item", t, x>>) # TitleKey(s)
    BY Keys
  <2>2. QED
    BY <1>3, <2>1, FactIn
<1>7. Facts(d) = G
  BY <1>1, <1>2, <1>4, <1>5, <1>6, SameFacts
<1>8. QED
  BY <1>7 DEF G

\* Other details.
LEMMA DetailsOver ==
    ASSUME NEW c \in Contents, NEW d \in Contents, NEW v \in Versions,
           Holdings(d).details = v, Holdings(d).titles = Holdings(c).titles,
           Holdings(d).items = Holdings(c).items
    PROVE  Facts(d) = Over(Facts(c), {DetailsKey}, {<<"details", 0, v>>})
<1> DEFINE G == Over(Facts(c), {DetailsKey}, {<<"details", 0, v>>})
<1>1. /\ Facts(d) \subseteq FactSet /\ Facts(c) \subseteq FactSet
      /\ <<"details", 0, v>> \in FactSet
  BY FactIn DEF FactSet
<1>2. G \subseteq FactSet
  BY <1>1 DEF Over
<1>3. \A f : f \in G <=> (f \in Facts(c) /\ KeyOf(f) # DetailsKey) \/ f = <<"details", 0, v>>
  BY DEF Over
<1> HIDE DEF G
<1>4. ASSUME NEW u \in Versions
      PROVE  <<"details", 0, u>> \in Facts(d) <=> <<"details", 0, u>> \in G
  <2>1. KeyOf(<<"details", 0, u>>) = DetailsKey
    BY Keys
  <2>2. <<"details", 0, u>> \in G <=> u = v
    BY <1>3, <2>1
  <2>3. QED
    BY <2>2, FactIn
<1>5. ASSUME NEW t \in SectionIds, NEW u \in Versions
      PROVE  <<"title", t, u>> \in Facts(d) <=> <<"title", t, u>> \in G
  <2>1. KeyOf(<<"title", t, u>>) # DetailsKey
    BY Keys
  <2>2. QED
    BY <1>3, <2>1, FactIn
<1>6. ASSUME NEW t \in SectionIds, NEW x \in ExamItems
      PROVE  <<"item", t, x>> \in Facts(d) <=> <<"item", t, x>> \in G
  <2>1. KeyOf(<<"item", t, x>>) # DetailsKey
    BY Keys
  <2>2. QED
    BY <1>3, <2>1, FactIn
<1>7. Facts(d) = G
  BY <1>1, <1>2, <1>4, <1>5, <1>6, SameFacts
<1>8. QED
  BY <1>7 DEF G

-------------------------------------------------------------------------------
(* The changes of the proposal on facts: what a change gives, and what the *)
(* original has where it acts.                                             *)

Home(i) == OriginalSite(i).section
ByAI(i) == [id |-> i, version |-> "ai"]

Gives(ch) ==
    CASE ch.kind = "edit_item" -> {<<"item", Home(ch.item.id), ch.after>>}
      [] ch.kind = "move_item" -> {<<"item", ch.to.section, ch.item>>}
      [] ch.kind = "add_item" -> {<<"item", ch.section, ch.item>>}
      [] ch.kind = "add_section" -> SectionFacts(ch.section)
      [] ch.kind = "rename_section" -> {<<"title", ch.section, ch.after>>}
      [] ch.kind = "update_details" -> {<<"details", 0, ch.after>>}
      [] OTHER -> {}

Before(ch) == {f \in Facts(Original) : KeyOf(f) \in KeysOf(ch)}

LEMMA OriginalHolds ==
    /\ Original \in Contents /\ Facts(Original) \subseteq FactSet
    /\ \A v : <<"details", 0, v>> \in Facts(Original) <=> v = "original"
    /\ \A s, v : <<"title", s, v>> \in Facts(Original) <=> s \in {1, 2} /\ v = "original"
    /\ \A s, it : <<"item", s, it>> \in Facts(Original) <=>
          \E i \in OldItems : it = Old(i) /\ s = Home(i)
    /\ \A i \in OldItems : Home(i) \in {1, 2} /\ Home(i) \in SectionIds
<1>1. /\ Original \in Contents /\ DOMAIN Original.sections = {1, 2}
      /\ Original.details = "original"
  BY OriginalFacts
<1>2. \A v : <<"details", 0, v>> \in Facts(Original) <=> v = "original"
  BY <1>1, FactIn, HoldsDetails
<1>3. ASSUME NEW s, NEW v
      PROVE  <<"title", s, v>> \in Facts(Original) <=> s \in {1, 2} /\ v = "original"
  <2>1. \A p \in {1, 2} : Original.sections[p].id = p
          /\ Original.sections[p].title = "original"
    BY OriginalFacts
  <2>2. <<s, v>> \in Holdings(Original).titles <=> s \in {1, 2} /\ v = "original"
    BY <1>1, <2>1, HoldsTitle
  <2>3. QED
    BY <1>1, <2>2, FactIn
<1>4. ASSUME NEW s, NEW it
      PROVE  <<"item", s, it>> \in Facts(Original) <=>
                 \E i \in OldItems : it = Old(i) /\ s = Home(i)
  <2>1. \A p \in {1, 2} :
            /\ Original.sections[p].id = p
            /\ \A k \in DOMAIN Original.sections[p].items : \E i \in OldItems :
                  Original.sections[p].items[k] = Old(i) /\ Home(i) = p
            /\ \A i \in OldItems : Home(i) = p =>
                  \E k \in DOMAIN Original.sections[p].items :
                     Original.sections[p].items[k] = Old(i)
    BY OriginalFacts DEF Home
  <2>2. \A i \in OldItems : Home(i) \in {1, 2}
    BY Items DEF Home
  <2>3. ASSUME <<s, it>> \in Holdings(Original).items
        PROVE  \E i \in OldItems : it = Old(i) /\ s = Home(i)
    <3>1. PICK p \in DOMAIN Original.sections : \E q \in DOMAIN Original.sections[p].items :
              <<s, it>> = <<Original.sections[p].id, Original.sections[p].items[q]>>
      BY <2>3, HoldsItem
    <3>2. PICK q \in DOMAIN Original.sections[p].items :
              <<s, it>> = <<Original.sections[p].id, Original.sections[p].items[q]>>
      BY <3>1
    <3>3. p \in {1, 2}
      BY <1>1
    <3>4. PICK i \in OldItems : Original.sections[p].items[q] = Old(i) /\ Home(i) = p
      BY <2>1, <3>3
    <3>5. s = p /\ it = Old(i)
      BY <2>1, <3>2, <3>3, <3>4
    <3>6. QED
      BY <3>4, <3>5
  <2>4. ASSUME NEW i \in OldItems, it = Old(i), s = Home(i)
        PROVE  <<s, it>> \in Holdings(Original).items
    <3>1. s \in {1, 2}
      BY <2>2, <2>4
    <3>2. PICK k \in DOMAIN Original.sections[s].items : Original.sections[s].items[k] = Old(i)
      BY <2>1, <2>4, <3>1
    <3>3. <<s, it>> = <<Original.sections[s].id, Original.sections[s].items[k]>>
      BY <2>1, <2>4, <3>1, <3>2
    <3>4. s \in DOMAIN Original.sections
      BY <1>1, <3>1
    <3>5. QED
      BY <3>2, <3>3, <3>4, HoldsItem
  <2>5. QED
    BY <1>1, <2>3, <2>4, FactIn
<1>5. ASSUME NEW i \in OldItems
      PROVE  Home(i) \in {1, 2} /\ Home(i) \in SectionIds
  <2>1. Home(i) \in {1, 2}
    BY Items DEF Home
  <2>2. QED
    BY <2>1 DEF SectionIds
<1>6. QED
  BY <1>1, <1>2, <1>3, <1>4, <1>5, FactIn

\* What the original has at the key of one of its items, or of an item of the AI.
LEMMA BeforeItem ==
    ASSUME NEW f \in Facts(Original), NEW i, KeyOf(f) = ItemKey(i)
    PROVE  i \in OldItems /\ f = <<"item", Home(i), Old(i)>>
<1>1. f = <<"item", f[2], f[3]>> /\ f[3].id = i
  BY OriginalHolds, SaysItem
<1>2. PICK j \in OldItems : f[3] = Old(j) /\ f[2] = Home(j)
  BY <1>1, OriginalHolds
<1>3. j = i
  BY <1>1, <1>2, Items
<1>4. QED
  BY <1>1, <1>2, <1>3

LEMMA BeforeTitle ==
    ASSUME NEW f \in Facts(Original), NEW s, KeyOf(f) = TitleKey(s)
    PROVE  s \in {1, 2} /\ f = <<"title", s, "original">>
<1>1. f \in FactSet
  BY OriginalHolds
<1>2. f = <<"title", s, f[3]>>
  BY <1>1 DEF FactSet, KeyOf, TitleKey, ItemKey
<1>3. QED
  BY <1>2, OriginalHolds

LEMMA BeforeDetails ==
    ASSUME NEW f \in Facts(Original), KeyOf(f) = DetailsKey
    PROVE  f = <<"details", 0, "original">>
<1>1. f \in FactSet
  BY OriginalHolds
<1>2. f = <<"details", 0, f[3]>>
  BY <1>1 DEF FactSet, KeyOf, DetailsKey, ItemKey
<1>3. QED
  BY <1>2, OriginalHolds


NewSectionOf(n) == [id |-> NewSection, title |-> "ai", items |-> <<NewItem(n)>>]

LEMMA ItemForms ==
    ASSUME NEW n \in {1, 2}, NEW a, NEW i \in OldItems
    PROVE  /\ EditForm(a, n, i) =>
                 KeysOf(a) = {ItemKey(i)} /\ Gives(a) = {<<"item", Home(i), ByAI(i)>>}
           /\ RemoveForm(a, n, i) => KeysOf(a) = {ItemKey(i)} /\ Gives(a) = {}
           /\ KeysOf(a) = {ItemKey(i)} => Before(a) = {<<"item", Home(i), Old(i)>>}
<1>1. Old(i).id = i
  BY Items
<1>2. ASSUME EditForm(a, n, i)
      PROVE  KeysOf(a) = {ItemKey(i)} /\ Gives(a) = {<<"item", Home(i), ByAI(i)>>}
  <2>1. a.kind = "edit_item" /\ a.item = Old(i) /\ a.after = ByAI(i)
    BY <1>2 DEF EditForm, ByAI
  <2>2. QED
    BY <1>1, <2>1 DEF KeysOf, Gives
<1>3. ASSUME RemoveForm(a, n, i)
      PROVE  KeysOf(a) = {ItemKey(i)} /\ Gives(a) = {}
  <2>1. a.kind = "remove_item" /\ a.item = Old(i)
    BY <1>3 DEF RemoveForm
  <2>2. QED
    BY <1>1, <2>1 DEF KeysOf, Gives
<1>5. ASSUME KeysOf(a) = {ItemKey(i)}
      PROVE  Before(a) = {<<"item", Home(i), Old(i)>>}
  <2>1. \A f \in Before(a) : f = <<"item", Home(i), Old(i)>>
    BY <1>5, BeforeItem DEF Before
  <2>2. <<"item", Home(i), Old(i)>> \in Facts(Original)
    BY OriginalHolds
  <2>3. KeyOf(<<"item", Home(i), Old(i)>>) = ItemKey(i)
    BY <1>1, Keys
  <2>4. <<"item", Home(i), Old(i)>> \in Before(a)
    BY <1>5, <2>2, <2>3 DEF Before
  <2>5. QED
    BY <2>1, <2>4
<1>6. QED
  BY <1>2, <1>3, <1>5

LEMMA MoveForms ==
    ASSUME NEW n \in {1, 2}, NEW a, NEW i \in OldItems, NEW to \in Sites, MoveForm(a, n, i, to)
    PROVE  /\ KeysOf(a) = {ItemKey(i)} /\ Gives(a) = {<<"item", to.section, Old(i)>>}
           /\ to.section \in {1, 2} /\ to.section \in SectionIds
<1>1. Old(i).id = i
  BY Items
<1>2. a.kind = "move_item" /\ a.item = Old(i) /\ a.to = to
  BY DEF MoveForm
<1>3. KeysOf(a) = {ItemKey(i)} /\ Gives(a) = {<<"item", to.section, Old(i)>>}
  BY <1>1, <1>2 DEF KeysOf, Gives
<1>4. to.section \in {1, 2}
  BY Items
<1>5. QED
  BY <1>3, <1>4 DEF SectionIds

LEMMA AddForms ==
    ASSUME NEW n \in {1, 2}, NEW a
    PROVE  /\ \A to \in Sites : AddForm(a, n, to) =>
                 /\ KeysOf(a) = {ItemKey(NewItem(n).id)}
                 /\ Gives(a) = {<<"item", to.section, NewItem(n)>>}
                 /\ Before(a) = {}
           /\ \A index \in Positions : AddSectionForm(a, n, index) =>
                 /\ a.section = NewSectionOf(n)
                 /\ KeysOf(a) = {TitleKey(NewSection), ItemKey(NewItem(n).id)}
                 /\ Gives(a) = SectionFacts(a.section)
                 /\ Gives(a) = {<<"title", NewSection, "ai">>,
                             <<"item", NewSection, NewItem(n)>>}
                 /\ Before(a) = {}
<1>1. ASSUME NEW f \in Facts(Original)
      PROVE  KeyOf(f) # ItemKey(NewItem(n).id) /\ KeyOf(f) # TitleKey(NewSection)
  <2>1. NewItem(n).id \notin OldItems
    BY Items
  <2>2. NewSection \notin {1, 2}
    BY DEF NewSection
  <2>3. QED
    BY <2>1, <2>2, BeforeItem, BeforeTitle
<1>2. ASSUME NEW to \in Sites, AddForm(a, n, to)
      PROVE  /\ KeysOf(a) = {ItemKey(NewItem(n).id)}
             /\ Gives(a) = {<<"item", to.section, NewItem(n)>>}
             /\ Before(a) = {}
  <2>1. a.kind = "add_item" /\ a.item = NewItem(n) /\ a.section = to.section
    BY <1>2 DEF AddForm
  <2>2. KeysOf(a) = {ItemKey(NewItem(n).id)} /\ Gives(a) = {<<"item", to.section, NewItem(n)>>}
    BY <2>1 DEF KeysOf, Gives
  <2>3. QED
    BY <1>1, <2>2 DEF Before
<1>3. ASSUME NEW index \in Positions, AddSectionForm(a, n, index)
      PROVE  /\ a.section = NewSectionOf(n)
             /\ KeysOf(a) = {TitleKey(NewSection), ItemKey(NewItem(n).id)}
             /\ Gives(a) = SectionFacts(a.section)
             /\ Gives(a) = {<<"title", NewSection, "ai">>, <<"item", NewSection, NewItem(n)>>}
             /\ Before(a) = {}
  <2>1. a.kind = "add_section" /\ a.section = NewSectionOf(n)
    BY <1>3 DEF AddSectionForm, NewSectionOf
  <2>2. KeysOf(a) = SectionKeys(a.section) /\ Gives(a) = SectionFacts(a.section)
    BY <2>1 DEF KeysOf, Gives
  <2>3. /\ a.section.id = NewSection /\ a.section.title = "ai"
        /\ DOMAIN a.section.items = {1} /\ a.section.items[1] = NewItem(n)
    BY <2>1 DEF NewSectionOf
  <2>4. KeysOf(a) = {TitleKey(NewSection), ItemKey(NewItem(n).id)}
    BY <2>2, <2>3 DEF SectionKeys
  <2>5. Gives(a) = {<<"title", NewSection, "ai">>, <<"item", NewSection, NewItem(n)>>}
    BY <2>2, <2>3 DEF SectionFacts
  <2>6. Before(a) = {}
    BY <1>1, <2>4 DEF Before
  <2>7. QED
    BY <2>1, <2>2, <2>4, <2>5, <2>6
<1>4. QED
  BY <1>2, <1>3

LEMMA SectionForms ==
    ASSUME NEW n \in {1, 2}, NEW a, NEW s \in {1, 2}
    PROVE  /\ RemoveSectionForm(a, n, s) =>
                 /\ a.section = Original.sections[s] /\ a.section.id = s
                 /\ KeysOf(a) = SectionKeys(a.section) /\ Gives(a) = {}
                 /\ \A i : ItemKey(i) \in KeysOf(a) <=> i \in OldItems /\ Home(i) = s
                 /\ \A t : TitleKey(t) \in KeysOf(a) <=> t = s
                 /\ \A k \in KeysOf(a) :
                       k = TitleKey(s) \/ \E i \in OldItems : Home(i) = s /\ k = ItemKey(i)
                 /\ Before(a) = SectionFacts(a.section)
           /\ RenameForm(a, n, s) =>
                 /\ KeysOf(a) = {TitleKey(s)} /\ Gives(a) = {<<"title", s, "ai">>}
                 /\ Before(a) = {<<"title", s, "original">>}
           /\ DetailsForm(a, n) =>
                 /\ KeysOf(a) = {DetailsKey} /\ Gives(a) = {<<"details", 0, "ai">>}
                 /\ Before(a) = {<<"details", 0, "original">>}
<1>1. ASSUME RemoveSectionForm(a, n, s)
      PROVE  /\ a.section = Original.sections[s] /\ a.section.id = s
             /\ KeysOf(a) = SectionKeys(a.section) /\ Gives(a) = {}
             /\ \A i : ItemKey(i) \in KeysOf(a) <=> i \in OldItems /\ Home(i) = s
             /\ \A t : TitleKey(t) \in KeysOf(a) <=> t = s
             /\ \A k \in KeysOf(a) :
                   k = TitleKey(s) \/ \E i \in OldItems : Home(i) = s /\ k = ItemKey(i)
             /\ Before(a) = SectionFacts(a.section)
  <2> DEFINE o == Original.sections[s]
  <2>1. a.kind = "remove_section" /\ a.section = o
    BY <1>1 DEF RemoveSectionForm
  <2>2. KeysOf(a) = SectionKeys(o) /\ Gives(a) = {}
    BY <2>1 DEF KeysOf, Gives
  <2>3. o \in ExamSections /\ o.id = s /\ o.title = "original"
    BY OriginalFacts
  <2>4. \A k \in DOMAIN o.items : \E i \in OldItems : o.items[k] = Old(i) /\ Home(i) = s
    BY OriginalFacts DEF Home
  <2>5. \A i \in OldItems : Home(i) = s => \E k \in DOMAIN o.items : o.items[k] = Old(i)
    BY OriginalFacts DEF Home
  <2> HIDE DEF o
  <2>a. \A i \in OldItems : Old(i).id = i
    BY Items
  <2>6. ASSUME NEW i
        PROVE  ItemKey(i) \in KeysOf(a) <=> i \in OldItems /\ Home(i) = s
    <3>1. ItemKey(i) \in KeysOf(a) <=> \E k \in DOMAIN o.items : o.items[k].id = i
      BY <2>2, <2>3, SectionFactIn
    <3>2. QED
      BY <2>4, <2>5, <2>a, <3>1
  <2>7. \A t : TitleKey(t) \in KeysOf(a) <=> t = s
    BY <2>2, <2>3, SectionFactIn
  <2>8. ASSUME NEW k \in KeysOf(a)
        PROVE  k = TitleKey(s) \/ \E i \in OldItems : Home(i) = s /\ k = ItemKey(i)
    <3>1. k = TitleKey(s) \/ \E q \in DOMAIN o.items : k = ItemKey(o.items[q].id)
      BY <2>2, <2>3 DEF SectionKeys
    <3>2. QED
      BY <2>4, <2>a, <3>1
  <2>9. Before(a) = SectionFacts(o)
    <3>1. ASSUME NEW f \in Before(a)
          PROVE  f \in SectionFacts(o)
      <4>1. f \in Facts(Original) /\ KeyOf(f) \in KeysOf(a)
        BY DEF Before
      <4>2. CASE KeyOf(f) = TitleKey(s)
        <5>1. f = <<"title", s, "original">>
          BY <4>1, <4>2, BeforeTitle
        <5>2. QED
          BY <2>3, <5>1 DEF SectionFacts
      <4>3. ASSUME NEW i \in OldItems, Home(i) = s, KeyOf(f) = ItemKey(i)
            PROVE  f \in SectionFacts(o)
        <5>1. f = <<"item", s, Old(i)>>
          BY <4>1, <4>3, BeforeItem
        <5>2. PICK k \in DOMAIN o.items : o.items[k] = Old(i)
          BY <2>5, <4>3
        <5>3. QED
          BY <2>3, <5>1, <5>2 DEF SectionFacts
      <4>4. QED
        BY <2>8, <4>1, <4>2, <4>3
    <3>2. ASSUME NEW f \in SectionFacts(o)
          PROVE  f \in Before(a)
      <4>1. KeyOf(f) \in KeysOf(a)
        BY <2>2, <2>3, SectionFactIn
      <4>2. CASE f = <<"title", o.id, o.title>>
        BY <2>3, <4>1, <4>2, OriginalHolds DEF Before
      <4>3. CASE f \in {<<"item", o.id, o.items[k]>> : k \in DOMAIN o.items}
        <5>1. PICK k \in DOMAIN o.items : f = <<"item", s, o.items[k]>>
          BY <2>3, <4>3
        <5>2. PICK i \in OldItems : o.items[k] = Old(i) /\ Home(i) = s
          BY <2>4
        <5>3. f \in Facts(Original)
          BY <5>1, <5>2, OriginalHolds
        <5>4. QED
          BY <4>1, <5>3 DEF Before
      <4>4. QED
        BY <4>2, <4>3 DEF SectionFacts
    <3>3. QED
      BY <3>1, <3>2
  <2>10. QED
    BY <2>1, <2>2, <2>3, <2>6, <2>7, <2>8, <2>9 DEF o
<1>2. ASSUME RenameForm(a, n, s)
      PROVE  /\ KeysOf(a) = {TitleKey(s)} /\ Gives(a) = {<<"title", s, "ai">>}
             /\ Before(a) = {<<"title", s, "original">>}
  <2>1. a.kind = "rename_section" /\ a.section = s /\ a.after = "ai"
    BY <1>2 DEF RenameForm
  <2>2. KeysOf(a) = {TitleKey(s)} /\ Gives(a) = {<<"title", s, "ai">>}
    BY <2>1 DEF KeysOf, Gives
  <2>3. \A f \in Before(a) : f = <<"title", s, "original">>
    BY <2>2, BeforeTitle DEF Before
  <2>4. KeyOf(<<"title", s, "original">>) = TitleKey(s)
    BY Keys
  <2>5. <<"title", s, "original">> \in Before(a)
    BY <2>2, <2>4, OriginalHolds DEF Before
  <2>6. QED
    BY <2>2, <2>3, <2>5
<1>3. ASSUME DetailsForm(a, n)
      PROVE  /\ KeysOf(a) = {DetailsKey} /\ Gives(a) = {<<"details", 0, "ai">>}
             /\ Before(a) = {<<"details", 0, "original">>}
  <2>1. a.kind = "update_details" /\ a.after = "ai"
    BY <1>3 DEF DetailsForm
  <2>2. KeysOf(a) = {DetailsKey} /\ Gives(a) = {<<"details", 0, "ai">>}
    BY <2>1 DEF KeysOf, Gives
  <2>3. \A f \in Before(a) : f = <<"details", 0, "original">>
    BY <2>2, BeforeDetails DEF Before
  <2>4. KeyOf(<<"details", 0, "original">>) = DetailsKey
    BY Keys
  <2>5. <<"details", 0, "original">> \in Before(a)
    BY <2>2, <2>4, OriginalHolds DEF Before
  <2>6. QED
    BY <2>2, <2>3, <2>5
<1>4. QED
  BY <1>1, <1>2, <1>3


\* The facts when some changes of the proposal are there: theirs, and those of the original
\* where none of them acts.
HeldWith(S) ==
    {f \in Facts(Original) : \A n \in S : KeyOf(f) \notin KeysOf(proposal[n])}
    \cup UNION {Gives(proposal[n]) : n \in S}

LEMMA InHeldWith ==
    ASSUME NEW S, NEW f
    PROVE  f \in HeldWith(S) <=>
              \/ f \in Facts(Original) /\ \A n \in S : KeyOf(f) \notin KeysOf(proposal[n])
              \/ \E n \in S : f \in Gives(proposal[n])
BY DEF HeldWith

LEMMA GivesKeys ==
    ASSUME NEW n \in {1, 2}, NEW a, Form(a, n), NEW f \in Gives(a)
    PROVE  KeyOf(f) \in KeysOf(a) /\ f \in FactSet
<1>1. CASE \E i \in OldItems : EditForm(a, n, i)
  <2>1. PICK i \in OldItems : EditForm(a, n, i)
    BY <1>1
  <2>2. KeysOf(a) = {ItemKey(i)} /\ f = <<"item", Home(i), ByAI(i)>>
    BY <2>1, ItemForms
  <2>3. ByAI(i).id = i /\ ByAI(i) \in ExamItems /\ Home(i) \in SectionIds
    BY Items, OriginalHolds DEF ByAI
  <2>4. QED
    BY <2>2, <2>3, Keys DEF FactSet
<1>2. CASE \E i \in OldItems : RemoveForm(a, n, i)
  BY <1>2, ItemForms
<1>3. CASE \E i \in OldItems : \E to \in Sites : MoveForm(a, n, i, to)
  <2>1. PICK i \in OldItems : \E to \in Sites : MoveForm(a, n, i, to)
    BY <1>3
  <2>2. PICK to \in Sites : MoveForm(a, n, i, to)
    BY <2>1
  <2>3. KeysOf(a) = {ItemKey(i)} /\ f = <<"item", to.section, Old(i)>>
    BY <2>2, MoveForms
  <2>b. Old(i).id = i /\ Old(i) \in ExamItems
    BY Items
  <2>4. Old(i).id = i /\ Old(i) \in ExamItems /\ to.section \in SectionIds
    BY <2>2, <2>b, MoveForms
  <2>5. QED
    BY <2>3, <2>4, Keys DEF FactSet
<1>4. CASE \E to \in Sites : AddForm(a, n, to)
  <2>1. PICK to \in Sites : AddForm(a, n, to)
    BY <1>4
  <2>2. KeysOf(a) = {ItemKey(NewItem(n).id)} /\ f = <<"item", to.section, NewItem(n)>>
    BY <2>1, AddForms
  <2>3. NewItem(n) \in ExamItems /\ to.section \in SectionIds
    BY Items DEF SectionIds
  <2>4. QED
    BY <2>2, <2>3, Keys DEF FactSet
<1>5. CASE \E index \in Positions : AddSectionForm(a, n, index)
  <2>1. PICK index \in Positions : AddSectionForm(a, n, index)
    BY <1>5
  <2>2. /\ KeysOf(a) = {TitleKey(NewSection), ItemKey(NewItem(n).id)}
        /\ f \in {<<"title", NewSection, "ai">>, <<"item", NewSection, NewItem(n)>>}
    BY <2>1, AddForms
  <2>3. NewItem(n) \in ExamItems /\ NewSection \in SectionIds /\ "ai" \in Versions
    BY Items DEF SectionIds, NewSection, Versions
  <2>4. QED
    BY <2>2, <2>3, Keys DEF FactSet
<1>6. CASE \E s \in {1, 2} : RemoveSectionForm(a, n, s)
  BY <1>6, SectionForms
<1>7. CASE \E s \in {1, 2} : RenameForm(a, n, s)
  <2>1. PICK s \in {1, 2} : RenameForm(a, n, s)
    BY <1>7
  <2>2. KeysOf(a) = {TitleKey(s)} /\ f = <<"title", s, "ai">>
    BY <2>1, SectionForms
  <2>3. s \in SectionIds /\ "ai" \in Versions
    BY DEF SectionIds, Versions
  <2>4. QED
    BY <2>2, <2>3, Keys DEF FactSet
<1>8. CASE DetailsForm(a, n)
  <2>1. KeysOf(a) = {DetailsKey} /\ f = <<"details", 0, "ai">>
    BY <1>8, SectionForms
  <2>2. "ai" \in Versions
    BY DEF Versions
  <2>3. QED
    BY <2>1, <2>2, Keys DEF FactSet
<1>9. QED
  BY <1>1, <1>2, <1>3, <1>4, <1>5, <1>6, <1>7, <1>8 DEF Form

\* A change of an item, and the item.
TouchesItem(ch, i) ==
    ch.kind \in {"edit_item", "remove_item", "move_item"} /\ ch.item = Old(i)

\* No other change says anything of an item that one touches.
LEMMA ItemAlone ==
    ASSUME proposal \in Proposals, NEW n \in DOMAIN proposal, NEW m \in DOMAIN proposal, n # m,
           NEW i \in OldItems, TouchesItem(proposal[n], i), NEW f \in Gives(proposal[m])
    PROVE  KeyOf(f) # ItemKey(i)
<1> DEFINE b == proposal[m]
<1>1. m \in {1, 2} /\ Form(b, m)
  BY ProposalForms
<1>2. Touched(proposal[n]) = {<<"item", i>>}
  BY Items DEF Touched, TouchesItem
<1>3. <<"item", i>> \notin Touched(b)
  BY <1>2, ProposalApart
<1> HIDE DEF b
<1>4. KeyOf(f) \in KeysOf(b)
  BY <1>1, GivesKeys DEF b
<1>5. CASE \E j \in OldItems : EditForm(b, m, j)
  <2>1. PICK j \in OldItems : EditForm(b, m, j)
    BY <1>5
  <2>2. Touched(b) = {<<"item", j>>}
    <3>1. b.kind = "edit_item" /\ b.item = Old(j) /\ Old(j).id = j
      BY <2>1, Items DEF EditForm
    <3>2. QED
      BY <3>1 DEF Touched
  <2>3. KeysOf(b) = {ItemKey(j)}
    BY <1>1, <2>1, ItemForms
  <2>4. QED
    BY <1>3, <1>4, <2>2, <2>3, Keys
<1>6. CASE \E j \in OldItems : RemoveForm(b, m, j)
  <2>1. Gives(b) = {}
    BY <1>1, <1>6, ItemForms
  <2>2. QED
    BY <2>1 DEF b
<1>7. CASE \E j \in OldItems : \E to \in Sites : MoveForm(b, m, j, to)
  <2>0. PICK j \in OldItems : \E to \in Sites : MoveForm(b, m, j, to)
    BY <1>7
  <2>1. PICK to \in Sites : MoveForm(b, m, j, to)
    BY <2>0
  <2>2. Touched(b) = {<<"item", j>>}
    <3>0. Old(j).id = j
      BY Items
    <3>1. b.kind = "move_item" /\ b.item = Old(j) /\ Old(j).id = j
      BY <2>1, <3>0 DEF MoveForm
    <3>2. QED
      BY <3>1 DEF Touched
  <2>a. m \in {1, 2}
    BY <1>1
  <2>3. KeysOf(b) = {ItemKey(j)}
    BY <2>1, <2>a, MoveForms
  <2>4. QED
    BY <1>3, <1>4, <2>2, <2>3, Keys
<1>8. ASSUME KeyOf(f) \in {TitleKey(NewSection), ItemKey(NewItem(m).id)}
      PROVE  KeyOf(f) # ItemKey(i)
  <2>1. NewItem(m).id # i
    BY <1>1, Items
  <2>2. QED
    BY <1>8, <2>1, Keys
<1>9. CASE \E to \in Sites : AddForm(b, m, to)
  BY <1>1, <1>4, <1>8, <1>9, AddForms
<1>10. CASE \E index \in Positions : AddSectionForm(b, m, index)
  BY <1>1, <1>4, <1>8, <1>10, AddForms
<1>11. CASE \E s \in {1, 2} : RemoveSectionForm(b, m, s)
  <2>1. Gives(b) = {}
    BY <1>1, <1>11, SectionForms
  <2>2. QED
    BY <2>1 DEF b
<1>12. CASE \E s \in {1, 2} : RenameForm(b, m, s)
  BY <1>1, <1>4, <1>12, SectionForms, Keys
<1>13. CASE DetailsForm(b, m)
  BY <1>1, <1>4, <1>13, SectionForms, Keys
<1>14. QED
  BY <1>1, <1>5, <1>6, <1>7, <1>9, <1>10, <1>11, <1>12, <1>13 DEF Form

\* Such an item is where the original has it, or where the change leaves it.
LEMMA ItemLocated ==
    ASSUME proposal \in Proposals, NEW n \in DOMAIN proposal, NEW i \in OldItems,
           TouchesItem(proposal[n], i), NEW S \in SUBSET DOMAIN proposal,
           NEW f \in HeldWith(S), KeyOf(f) = ItemKey(i)
    PROVE  f = <<"item", Home(i), Old(i)>> \/ f \in Gives(proposal[n])
<1>1. CASE f \in Facts(Original)
  BY <1>1, BeforeItem
<1>2. CASE \E m \in S : f \in Gives(proposal[m])
  BY <1>2, ItemAlone
<1>3. QED
  BY <1>1, <1>2, InHeldWith

-------------------------------------------------------------------------------
(* What a change that applies does to the facts.                           *)

LEMMA OnlyHolder ==
    ASSUME NEW c \in Contents, Distinct(c), NEW s, NEW it, <<s, it>> \in Holdings(c).items
    PROVE  \A x \in Holdings(c).items : x # <<s, it>> <=> x[2].id # it.id
<1>1. <<s, it>>[2] = it
  OBVIOUS
<1>2. ASSUME NEW x \in Holdings(c).items, x[2].id = it.id
      PROVE  x = <<s, it>>
  BY <1>1, <1>2, HeldOnce
<1>3. QED
  BY <1>1, <1>2

LEMMA EditOver ==
    ASSUME NEW c \in Contents, Distinct(c), NEW ch, IsEdit(ch), CanApply(c, ch)
    PROVE  \E s \in SectionIds :
              /\ <<"item", s, ch.item>> \in Facts(c)
              /\ Facts(ApplyChange(c, ch))
                    = Over(Facts(c), {ItemKey(ch.item.id)}, {<<"item", s, ch.after>>})
<1> DEFINE d == ApplyChange(c, ch)
<1>1. /\ d \in Contents
      /\ Holdings(d).details = Holdings(c).details
      /\ Holdings(d).titles = Holdings(c).titles
      /\ \E s \in SectionIds :
            /\ <<s, ch.item>> \in Holdings(c).items
            /\ \A x : x \in Holdings(d).items <=>
                  (x \in Holdings(c).items /\ x # <<s, ch.item>>) \/ x = <<s, ch.after>>
  BY EditApplies
<1> HIDE DEF d
<1>2. PICK s \in SectionIds :
          /\ <<s, ch.item>> \in Holdings(c).items
          /\ \A x : x \in Holdings(d).items <=>
                (x \in Holdings(c).items /\ x # <<s, ch.item>>) \/ x = <<s, ch.after>>
  BY <1>1
<1>3. ch.after \in ExamItems /\ ch.after.id = ch.item.id
  BY DEF IsEdit
<1>4. \A x : x \in Holdings(d).items <=>
          (x \in Holdings(c).items /\ x[2].id # ch.after.id) \/ x = <<s, ch.after>>
  BY <1>2, <1>3, OnlyHolder
<1>5. Facts(d) = Over(Facts(c), {ItemKey(ch.after.id)}, {<<"item", s, ch.after>>})
  BY <1>1, <1>3, <1>4, ItemOver
<1>6. <<"item", s, ch.item>> \in Facts(c)
  BY <1>2, FactIn
<1>7. QED
  BY <1>3, <1>5, <1>6 DEF d

LEMMA RemoveOver ==
    ASSUME NEW c \in Contents, Distinct(c), NEW ch, IsRemove(ch), CanApply(c, ch)
    PROVE  /\ \E s \in SectionIds : <<"item", s, ch.item>> \in Facts(c)
           /\ Facts(ApplyChange(c, ch)) = Over(Facts(c), {ItemKey(ch.item.id)}, {})
<1> DEFINE d == ApplyChange(c, ch)
<1>1. /\ d \in Contents
      /\ Holdings(d).details = Holdings(c).details
      /\ Holdings(d).titles = Holdings(c).titles
      /\ \E s \in SectionIds :
            /\ <<s, ch.item>> \in Holdings(c).items
            /\ \A x : x \in Holdings(d).items <=>
                  x \in Holdings(c).items /\ x # <<s, ch.item>>
  BY RemoveApplies
<1> HIDE DEF d
<1>2. PICK s \in SectionIds :
          /\ <<s, ch.item>> \in Holdings(c).items
          /\ \A x : x \in Holdings(d).items <=>
                x \in Holdings(c).items /\ x # <<s, ch.item>>
  BY <1>1
<1>3. \A x : x \in Holdings(d).items <=> x \in Holdings(c).items /\ x[2].id # ch.item.id
  BY <1>2, OnlyHolder
<1>4. Facts(d) = Over(Facts(c), {ItemKey(ch.item.id)}, {})
  BY <1>1, <1>3, ItemAway
<1>5. <<"item", s, ch.item>> \in Facts(c)
  BY <1>2, FactIn
<1>6. QED
  BY <1>4, <1>5 DEF d

LEMMA MoveOver ==
    ASSUME NEW c \in Contents, Distinct(c), NEW ch, IsMove(ch), CanApply(c, ch)
    PROVE  /\ Says(Facts(c), TitleKey(ch.to.section))
           /\ \E s \in SectionIds : \E it \in ExamItems :
                 /\ it.id = ch.item.id /\ <<"item", s, it>> \in Facts(c)
                 /\ Facts(ApplyChange(c, ch))
                       = Over(Facts(c), {ItemKey(it.id)}, {<<"item", ch.to.section, it>>})
<1> DEFINE d == ApplyChange(c, ch)
<1>1. /\ d \in Contents
      /\ Holdings(d).details = Holdings(c).details
      /\ Holdings(d).titles = Holdings(c).titles
      /\ HasSection(c, ch.to.section)
      /\ \E s \in SectionIds : \E it \in ExamItems :
            /\ it.id = ch.item.id /\ <<s, it>> \in Holdings(c).items
            /\ \A x : x \in Holdings(d).items <=>
                  (x \in Holdings(c).items /\ x # <<s, it>>) \/ x = <<ch.to.section, it>>
  BY MoveApplies
<1> HIDE DEF d
<1>2. PICK s \in SectionIds : \E it \in ExamItems :
            /\ it.id = ch.item.id /\ <<s, it>> \in Holdings(c).items
            /\ \A x : x \in Holdings(d).items <=>
                  (x \in Holdings(c).items /\ x # <<s, it>>) \/ x = <<ch.to.section, it>>
  BY <1>1
<1>3. PICK it \in ExamItems :
            /\ it.id = ch.item.id /\ <<s, it>> \in Holdings(c).items
            /\ \A x : x \in Holdings(d).items <=>
                  (x \in Holdings(c).items /\ x # <<s, it>>) \/ x = <<ch.to.section, it>>
  BY <1>2
<1>4. \A x : x \in Holdings(d).items <=>
          (x \in Holdings(c).items /\ x[2].id # it.id) \/ x = <<ch.to.section, it>>
  BY <1>3, OnlyHolder
<1>5. ch.to.section \in SectionIds
  BY DEF IsMove
<1>6. Facts(d) = Over(Facts(c), {ItemKey(it.id)}, {<<"item", ch.to.section, it>>})
  BY <1>1, <1>4, <1>5, ItemOver
<1>7. <<"item", s, it>> \in Facts(c)
  BY <1>3, FactIn
<1>8. Says(Facts(c), TitleKey(ch.to.section))
  BY <1>1, SaysSection
<1>9. QED
  BY <1>3, <1>6, <1>7, <1>8 DEF d

LEMMA AddOver ==
    ASSUME NEW c \in Contents, Distinct(c), NEW ch, IsAdd(ch), CanApply(c, ch)
    PROVE  /\ Says(Facts(c), TitleKey(ch.section)) /\ ~Says(Facts(c), ItemKey(ch.item.id))
           /\ Facts(ApplyChange(c, ch))
                 = Over(Facts(c), {ItemKey(ch.item.id)}, {<<"item", ch.section, ch.item>>})
<1> DEFINE d == ApplyChange(c, ch)
<1>1. /\ d \in Contents
      /\ Holdings(d).details = Holdings(c).details
      /\ Holdings(d).titles = Holdings(c).titles
      /\ HasSection(c, ch.section) /\ Places(c, ch.item.id) = {}
      /\ \A x : x \in Holdings(d).items <=>
            x \in Holdings(c).items \/ x = <<ch.section, ch.item>>
  BY AddApplies
<1> HIDE DEF d
<1>2. \A x \in Holdings(c).items : x[2].id # ch.item.id
  BY <1>1, ItemHeld
<1>3. \A x : x \in Holdings(d).items <=>
          (x \in Holdings(c).items /\ x[2].id # ch.item.id) \/ x = <<ch.section, ch.item>>
  BY <1>1, <1>2
<1>4. ch.section \in SectionIds /\ ch.item \in ExamItems
  BY DEF IsAdd
<1>5. Facts(d) = Over(Facts(c), {ItemKey(ch.item.id)}, {<<"item", ch.section, ch.item>>})
  BY <1>1, <1>3, <1>4, ItemOver
<1>6. Says(Facts(c), TitleKey(ch.section)) /\ ~Says(Facts(c), ItemKey(ch.item.id))
  BY <1>1, SaysSection, SaysItem
<1>7. QED
  BY <1>5, <1>6 DEF d

LEMMA AddSectionOver ==
    ASSUME NEW c \in Contents, Distinct(c), NEW ch, IsAddSection(ch), CanApply(c, ch),
           Free(c, ch.section)
    PROVE  /\ ~Says(Facts(c), TitleKey(ch.section.id))
           /\ Facts(ApplyChange(c, ch))
                 = Over(Facts(c), SectionKeys(ch.section), SectionFacts(ch.section))
<1> DEFINE d == ApplyChange(c, ch)
<1>1. /\ d \in Contents
      /\ Holdings(d).details = Holdings(c).details
      /\ ~HasSection(c, ch.section.id)
      /\ \A x : x \in Holdings(d).titles <=>
            x \in Holdings(c).titles \/ x = <<ch.section.id, ch.section.title>>
      /\ \A x : x \in Holdings(d).items <=>
            \/ x \in Holdings(c).items
            \/ \E k \in DOMAIN ch.section.items : x = <<ch.section.id, ch.section.items[k]>>
  BY AddSectionApplies
<1> HIDE DEF d
<1>2. ch.section \in ExamSections
  BY DEF IsAddSection
<1>3. Facts(d) = Over(Facts(c), SectionKeys(ch.section), SectionFacts(ch.section))
  BY <1>1, <1>2, SectionOver
<1>4. ~Says(Facts(c), TitleKey(ch.section.id))
  BY <1>1, SaysSection
<1>5. QED
  BY <1>3, <1>4 DEF d

LEMMA RemoveSectionOver ==
    ASSUME NEW c \in Contents, Distinct(c), NEW ch, IsRemoveSection(ch), CanApply(c, ch)
    PROVE  /\ Says(Facts(c), TitleKey(ch.section.id))
           /\ \A x : <<"item", ch.section.id, x>> \in Facts(c) <=>
                 \E k \in DOMAIN ch.section.items : x = ch.section.items[k]
           /\ Facts(ApplyChange(c, ch)) = Over(Facts(c), SectionKeys(ch.section), {})
<1> DEFINE d == ApplyChange(c, ch)
           s == ch.section
<1>1. /\ d \in Contents
      /\ Holdings(d).details = Holdings(c).details
      /\ HasSection(c, s.id)
      /\ \A x : x \in Holdings(d).titles <=> x \in Holdings(c).titles /\ x[1] # s.id
      /\ \A x : x \in Holdings(d).items <=> x \in Holdings(c).items /\ x[1] # s.id
      /\ \A x : x \in Holdings(c).items /\ x[1] = s.id <=>
            \E k \in DOMAIN s.items : x = <<s.id, s.items[k]>>
  BY RemoveSectionApplies
<1>2. s \in ExamSections
  BY DEF IsRemoveSection
<1> HIDE DEF d, s
<1>3. Facts(d) = Over(Facts(c), SectionKeys(s), {})
  BY <1>1, <1>2, SectionAway
<1>4. Says(Facts(c), TitleKey(s.id))
  BY <1>1, SaysSection
<1>5. ASSUME NEW x
      PROVE  <<"item", s.id, x>> \in Facts(c) <=> \E k \in DOMAIN s.items : x = s.items[k]
  <2>1. <<"item", s.id, x>> \in Facts(c) <=> <<s.id, x>> \in Holdings(c).items
    BY FactIn
  <2>2. <<s.id, x>>[1] = s.id
    OBVIOUS
  <2>3. <<s.id, x>> \in Holdings(c).items <=>
            \E k \in DOMAIN s.items : <<s.id, x>> = <<s.id, s.items[k]>>
    BY <1>1, <2>2
  <2>4. QED
    BY <2>1, <2>3
<1>6. QED
  BY <1>3, <1>4, <1>5 DEF d, s

LEMMA RenameOver ==
    ASSUME NEW c \in Contents, Distinct(c), NEW ch, IsRename(ch), CanApply(c, ch)
    PROVE  /\ <<"title", ch.section, ch.before>> \in Facts(c)
           /\ Facts(ApplyChange(c, ch))
                 = Over(Facts(c), {TitleKey(ch.section)}, {<<"title", ch.section, ch.after>>})
<1> DEFINE d == ApplyChange(c, ch)
<1>1. /\ d \in Contents
      /\ Holdings(d).details = Holdings(c).details
      /\ <<ch.section, ch.before>> \in Holdings(c).titles
      /\ \A x : x \in Holdings(d).titles <=>
            \/ x \in Holdings(c).titles /\ x[1] # ch.section
            \/ x = <<ch.section, ch.after>>
      /\ Holdings(d).items = Holdings(c).items
  BY RenameApplies
<1> HIDE DEF d
<1>2. ch.section \in SectionIds /\ ch.after \in Versions
  BY DEF IsRename
<1>3. Facts(d) = Over(Facts(c), {TitleKey(ch.section)}, {<<"title", ch.section, ch.after>>})
  BY <1>1, <1>2, TitleOver
<1>4. <<"title", ch.section, ch.before>> \in Facts(c)
  BY <1>1, FactIn
<1>5. QED
  BY <1>3, <1>4 DEF d

LEMMA DetailsChangeOver ==
    ASSUME NEW c \in Contents, Distinct(c), NEW ch, IsDetails(ch), CanApply(c, ch)
    PROVE  /\ <<"details", 0, ch.before>> \in Facts(c)
           /\ Facts(ApplyChange(c, ch))
                 = Over(Facts(c), {DetailsKey}, {<<"details", 0, ch.after>>})
<1> DEFINE d == ApplyChange(c, ch)
<1>1. /\ d \in Contents
      /\ Holdings(c).details = ch.before /\ Holdings(d).details = ch.after
      /\ Holdings(d).titles = Holdings(c).titles
      /\ Holdings(d).items = Holdings(c).items
  BY DetailsApplies
<1> HIDE DEF d
<1>2. ch.after \in Versions
  BY DEF IsDetails
<1>3. Facts(d) = Over(Facts(c), {DetailsKey}, {<<"details", 0, ch.after>>})
  BY <1>1, <1>2, DetailsOver
<1>4. <<"details", 0, ch.before>> \in Facts(c)
  BY <1>1, FactIn
<1>5. QED
  BY <1>3, <1>4 DEF d


\* A change that applies puts what it gives in the place of what was there, and its inverse
\* puts back what the original has there.
LEMMA StepFacts ==
    ASSUME proposal \in Proposals, NEW n \in DOMAIN proposal, NEW c, Good(c),
           NEW S \in SUBSET DOMAIN proposal, Facts(c) = HeldWith(S)
    PROVE  LET a == proposal[n]
               b == InvertChange(a)
           IN
           /\ CanApply(c, a) =>
                 Facts(ApplyChange(c, a)) = Over(HeldWith(S), KeysOf(a), Gives(a))
           /\ CanApply(c, b) =>
                 Facts(ApplyChange(c, b)) = Over(HeldWith(S), KeysOf(a), Before(a))
<1> DEFINE a == proposal[n]
           b == InvertChange(a)
           Up == Facts(ApplyChange(c, a)) = Over(HeldWith(S), KeysOf(a), Gives(a))
           Down == Facts(ApplyChange(c, b)) = Over(HeldWith(S), KeysOf(a), Before(a))
<1>1. n \in {1, 2} /\ Form(a, n)
  BY ProposalForms
<1>2. c \in Contents /\ Distinct(c) /\ Whole(c)
  BY DEF Good
<1>3. \A i \in OldItems : Old(i).id = i /\ ByAI(i).id = i /\ Old(i) # ByAI(i)
  BY Items DEF ByAI, Old
<1>4. ASSUME NEW i \in OldItems, TouchesItem(a, i), NEW s, NEW it,
             <<"item", s, it>> \in Facts(c), it.id = i
      PROVE  <<"item", s, it>> = <<"item", Home(i), Old(i)>> \/ <<"item", s, it>> \in Gives(a)
  <2>1. KeyOf(<<"item", s, it>>) = ItemKey(i)
    BY <1>4, Keys
  <2>2. QED
    BY <1>4, <2>1, ItemLocated
<1> HIDE DEF a, b
<1>5. ASSUME NEW i \in OldItems, EditForm(a, n, i)
      PROVE  (CanApply(c, a) => Up) /\ (CanApply(c, b) => Down)
  <2>1. /\ IsEdit(a) /\ a.item = Old(i) /\ a.after = ByAI(i)
        /\ IsEdit(b) /\ b.item = ByAI(i) /\ b.after = Old(i) /\ TouchesItem(a, i)
    <3>1. a.item = Old(i) /\ a.after = ByAI(i) /\ a.kind = "edit_item"
      BY <1>5 DEF EditForm, ByAI
    <3>2. IsEdit(a) /\ IsEdit(b) /\ b.item = a.after /\ b.after = a.item
      BY <1>1, <1>5, Inverses DEF b
    <3>3. QED
      BY <3>1, <3>2 DEF TouchesItem
  <2>2. KeysOf(a) = {ItemKey(i)} /\ Gives(a) = {<<"item", Home(i), ByAI(i)>>}
        /\ Before(a) = {<<"item", Home(i), Old(i)>>}
    BY <1>1, <1>5, ItemForms
  <2>3. ASSUME CanApply(c, a)
        PROVE  Up
    <3>1. PICK s \in SectionIds :
              /\ <<"item", s, a.item>> \in Facts(c)
              /\ Facts(ApplyChange(c, a))
                    = Over(Facts(c), {ItemKey(a.item.id)}, {<<"item", s, a.after>>})
      BY <1>2, <2>1, <2>3, EditOver
    <3>2. s = Home(i)
      BY <1>3, <1>4, <2>1, <2>2, <3>1
    <3>3. QED
      BY <1>3, <2>1, <2>2, <3>1, <3>2
  <2>4. ASSUME CanApply(c, b)
        PROVE  Down
    <3>1. PICK s \in SectionIds :
              /\ <<"item", s, b.item>> \in Facts(c)
              /\ Facts(ApplyChange(c, b))
                    = Over(Facts(c), {ItemKey(b.item.id)}, {<<"item", s, b.after>>})
      BY <1>2, <2>1, <2>4, EditOver
    <3>2. s = Home(i)
      BY <1>3, <1>4, <2>1, <2>2, <3>1
    <3>3. QED
      BY <1>3, <2>1, <2>2, <3>1, <3>2
  <2>5. QED
    BY <2>3, <2>4
<1>6. ASSUME NEW i \in OldItems, RemoveForm(a, n, i)
      PROVE  (CanApply(c, a) => Up) /\ (CanApply(c, b) => Down)
  <2>1. /\ IsRemove(a) /\ a.item = Old(i)
        /\ IsAdd(b) /\ b.item = Old(i) /\ b.section = Home(i)
    BY <1>1, <1>6, Inverses DEF b, Home
  <2>2. /\ KeysOf(a) = {ItemKey(i)} /\ Gives(a) = {}
        /\ Before(a) = {<<"item", Home(i), Old(i)>>}
    BY <1>1, <1>6, ItemForms
  <2>3. CanApply(c, a) => Up
    BY <1>2, <1>3, <2>1, <2>2, RemoveOver
  <2>4. CanApply(c, b) => Down
    BY <1>2, <1>3, <2>1, <2>2, AddOver
  <2>5. QED
    BY <2>3, <2>4
<1>7. ASSUME NEW i \in OldItems, NEW to \in Sites, MoveForm(a, n, i, to)
      PROVE  (CanApply(c, a) => Up) /\ (CanApply(c, b) => Down)
  <2>1. /\ IsMove(a) /\ a.item = Old(i) /\ a.to = to
        /\ IsMove(b) /\ b.item = Old(i) /\ b.to.section = Home(i) /\ TouchesItem(a, i)
    <3>1. a.item = Old(i) /\ a.to = to /\ a.kind = "move_item"
      BY <1>7 DEF MoveForm
    <3>2. IsMove(a) /\ IsMove(b) /\ b.item = Old(i) /\ b.to = OriginalSite(i)
      BY <1>1, <1>7, Inverses DEF b
    <3>3. QED
      BY <3>1, <3>2 DEF TouchesItem, Home
  <2>2. /\ KeysOf(a) = {ItemKey(i)} /\ Gives(a) = {<<"item", to.section, Old(i)>>}
        /\ Before(a) = {<<"item", Home(i), Old(i)>>}
    BY <1>1, <1>7, MoveForms, ItemForms
  <2>3. ASSUME NEW s, NEW it, it.id = i, <<"item", s, it>> \in Facts(c)
        PROVE  it = Old(i)
    BY <1>4, <2>1, <2>2, <2>3
  <2>4. ASSUME CanApply(c, a)
        PROVE  Up
    <3>1. PICK s \in SectionIds : \E it \in ExamItems :
              /\ it.id = a.item.id /\ <<"item", s, it>> \in Facts(c)
              /\ Facts(ApplyChange(c, a))
                    = Over(Facts(c), {ItemKey(it.id)}, {<<"item", a.to.section, it>>})
      BY <1>2, <2>1, <2>4, MoveOver
    <3>2. PICK it \in ExamItems :
              /\ it.id = a.item.id /\ <<"item", s, it>> \in Facts(c)
              /\ Facts(ApplyChange(c, a))
                    = Over(Facts(c), {ItemKey(it.id)}, {<<"item", a.to.section, it>>})
      BY <3>1
    <3>3. it = Old(i)
      BY <1>3, <2>1, <2>3, <3>2
    <3>4. QED
      BY <1>3, <2>1, <2>2, <3>2, <3>3
  <2>5. ASSUME CanApply(c, b)
        PROVE  Down
    <3>1. PICK s \in SectionIds : \E it \in ExamItems :
              /\ it.id = b.item.id /\ <<"item", s, it>> \in Facts(c)
              /\ Facts(ApplyChange(c, b))
                    = Over(Facts(c), {ItemKey(it.id)}, {<<"item", b.to.section, it>>})
      BY <1>2, <2>1, <2>5, MoveOver
    <3>2. PICK it \in ExamItems :
              /\ it.id = b.item.id /\ <<"item", s, it>> \in Facts(c)
              /\ Facts(ApplyChange(c, b))
                    = Over(Facts(c), {ItemKey(it.id)}, {<<"item", b.to.section, it>>})
      BY <3>1
    <3>3. it = Old(i)
      BY <1>3, <2>1, <2>3, <3>2
    <3>4. QED
      BY <1>3, <2>1, <2>2, <3>2, <3>3
  <2>6. QED
    BY <2>4, <2>5
<1>8. ASSUME NEW to \in Sites, AddForm(a, n, to)
      PROVE  (CanApply(c, a) => Up) /\ (CanApply(c, b) => Down)
  <2>1. /\ IsAdd(a) /\ a.item = NewItem(n) /\ a.section = to.section
        /\ IsRemove(b) /\ b.item = NewItem(n)
    BY <1>1, <1>8, Inverses DEF b
  <2>2. /\ KeysOf(a) = {ItemKey(NewItem(n).id)}
        /\ Gives(a) = {<<"item", to.section, NewItem(n)>>} /\ Before(a) = {}
    BY <1>1, <1>8, AddForms
  <2>3. CanApply(c, a) => Up
    BY <1>2, <2>1, <2>2, AddOver
  <2>4. CanApply(c, b) => Down
    BY <1>2, <2>1, <2>2, RemoveOver
  <2>5. QED
    BY <2>3, <2>4
<1>9. ASSUME NEW index \in Positions, AddSectionForm(a, n, index)
      PROVE  (CanApply(c, a) => Up) /\ (CanApply(c, b) => Down)
  <2>1. IsAddSection(a) /\ IsRemoveSection(b) /\ b.section = a.section
    BY <1>1, <1>9, Inverses DEF b
  <2>2. /\ KeysOf(a) = SectionKeys(a.section) /\ Gives(a) = SectionFacts(a.section)
        /\ Before(a) = {} /\ a.kind = "add_section"
    <3>1. a.kind = "add_section"
      BY <2>1 DEF IsAddSection
    <3>2. Before(a) = {} /\ Gives(a) = SectionFacts(a.section)
      BY <1>1, <1>9, AddForms
    <3>3. QED
      BY <3>1, <3>2 DEF KeysOf
  <2>3. ASSUME CanApply(c, a)
        PROVE  Up
    <3>1. a.section \in Carried
      BY <2>2 DEF Carried, a
    <3>2. ~HasSection(c, a.section.id)
      BY <2>2, <2>3 DEF CanApply
    <3>3. Free(c, a.section)
      BY <1>2, <3>1, <3>2 DEF Whole
    <3>4. QED
      BY <1>2, <2>1, <2>2, <2>3, <3>3, AddSectionOver
  <2>4. CanApply(c, b) => Down
    BY <1>2, <2>1, <2>2, RemoveSectionOver
  <2>5. QED
    BY <2>3, <2>4
<1>10. ASSUME NEW s \in {1, 2}, RemoveSectionForm(a, n, s)
       PROVE  (CanApply(c, a) => Up) /\ (CanApply(c, b) => Down)
  <2>1. IsRemoveSection(a) /\ IsAddSection(b) /\ b.section = a.section
    BY <1>1, <1>10, Inverses DEF b
  <2>2. /\ KeysOf(a) = SectionKeys(a.section) /\ Gives(a) = {}
        /\ Before(a) = SectionFacts(a.section)
    BY <1>1, <1>10, SectionForms
  <2>3. CanApply(c, a) => Up
    BY <1>2, <2>1, <2>2, RemoveSectionOver
  <2>4. ASSUME CanApply(c, b)
        PROVE  Down
    <3>1. a.section \in Carried
      BY <2>1 DEF Carried, IsRemoveSection, a
    <3>2. ~HasSection(c, a.section.id)
      BY <2>1, <2>4 DEF CanApply, IsAddSection
    <3>3. Free(c, b.section)
      BY <1>2, <2>1, <3>1, <3>2 DEF Whole
    <3>4. QED
      BY <1>2, <2>1, <2>2, <2>4, <3>3, AddSectionOver
  <2>5. QED
    BY <2>3, <2>4
<1>11. ASSUME NEW s \in {1, 2}, RenameForm(a, n, s)
       PROVE  (CanApply(c, a) => Up) /\ (CanApply(c, b) => Down)
  <2>1. /\ IsRename(a) /\ IsRename(b) /\ a.section = s /\ b.section = s
        /\ b.before = a.after /\ b.after = a.before
    BY <1>1, <1>11, Inverses DEF b
  <2>2. a.before = "original" /\ a.after = "ai"
    BY <1>11 DEF RenameForm
  <2>3. /\ KeysOf(a) = {TitleKey(s)} /\ Gives(a) = {<<"title", s, "ai">>}
        /\ Before(a) = {<<"title", s, "original">>}
    BY <1>1, <1>11, SectionForms
  <2>4. CanApply(c, a) => Up
    BY <1>2, <2>1, <2>2, <2>3, RenameOver
  <2>5. CanApply(c, b) => Down
    BY <1>2, <2>1, <2>2, <2>3, RenameOver
  <2>6. QED
    BY <2>4, <2>5
<1>12. ASSUME DetailsForm(a, n)
       PROVE  (CanApply(c, a) => Up) /\ (CanApply(c, b) => Down)
  <2>1. IsDetails(a) /\ IsDetails(b) /\ b.before = a.after /\ b.after = a.before
    BY <1>1, <1>12, Inverses DEF b
  <2>2. a.before = "original" /\ a.after = "ai"
    BY <1>12 DEF DetailsForm
  <2>3. /\ KeysOf(a) = {DetailsKey} /\ Gives(a) = {<<"details", 0, "ai">>}
        /\ Before(a) = {<<"details", 0, "original">>}
    BY <1>1, <1>12, SectionForms
  <2>4. CanApply(c, a) => Up
    BY <1>2, <2>1, <2>2, <2>3, DetailsChangeOver
  <2>5. CanApply(c, b) => Down
    BY <1>2, <2>1, <2>2, <2>3, DetailsChangeOver
  <2>6. QED
    BY <2>4, <2>5
<1>13. (CanApply(c, a) => Up) /\ (CanApply(c, b) => Down)
  <2> HIDE DEF Up, Down
  <2>1. QED
    BY <1>1, <1>5, <1>6, <1>7, <1>8, <1>9, <1>10, <1>11, <1>12 DEF Form
<1>14. QED
  BY <1>13 DEF a, b

-------------------------------------------------------------------------------
(* Changes that meet: one of them removes a section that the other changes *)
(* or puts something into, or both are of the same section.                *)

\* A change of something that is in a section of the original, or is its title.
Within(ch, n, s) ==
    RenameForm(ch, n, s) \/ \E i \in OldItems : Home(i) = s /\ TouchesItem(ch, i)

PutsInto(ch, s) ==
    \/ ch.kind = "move_item" /\ ch.to.section = s
    \/ ch.kind = "add_item" /\ ch.section = s

Clash ==
    \E n, m \in DOMAIN proposal :
        /\ n # m
        /\ \/ KeysOf(proposal[n]) \cap KeysOf(proposal[m]) # {}
           \/ \E s \in {1, 2} :
                 RemoveSectionForm(proposal[n], n, s) /\ PutsInto(proposal[m], s)

LEMMA TouchedKeys ==
    ASSUME NEW n \in {1, 2}, NEW a, Form(a, n), NEW i \in OldItems, TouchesItem(a, i)
    PROVE  KeysOf(a) = {ItemKey(i)}
<1>1. a.kind \in {"edit_item", "remove_item", "move_item"} /\ a.item.id = i
  BY Items DEF TouchesItem
<1>2. QED
  BY <1>1 DEF KeysOf

LEMMA KeyMeans ==
    ASSUME NEW n \in {1, 2}, NEW a, Form(a, n), NEW k \in KeysOf(a)
    PROVE  \/ \E i \in OldItems : k = ItemKey(i) /\ TouchesItem(a, i)
           \/ k = ItemKey(NewItem(n).id)
           \/ k = TitleKey(NewSection) /\ a.kind = "add_section"
           \/ \E s \in {1, 2} :
                 /\ RemoveSectionForm(a, n, s)
                 /\ k = TitleKey(s) \/ \E i \in OldItems : Home(i) = s /\ k = ItemKey(i)
           \/ \E s \in {1, 2} : RenameForm(a, n, s) /\ k = TitleKey(s)
           \/ a.kind = "update_details" /\ k = DetailsKey
<1> DEFINE Goal ==
             \/ \E i \in OldItems : k = ItemKey(i) /\ TouchesItem(a, i)
             \/ k = ItemKey(NewItem(n).id)
             \/ k = TitleKey(NewSection) /\ a.kind = "add_section"
             \/ \E s \in {1, 2} :
                   /\ RemoveSectionForm(a, n, s)
                   /\ k = TitleKey(s) \/ \E i \in OldItems : Home(i) = s /\ k = ItemKey(i)
             \/ \E s \in {1, 2} : RenameForm(a, n, s) /\ k = TitleKey(s)
             \/ a.kind = "update_details" /\ k = DetailsKey
<1>1. ASSUME NEW i \in OldItems, TouchesItem(a, i)
      PROVE  Goal
  <2>1. k = ItemKey(i)
    BY <1>1, TouchedKeys
  <2>2. QED
    BY <1>1, <2>1
<1>2. ASSUME NEW i \in OldItems, EditForm(a, n, i) \/ RemoveForm(a, n, i)
      PROVE  Goal
  <2>1. TouchesItem(a, i)
    BY <1>2 DEF TouchesItem, EditForm, RemoveForm
  <2>2. QED
    BY <1>1, <2>1
<1>3. ASSUME NEW i \in OldItems, NEW to \in Sites, MoveForm(a, n, i, to)
      PROVE  Goal
  <2>1. TouchesItem(a, i)
    BY <1>3 DEF TouchesItem, MoveForm
  <2>2. QED
    BY <1>1, <2>1
<1>4. ASSUME NEW to \in Sites, AddForm(a, n, to)
      PROVE  Goal
  BY <1>4, AddForms
<1>5. ASSUME NEW index \in Positions, AddSectionForm(a, n, index)
      PROVE  Goal
  <2>1. a.kind = "add_section"
    BY <1>5 DEF AddSectionForm
  <2>2. k \in {TitleKey(NewSection), ItemKey(NewItem(n).id)}
    BY <1>5, AddForms
  <2>3. QED
    BY <2>1, <2>2
<1>6. ASSUME NEW s \in {1, 2}, RemoveSectionForm(a, n, s)
      PROVE  Goal
  <2>1. k = TitleKey(s) \/ \E i \in OldItems : Home(i) = s /\ k = ItemKey(i)
    BY <1>6, SectionForms
  <2>2. QED
    BY <1>6, <2>1
<1>7. ASSUME NEW s \in {1, 2}, RenameForm(a, n, s)
      PROVE  Goal
  <2>1. k = TitleKey(s)
    BY <1>7, SectionForms
  <2>2. QED
    BY <1>7, <2>1
<1>8. ASSUME DetailsForm(a, n)
      PROVE  Goal
  <2>1. k = DetailsKey /\ a.kind = "update_details"
    BY <1>8, SectionForms DEF DetailsForm
  <2>2. QED
    BY <2>1
<1>9. Goal
  <2> HIDE DEF Goal
  <2>1. QED
    BY <1>2, <1>3, <1>4, <1>5, <1>6, <1>7, <1>8 DEF Form
<1>10. QED
  BY <1>9

LEMMA KeysMeet ==
    ASSUME proposal \in Proposals, NEW n \in DOMAIN proposal, NEW m \in DOMAIN proposal, n # m,
           KeysOf(proposal[n]) \cap KeysOf(proposal[m]) # {}
    PROVE  \/ KeysOf(proposal[n]) = KeysOf(proposal[m])
           \/ \E s \in {1, 2} :
                 RemoveSectionForm(proposal[n], n, s) /\ Within(proposal[m], m, s)
           \/ \E s \in {1, 2} :
                 RemoveSectionForm(proposal[m], m, s) /\ Within(proposal[n], n, s)
<1> DEFINE a == proposal[n]
           b == proposal[m]
<1>1. /\ n \in {1, 2} /\ Form(a, n) /\ m \in {1, 2} /\ Form(b, m)
      /\ Touched(a) \cap Touched(b) = {}
  BY ProposalForms, ProposalApart
<1>2. PICK k \in KeysOf(a) : k \in KeysOf(b)
  OBVIOUS
<1> HIDE DEF a, b
<1>3. \A i \in OldItems : TouchesItem(a, i) => ~TouchesItem(b, i)
  <2>1. ASSUME NEW i \in OldItems, TouchesItem(a, i), TouchesItem(b, i)
        PROVE  FALSE
    <3>1. Touched(a) = {<<"item", i>>} /\ Touched(b) = {<<"item", i>>}
      BY <2>1, Items DEF Touched, TouchesItem
    <3>2. QED
      BY <1>1, <3>1
  <2>2. QED
    BY <2>1
<1>4. \A kind \in {"add_section", "update_details"} : a.kind = kind => b.kind # kind
  <2>1. ASSUME NEW kind \in {"add_section", "update_details"}, a.kind = kind, b.kind = kind
        PROVE  FALSE
    <3>1. Touched(a) = {<<kind, 1>>} /\ Touched(b) = {<<kind, 1>>}
      BY <2>1 DEF Touched
    <3>2. QED
      BY <1>1, <3>1
  <2>2. QED
    BY <2>1
<1>5. NewItem(n).id # NewItem(m).id /\ NewItem(n).id \notin OldItems
      /\ NewItem(m).id \notin OldItems
  BY <1>1, Items
<1>6. NewSection \notin {1, 2}
  BY DEF NewSection
<1>7. \/ \E i \in OldItems : k = ItemKey(i)
      \/ \E s \in {1, 2} : k = TitleKey(s)
      \/ k = ItemKey(NewItem(n).id)
      \/ k = TitleKey(NewSection) /\ a.kind = "add_section"
      \/ k = DetailsKey /\ a.kind = "update_details"
  BY <1>1, <1>2, KeyMeans
<1>8. ASSUME NEW i \in OldItems, k = ItemKey(i)
      PROVE  /\ TouchesItem(a, i) \/ RemoveSectionForm(a, n, Home(i))
             /\ TouchesItem(b, i) \/ RemoveSectionForm(b, m, Home(i))
  <2>1. TouchesItem(a, i) \/ RemoveSectionForm(a, n, Home(i))
    BY <1>1, <1>2, <1>5, <1>8, KeyMeans, Keys
  <2>2. TouchesItem(b, i) \/ RemoveSectionForm(b, m, Home(i))
    BY <1>1, <1>2, <1>5, <1>8, KeyMeans, Keys
  <2>3. QED
    BY <2>1, <2>2
<1>9. ASSUME NEW s \in {1, 2}, k = TitleKey(s)
      PROVE  /\ RemoveSectionForm(a, n, s) \/ RenameForm(a, n, s)
             /\ RemoveSectionForm(b, m, s) \/ RenameForm(b, m, s)
  <2>1. RemoveSectionForm(a, n, s) \/ RenameForm(a, n, s)
    BY <1>1, <1>2, <1>6, <1>9, KeyMeans, Keys
  <2>2. RemoveSectionForm(b, m, s) \/ RenameForm(b, m, s)
    BY <1>1, <1>2, <1>6, <1>9, KeyMeans, Keys
  <2>3. QED
    BY <2>1, <2>2
<1>10. ASSUME NEW s \in {1, 2}, RemoveSectionForm(a, n, s), RemoveSectionForm(b, m, s)
       PROVE  KeysOf(a) = KeysOf(b)
  <2>1. a.section = Original.sections[s] /\ KeysOf(a) = SectionKeys(a.section)
    BY <1>1, <1>10, SectionForms
  <2>2. b.section = Original.sections[s] /\ KeysOf(b) = SectionKeys(b.section)
    BY <1>1, <1>10, SectionForms
  <2>3. QED
    BY <2>1, <2>2
<1>11. ASSUME NEW s \in {1, 2}, RenameForm(a, n, s), RenameForm(b, m, s)
       PROVE  KeysOf(a) = KeysOf(b)
  <2>1. KeysOf(a) = {TitleKey(s)}
    BY <1>1, <1>11, SectionForms
  <2>2. KeysOf(b) = {TitleKey(s)}
    BY <1>1, <1>11, SectionForms
  <2>3. QED
    BY <2>1, <2>2
<1>12. ASSUME NEW i \in OldItems, k = ItemKey(i)
       PROVE  \/ KeysOf(a) = KeysOf(b)
              \/ \E s \in {1, 2} : RemoveSectionForm(a, n, s) /\ Within(b, m, s)
              \/ \E s \in {1, 2} : RemoveSectionForm(b, m, s) /\ Within(a, n, s)
  <2>1. Home(i) \in {1, 2}
    BY OriginalHolds
  <2>2. TouchesItem(a, i) => Within(a, n, Home(i))
    BY DEF Within
  <2>3. TouchesItem(b, i) => Within(b, m, Home(i))
    BY DEF Within
  <2>4. QED
    BY <1>3, <1>8, <1>10, <1>12, <2>1, <2>2, <2>3
<1>13. ASSUME NEW s \in {1, 2}, k = TitleKey(s)
       PROVE  \/ KeysOf(a) = KeysOf(b)
              \/ \E t \in {1, 2} : RemoveSectionForm(a, n, t) /\ Within(b, m, t)
              \/ \E t \in {1, 2} : RemoveSectionForm(b, m, t) /\ Within(a, n, t)
  <2>1. (RenameForm(a, n, s) => Within(a, n, s)) /\ (RenameForm(b, m, s) => Within(b, m, s))
    BY DEF Within
  <2>2. QED
    BY <1>9, <1>10, <1>11, <1>13, <2>1
<1>14. k # ItemKey(NewItem(n).id)
  <2>1. ASSUME k = ItemKey(NewItem(n).id)
        PROVE  FALSE
    BY <1>1, <1>2, <1>5, <2>1, KeyMeans, Keys
  <2>2. QED
    BY <2>1
<1>15. ~(k = TitleKey(NewSection) /\ a.kind = "add_section")
  <2>1. ASSUME k = TitleKey(NewSection), a.kind = "add_section"
        PROVE  FALSE
    <3>1. b.kind # "add_section"
      BY <1>4, <2>1
    <3>2. QED
      BY <1>1, <1>2, <1>6, <2>1, <3>1, KeyMeans, Keys
  <2>2. QED
    BY <2>1
<1>16. ~(k = DetailsKey /\ a.kind = "update_details")
  <2>1. ASSUME k = DetailsKey, a.kind = "update_details"
        PROVE  FALSE
    <3>1. b.kind # "update_details"
      BY <1>4, <2>1
    <3>2. QED
      BY <1>1, <1>2, <2>1, <3>1, KeyMeans, Keys
  <2>2. QED
    BY <2>1
<1>17. QED
  BY <1>7, <1>12, <1>13, <1>14, <1>15, <1>16 DEF a, b


\* Every change acts on something.
LEMMA SomeKey ==
    ASSUME NEW n \in {1, 2}, NEW a, Form(a, n)
    PROVE  KeysOf(a) # {}
<1>1. ASSUME NEW i \in OldItems, EditForm(a, n, i) \/ RemoveForm(a, n, i)
      PROVE  KeysOf(a) # {}
  BY <1>1, ItemForms
<1>2. ASSUME NEW i \in OldItems, NEW to \in Sites, MoveForm(a, n, i, to)
      PROVE  KeysOf(a) # {}
  <2>1. KeysOf(a) = {ItemKey(i)}
    BY <1>2, MoveForms
  <2>2. QED
    BY <2>1
<1>3. (\E to \in Sites : AddForm(a, n, to))
      \/ (\E index \in Positions : AddSectionForm(a, n, index))
        => KeysOf(a) # {}
  BY AddForms
<1>4. ASSUME NEW s \in {1, 2}, RemoveSectionForm(a, n, s)
      PROVE  KeysOf(a) # {}
  <2>1. TitleKey(s) \in KeysOf(a)
    BY <1>4, SectionForms
  <2>2. QED
    BY <2>1
<1>5. ASSUME NEW s \in {1, 2}, RenameForm(a, n, s)
      PROVE  KeysOf(a) # {}
  <2>1. KeysOf(a) = {TitleKey(s)}
    BY <1>5, SectionForms
  <2>2. QED
    BY <2>1
<1>6. DetailsForm(a, n) => KeysOf(a) # {}
  BY SectionForms
<1>7. QED
  BY <1>1, <1>2, <1>3, <1>4, <1>5, <1>6 DEF Form

LEMMA WithinKeys ==
    ASSUME NEW n \in {1, 2}, NEW a, Form(a, n), NEW m \in {1, 2}, NEW b, Form(b, m),
           NEW s \in {1, 2}, RemoveSectionForm(a, n, s), Within(b, m, s)
    PROVE  KeysOf(b) \subseteq KeysOf(a)
<1>1. /\ TitleKey(s) \in KeysOf(a)
      /\ \A i \in OldItems : Home(i) = s => ItemKey(i) \in KeysOf(a)
  BY SectionForms
<1>2. CASE RenameForm(b, m, s)
  <2>1. KeysOf(b) = {TitleKey(s)}
    BY <1>2, SectionForms
  <2>2. QED
    BY <1>1, <2>1
<1>3. ASSUME NEW i \in OldItems, Home(i) = s, TouchesItem(b, i)
      PROVE  KeysOf(b) \subseteq KeysOf(a)
  <2>1. KeysOf(b) = {ItemKey(i)}
    BY <1>3, TouchedKeys
  <2>2. QED
    BY <1>1, <1>3, <2>1
<1>4. QED
  BY <1>2, <1>3 DEF Within

\* What a change and its inverse make of the facts, where each change that is there acts on
\* something else, or on a part of the same.
LEMMA OverHeld ==
    ASSUME proposal \in Proposals, NEW n \in DOMAIN proposal, NEW S \in SUBSET DOMAIN proposal,
           \A m \in S : \/ KeysOf(proposal[m]) \cap KeysOf(proposal[n]) = {}
                        \/ KeysOf(proposal[m]) \subseteq KeysOf(proposal[n])
    PROVE  LET a == proposal[n]
               rest == {m \in S : KeysOf(proposal[m]) \cap KeysOf(a) = {}}
           IN
           /\ Over(HeldWith(S), KeysOf(a), Gives(a)) = HeldWith(rest \cup {n})
           /\ Over(HeldWith(S), KeysOf(a), Before(a)) = HeldWith(rest)
<1> DEFINE K(m) == KeysOf(proposal[m])
           G(m) == Gives(proposal[m])
           rest == {m \in S : K(m) \cap K(n) = {}}
           H == {f \in HeldWith(S) : KeyOf(f) \notin K(n)}
           O == Facts(Original)
<1>1. \A m \in DOMAIN proposal : \A f \in G(m) : KeyOf(f) \in K(m)
  BY ProposalForms, GivesKeys
<1>2. \A m \in S : m \in rest \/ K(m) \subseteq K(n)
  OBVIOUS
<1>3. \A m \in rest : m \in S /\ m \in DOMAIN proposal /\ K(m) \cap K(n) = {}
  OBVIOUS
<1>4. \A f : f \in HeldWith(S) <=>
          (f \in O /\ \A m \in S : KeyOf(f) \notin K(m)) \/ \E m \in S : f \in G(m)
  BY InHeldWith
<1>5. \A f : f \in HeldWith(rest) <=>
          (f \in O /\ \A m \in rest : KeyOf(f) \notin K(m)) \/ \E m \in rest : f \in G(m)
  BY InHeldWith
<1>6. \A f : f \in HeldWith(rest \cup {n}) <=>
          \/ f \in O /\ \A m \in rest \cup {n} : KeyOf(f) \notin K(m)
          \/ \E m \in rest \cup {n} : f \in G(m)
  BY InHeldWith
<1>7. \A f : f \in Before(proposal[n]) <=> f \in O /\ KeyOf(f) \in K(n)
  BY DEF Before
<1> HIDE DEF K, G, rest, O
<1>8. \A f : f \in H <=>
          \/ f \in O /\ KeyOf(f) \notin K(n) /\ \A m \in rest : KeyOf(f) \notin K(m)
          \/ \E m \in rest : f \in G(m)
  <2>1. ASSUME NEW f, f \in H
        PROVE  \/ f \in O /\ KeyOf(f) \notin K(n) /\ \A m \in rest : KeyOf(f) \notin K(m)
               \/ \E m \in rest : f \in G(m)
    <3>1. f \in HeldWith(S) /\ KeyOf(f) \notin K(n)
      BY <2>1
    <3>2. CASE \E m \in S : f \in G(m)
      <4>1. PICK m \in S : f \in G(m)
        BY <3>2
      <4>2. KeyOf(f) \in K(m)
        BY <1>1, <4>1
      <4>3. m \in rest
        BY <1>2, <3>1, <4>2
      <4>4. QED
        BY <4>1, <4>3
    <3>3. CASE f \in O /\ \A m \in S : KeyOf(f) \notin K(m)
      BY <1>3, <3>1, <3>3
    <3>4. QED
      BY <1>4, <3>1, <3>2, <3>3
  <2>2. ASSUME NEW f, f \in O, KeyOf(f) \notin K(n), \A m \in rest : KeyOf(f) \notin K(m)
        PROVE  f \in H
    <3>1. \A m \in S : KeyOf(f) \notin K(m)
      BY <1>2, <2>2
    <3>2. QED
      BY <1>4, <2>2, <3>1
  <2>3. ASSUME NEW f, NEW m \in rest, f \in G(m)
        PROVE  f \in H
    <3>1. m \in S /\ KeyOf(f) \in K(m) /\ KeyOf(f) \notin K(n)
      BY <1>1, <1>3, <2>3
    <3>2. QED
      BY <1>4, <2>3, <3>1
  <2> HIDE DEF H
  <2>4. QED
    BY <2>1, <2>2, <2>3
<1>9. /\ Over(HeldWith(S), K(n), G(n)) = H \cup G(n)
      /\ Over(HeldWith(S), K(n), Before(proposal[n])) = H \cup Before(proposal[n])
  BY DEF Over
<1> HIDE DEF H
<1>10. \A f : f \in H \cup G(n) <=> f \in HeldWith(rest \cup {n})
  BY <1>6, <1>8
<1>11. \A f : f \in H \cup Before(proposal[n]) <=> f \in HeldWith(rest)
  <2>1. ASSUME NEW f, f \in O, KeyOf(f) \in K(n)
        PROVE  \A m \in rest : KeyOf(f) \notin K(m)
    BY <1>3, <2>1
  <2>2. QED
    BY <1>5, <1>7, <1>8, <2>1
<1>12. QED
  BY <1>9, <1>10, <1>11 DEF K, G, rest


\* Once a section is removed, what is within it cannot be changed, nor changed back.
LEMMA NotInside ==
    ASSUME proposal \in Proposals, NEW n \in DOMAIN proposal, NEW m \in DOMAIN proposal,
           NEW c, Good(c), Facts(c) = HeldWith({m}),
           NEW s \in {1, 2}, RemoveSectionForm(proposal[m], m, s), Within(proposal[n], n, s),
           CanApply(c, proposal[n]) \/ CanApply(c, InvertChange(proposal[n]))
    PROVE  FALSE
<1> DEFINE a == proposal[n]
           b == InvertChange(a)
<1>1. n \in {1, 2} /\ Form(a, n) /\ m \in {1, 2} /\ Form(proposal[m], m)
  BY ProposalForms
<1>2. c \in Contents /\ Distinct(c) /\ (CanApply(c, a) \/ CanApply(c, b))
  BY DEF Good
<1>3. /\ Gives(proposal[m]) = {} /\ TitleKey(s) \in KeysOf(proposal[m])
      /\ \A i \in OldItems : Home(i) = s => ItemKey(i) \in KeysOf(proposal[m])
  BY <1>1, SectionForms
<1>4. \A f \in Facts(c) : KeyOf(f) \notin KeysOf(proposal[m])
  BY <1>3, InHeldWith
<1>5. ~Says(Facts(c), TitleKey(s)) /\ \A v : <<"title", s, v>> \notin Facts(c)
  <2>1. \A v : KeyOf(<<"title", s, v>>) = TitleKey(s)
    BY Keys
  <2>2. QED
    BY <1>3, <1>4, <2>1 DEF Says
<1>6. \A i \in OldItems : Home(i) = s =>
          \A t, it : it.id = i => <<"item", t, it>> \notin Facts(c)
  <2>1. \A t, it : KeyOf(<<"item", t, it>>) = ItemKey(it.id)
    BY Keys
  <2>2. QED
    BY <1>3, <1>4, <2>1
<1> HIDE DEF a, b
<1>7. ASSUME RenameForm(a, n, s)
      PROVE  FALSE
  <2>1. IsRename(a) /\ IsRename(b) /\ a.section = s /\ b.section = s
    BY <1>1, <1>7, Inverses DEF b
  <2>2. QED
    BY <1>2, <1>5, <2>1, RenameOver
<1>8. ASSUME NEW i \in OldItems, Home(i) = s, EditForm(a, n, i)
      PROVE  FALSE
  <2>1. /\ IsEdit(a) /\ a.item.id = i /\ IsEdit(b) /\ b.item.id = i
    <3>1. a.item = Old(i) /\ Old(i).id = i
      BY <1>8, Items DEF EditForm
    <3>2. a.after.id = i
      BY <1>8 DEF EditForm
    <3>3. IsEdit(a) /\ IsEdit(b) /\ b.item = a.after
      BY <1>1, <1>8, Inverses DEF b
    <3>4. QED
      BY <3>1, <3>2, <3>3
  <2>2. CASE CanApply(c, a)
    <3>1. \E t \in SectionIds : <<"item", t, a.item>> \in Facts(c)
      BY <1>2, <2>1, <2>2, EditOver
    <3>2. QED
      BY <1>6, <1>8, <2>1, <3>1
  <2>3. CASE CanApply(c, b)
    <3>1. \E t \in SectionIds : <<"item", t, b.item>> \in Facts(c)
      BY <1>2, <2>1, <2>3, EditOver
    <3>2. QED
      BY <1>6, <1>8, <2>1, <3>1
  <2>4. QED
    BY <1>2, <2>2, <2>3
<1>9. ASSUME NEW i \in OldItems, Home(i) = s, RemoveForm(a, n, i)
      PROVE  FALSE
  <2>1. IsRemove(a) /\ a.item = Old(i) /\ IsAdd(b) /\ b.section = s
    BY <1>1, <1>9, Inverses DEF b, Home
  <2>2. Old(i).id = i
    BY Items
  <2>3. CASE CanApply(c, a)
    <3>1. \E t \in SectionIds : <<"item", t, a.item>> \in Facts(c)
      BY <1>2, <2>1, <2>3, RemoveOver
    <3>2. QED
      BY <1>6, <1>9, <2>1, <2>2, <3>1
  <2>4. CASE CanApply(c, b)
    BY <1>2, <1>5, <2>1, <2>4, AddOver
  <2>5. QED
    BY <1>2, <2>3, <2>4
<1>10. ASSUME NEW i \in OldItems, Home(i) = s, NEW to \in Sites, MoveForm(a, n, i, to)
       PROVE  FALSE
  <2>1. IsMove(a) /\ IsMove(b) /\ a.item.id = i /\ b.item.id = i
    <3>1. IsMove(a) /\ IsMove(b) /\ a.item = Old(i) /\ b.item = Old(i)
      BY <1>1, <1>10, Inverses DEF b
    <3>2. Old(i).id = i
      BY Items
    <3>3. QED
      BY <3>1, <3>2
  <2>2. CASE CanApply(c, a)
    <3>1. \E t \in SectionIds : \E it \in ExamItems :
              it.id = a.item.id /\ <<"item", t, it>> \in Facts(c)
      BY <1>2, <2>1, <2>2, MoveOver
    <3>2. QED
      BY <1>6, <1>10, <2>1, <3>1
  <2>3. CASE CanApply(c, b)
    <3>1. \E t \in SectionIds : \E it \in ExamItems :
              it.id = b.item.id /\ <<"item", t, it>> \in Facts(c)
      BY <1>2, <2>1, <2>3, MoveOver
    <3>2. QED
      BY <1>6, <1>10, <2>1, <3>1
  <2>4. QED
    BY <1>2, <2>2, <2>3
<1>11. ASSUME NEW i \in OldItems, Home(i) = s, TouchesItem(a, i)
       PROVE  FALSE
  <2>1. \A j \in OldItems : Old(j) = Old(i) => j = i
    <3>1. \A j \in OldItems : Old(j).id = j
      BY Items
    <3>2. QED
      BY <3>1
  <2>2. \A j \in OldItems : EditForm(a, n, j) => j = i
    BY <1>11, <2>1 DEF EditForm, TouchesItem
  <2>3. \A j \in OldItems : RemoveForm(a, n, j) => j = i
    BY <1>11, <2>1 DEF RemoveForm, TouchesItem
  <2>4. \A j \in OldItems : \A to \in Sites : MoveForm(a, n, j, to) => j = i
    BY <1>11, <2>1 DEF MoveForm, TouchesItem
  <2>5. \/ \E j \in OldItems : EditForm(a, n, j) \/ RemoveForm(a, n, j)
        \/ \E j \in OldItems : \E to \in Sites : MoveForm(a, n, j, to)
    BY <1>1, <1>11 DEF Form, TouchesItem, AddForm, AddSectionForm, RemoveSectionForm,
       RenameForm, DetailsForm
  <2>6. QED
    BY <1>8, <1>9, <1>10, <1>11, <2>2, <2>3, <2>4, <2>5
<1>12. QED
  BY <1>7, <1>11 DEF Within, a

\* What a change puts somewhere.
LEMMA PutsFacts ==
    ASSUME NEW n \in {1, 2}, NEW a, Form(a, n), NEW s, PutsInto(a, s)
    PROVE  /\ \E it : Gives(a) = {<<"item", s, it>>} /\ KeysOf(a) = {ItemKey(it.id)}
           /\ (IsMove(a) /\ a.to.section = s) \/ (IsAdd(a) /\ a.section = s)
<1>1. CASE \E i \in OldItems : \E to \in Sites : MoveForm(a, n, i, to)
  <2>1. PICK i \in OldItems : \E to \in Sites : MoveForm(a, n, i, to)
    BY <1>1
  <2>2. PICK to \in Sites : MoveForm(a, n, i, to)
    BY <2>1
  <2>3. a.kind = "move_item" /\ a.to = to
    BY <2>2 DEF MoveForm
  <2>4. to.section = s
    BY <2>3 DEF PutsInto
  <2>5. /\ Gives(a) = {<<"item", s, Old(i)>>} /\ KeysOf(a) = {ItemKey(i)}
    BY <2>2, <2>4, MoveForms
  <2>6. Old(i).id = i
    BY Items
  <2>7. IsMove(a)
    <3>1. IsMove(a) /\ IsMove(InvertChange(a)) /\ a.item = Old(i)
      BY <2>2, Inverses
    <3>2. QED
      BY <3>1
  <2>8. QED
    BY <2>3, <2>4, <2>5, <2>6, <2>7
<1>2. CASE \E to \in Sites : AddForm(a, n, to)
  <2>1. PICK to \in Sites : AddForm(a, n, to)
    BY <1>2
  <2>2. a.kind = "add_item" /\ a.section = to.section
    BY <2>1 DEF AddForm
  <2>3. to.section = s
    BY <2>2 DEF PutsInto
  <2>4. Gives(a) = {<<"item", s, NewItem(n)>>} /\ KeysOf(a) = {ItemKey(NewItem(n).id)}
    BY <2>1, <2>3, AddForms
  <2>5. IsAdd(a)
    BY <2>1, Inverses
  <2>6. QED
    BY <2>2, <2>3, <2>4, <2>5
<1>3. a.kind \in {"move_item", "add_item"}
  BY DEF PutsInto
<1>4. (\E i \in OldItems : \E to \in Sites : MoveForm(a, n, i, to))
      \/ \E to \in Sites : AddForm(a, n, to)
  BY <1>3 DEF Form, EditForm, RemoveForm, AddSectionForm, RemoveSectionForm, RenameForm,
     DetailsForm
<1>5. QED
  BY <1>1, <1>2, <1>4

\* Nothing is put into a section that is removed, and one that something was put into is not
\* removed.
LEMMA NotBoth ==
    ASSUME proposal \in Proposals, NEW n \in DOMAIN proposal, NEW m \in DOMAIN proposal,
           KeysOf(proposal[n]) \cap KeysOf(proposal[m]) = {},
           NEW c, Good(c), Facts(c) = HeldWith({m}), CanApply(c, proposal[n]), NEW s \in {1, 2}
    PROVE  /\ ~(RemoveSectionForm(proposal[n], n, s) /\ PutsInto(proposal[m], s))
           /\ ~(RemoveSectionForm(proposal[m], m, s) /\ PutsInto(proposal[n], s))
<1>1. n \in {1, 2} /\ Form(proposal[n], n) /\ m \in {1, 2} /\ Form(proposal[m], m)
  BY ProposalForms
<1>2. c \in Contents /\ Distinct(c)
  BY DEF Good
<1>3. ASSUME RemoveSectionForm(proposal[n], n, s), PutsInto(proposal[m], s)
      PROVE  FALSE
  <2>1. PICK it : Gives(proposal[m]) = {<<"item", s, it>>}
                /\ KeysOf(proposal[m]) = {ItemKey(it.id)}
    BY <1>1, <1>3, PutsFacts
  <2>2. <<"item", s, it>> \in Facts(c)
    BY <2>1, InHeldWith
  <2> DEFINE o == proposal[n].section
  <2>3. /\ IsRemoveSection(proposal[n]) /\ o.id = s
        /\ KeysOf(proposal[n]) = SectionKeys(o)
    <3>1. IsRemoveSection(proposal[n])
      BY <1>1, <1>3, Inverses
    <3>2. QED
      BY <1>1, <1>3, <3>1, SectionForms
  <2>4. PICK k \in DOMAIN o.items : it = o.items[k]
    BY <1>2, <2>2, <2>3, RemoveSectionOver
  <2>5. ItemKey(it.id) \in KeysOf(proposal[n])
    BY <2>3, <2>4 DEF SectionKeys
  <2>6. QED
    BY <2>1, <2>5
<1>4. ASSUME RemoveSectionForm(proposal[m], m, s), PutsInto(proposal[n], s)
      PROVE  FALSE
  <2>1. Says(Facts(c), TitleKey(s))
    <3>1. \/ IsMove(proposal[n]) /\ proposal[n].to.section = s
          \/ IsAdd(proposal[n]) /\ proposal[n].section = s
      BY <1>1, <1>4, PutsFacts
    <3>2. CASE IsMove(proposal[n]) /\ proposal[n].to.section = s
      BY <1>2, <3>2, MoveOver
    <3>3. CASE IsAdd(proposal[n]) /\ proposal[n].section = s
      BY <1>2, <3>3, AddOver
    <3>4. QED
      BY <3>1, <3>2, <3>3
  <2>2. PICK f \in Facts(c) : KeyOf(f) = TitleKey(s)
    BY <2>1 DEF Says
  <2>3. TitleKey(s) \in KeysOf(proposal[m]) /\ Gives(proposal[m]) = {}
    BY <1>1, <1>4, SectionForms
  <2>4. QED
    BY <2>2, <2>3, InHeldWith
<1>5. QED
  BY <1>3, <1>4


\* Changes that can be there together.
Together(S) == S \subseteq DOMAIN proposal /\ (Clash => \A n, m \in S : n = m)

\* A change that applies is there then, with those that were there unless they clash; its
\* inverse takes it away.
LEMMA HeldStep ==
    ASSUME proposal \in Proposals, NEW n \in DOMAIN proposal, NEW c, Good(c),
           NEW S, Together(S), Facts(c) = HeldWith(S)
    PROVE  LET a == proposal[n]
               b == InvertChange(a)
           IN
           /\ CanApply(c, a) =>
                 Facts(ApplyChange(c, a)) = HeldWith(IF Clash THEN {n} ELSE S \cup {n})
           /\ CanApply(c, b) =>
                 /\ Facts(ApplyChange(c, b)) \in {HeldWith(S \ {n}), HeldWith({})}
                 /\ ~Clash => Facts(ApplyChange(c, b)) = HeldWith(S \ {n})
<1> DEFINE a == proposal[n]
           b == InvertChange(a)
           K(m) == KeysOf(proposal[m])
           rest == {m \in S : K(m) \cap K(n) = {}}
<1>1. /\ DOMAIN proposal \subseteq {1, 2} /\ S \subseteq DOMAIN proposal
      /\ \A m \in DOMAIN proposal : m \in {1, 2} /\ Form(proposal[m], m)
  BY ProposalForms DEF Together
<1>2. \A m \in DOMAIN proposal : K(m) # {}
  BY <1>1, SomeKey
<1>3. /\ CanApply(c, a) => Facts(ApplyChange(c, a)) = Over(HeldWith(S), KeysOf(a), Gives(a))
      /\ CanApply(c, b) => Facts(ApplyChange(c, b)) = Over(HeldWith(S), KeysOf(a), Before(a))
  BY <1>1, StepFacts
<1>4. ASSUME \A m \in S : K(m) \cap K(n) = {} \/ K(m) \subseteq K(n)
      PROVE  /\ Over(HeldWith(S), KeysOf(a), Gives(a)) = HeldWith(rest \cup {n})
             /\ Over(HeldWith(S), KeysOf(a), Before(a)) = HeldWith(rest)
  BY <1>1, <1>4, OverHeld
<1>5. CASE ~Clash
  <2>1. \A m \in S : m # n => K(m) \cap K(n) = {}
    BY <1>1, <1>5 DEF Clash
  <2>2. rest = S \ {n} /\ rest \cup {n} = S \cup {n}
    BY <1>1, <1>2, <2>1
  <2>3. \A m \in S : K(m) \cap K(n) = {} \/ K(m) \subseteq K(n)
    BY <2>1
  <2> HIDE DEF K, rest, a, b
  <2>4. QED
    BY <1>3, <1>4, <1>5, <2>2, <2>3 DEF a, b
<1>6. CASE S \subseteq {n} /\ Clash
  <2>1. rest = {} /\ S \ {n} = {}
    BY <1>1, <1>2, <1>6
  <2>2. \A m \in S : K(m) \cap K(n) = {} \/ K(m) \subseteq K(n)
    BY <1>6
  <2> HIDE DEF K, rest, a, b
  <2>3. QED
    BY <1>3, <1>4, <1>6, <2>1, <2>2 DEF a, b
<1>7. ASSUME NEW m \in S, m # n, Clash
      PROVE  /\ CanApply(c, a) => Facts(ApplyChange(c, a)) = HeldWith({n})
             /\ CanApply(c, b) =>
                   Facts(ApplyChange(c, b)) = HeldWith({})
                   \/ Facts(ApplyChange(c, b)) = HeldWith(S \ {n})
  <2>1. S = {m} /\ m \in DOMAIN proposal
    BY <1>1, <1>7 DEF Together
  <2>2. CASE K(m) \subseteq K(n)
    <3>1. rest = {} /\ rest \cup {n} = {n}
      BY <1>2, <2>1, <2>2
    <3>2. \A x \in S : K(x) \cap K(n) = {} \/ K(x) \subseteq K(n)
      BY <2>1, <2>2
    <3> HIDE DEF K, rest, a, b
    <3>3. QED
      BY <1>3, <1>4, <3>1, <3>2
  <2>3. CASE K(m) \cap K(n) = {}
    <3>1. rest = {m} /\ S \ {n} = {m}
      BY <1>7, <2>1, <2>3
    <3>2. \A x \in S : K(x) \cap K(n) = {} \/ K(x) \subseteq K(n)
      BY <2>1, <2>3
    <3>3. \E s \in {1, 2} :
              \/ RemoveSectionForm(proposal[n], n, s) /\ PutsInto(proposal[m], s)
              \/ RemoveSectionForm(proposal[m], m, s) /\ PutsInto(proposal[n], s)
      <4>1. PICK x \in DOMAIN proposal, y \in DOMAIN proposal :
                /\ x # y
                /\ \/ KeysOf(proposal[x]) \cap KeysOf(proposal[y]) # {}
                   \/ \E s \in {1, 2} :
                         RemoveSectionForm(proposal[x], x, s) /\ PutsInto(proposal[y], s)
        BY <1>7 DEF Clash
      <4>2. (x = n /\ y = m) \/ (x = m /\ y = n)
        BY <1>1, <1>7, <2>1, <4>1
      <4>3. KeysOf(proposal[x]) \cap KeysOf(proposal[y]) = {}
        BY <2>3, <4>2
      <4>4. QED
        BY <4>1, <4>2, <4>3
    <3>4. ~CanApply(c, a)
      BY <2>1, <2>3, <3>3, NotBoth
    <3> HIDE DEF K, rest, a, b
    <3>5. QED
      BY <1>3, <1>4, <3>1, <3>2, <3>4
  <2>4. CASE K(m) \cap K(n) # {} /\ ~(K(m) \subseteq K(n))
    <3>1. KeysOf(proposal[n]) \cap KeysOf(proposal[m]) # {}
      BY <2>4
    <3>2. \/ KeysOf(proposal[n]) = KeysOf(proposal[m])
          \/ \E s \in {1, 2} :
                RemoveSectionForm(proposal[n], n, s) /\ Within(proposal[m], m, s)
          \/ \E s \in {1, 2} :
                RemoveSectionForm(proposal[m], m, s) /\ Within(proposal[n], n, s)
      BY <1>7, <2>1, <3>1, KeysMeet
    <3>3. ~\E s \in {1, 2} :
                RemoveSectionForm(proposal[n], n, s) /\ Within(proposal[m], m, s)
      BY <1>1, <2>1, <2>4, WithinKeys
    <3>4. PICK s \in {1, 2} :
                RemoveSectionForm(proposal[m], m, s) /\ Within(proposal[n], n, s)
      BY <2>4, <3>2, <3>3
    <3>5. ~CanApply(c, a) /\ ~CanApply(c, b)
      BY <2>1, <3>4, NotInside
    <3>6. QED
      BY <3>5
  <2>5. QED
    BY <2>2, <2>3, <2>4
<1>8. QED
  <2>1. CASE \E m \in S : m # n /\ Clash
    BY <1>7, <2>1
  <2>2. CASE \A m \in S : m = n \/ ~Clash
    <3>1. ~Clash \/ (S \subseteq {n} /\ Clash)
      BY <2>2
    <3>2. QED
      BY <1>5, <1>6, <3>1
  <2>3. QED
    BY <2>1, <2>2

\* So what is there is always some of the changes that can be there together.
Held(c) == \E S : Together(S) /\ Facts(c) = HeldWith(S)

LEMMA HeldStays ==
    ASSUME proposal \in Proposals, NEW n \in DOMAIN proposal,
           NEW ch \in {proposal[n], InvertChange(proposal[n])},
           NEW c, Good(c), Held(c), CanApply(c, ch)
    PROVE  Held(ApplyChange(c, ch))
<1>1. PICK S : Together(S) /\ Facts(c) = HeldWith(S)
  BY DEF Held
<1>2. Together(IF Clash THEN {n} ELSE S \cup {n}) /\ Together(S \ {n}) /\ Together({})
  BY <1>1 DEF Together
<1>3. CASE ch = proposal[n]
  <2>1. Facts(ApplyChange(c, ch)) = HeldWith(IF Clash THEN {n} ELSE S \cup {n})
    BY <1>1, <1>3, HeldStep
  <2>2. QED
    BY <1>2, <2>1 DEF Held
<1>4. CASE ch = InvertChange(proposal[n])
  <2>1. Facts(ApplyChange(c, ch)) \in {HeldWith(S \ {n}), HeldWith({})}
    BY <1>1, <1>4, HeldStep
  <2>2. QED
    BY <1>2, <2>1 DEF Held
<1>5. QED
  BY <1>3, <1>4


\* A change of the details is the only one of them, and clashes with nothing.
LEMMA DetailsAlone ==
    ASSUME proposal \in Proposals, NEW n \in DOMAIN proposal,
           proposal[n].kind = "update_details"
    PROVE  /\ DetailsForm(proposal[n], n) /\ KeysOf(proposal[n]) = {DetailsKey}
           /\ Gives(proposal[n]) = {<<"details", 0, "ai">>}
           /\ Before(proposal[n]) = {<<"details", 0, "original">>}
           /\ \A m \in DOMAIN proposal : m # n => KeysOf(proposal[m]) \cap {DetailsKey} = {}
           /\ ~Clash
<1>1. DOMAIN proposal \subseteq {1, 2}
      /\ \A m \in DOMAIN proposal : m \in {1, 2} /\ Form(proposal[m], m)
  BY ProposalForms
<1>2. DetailsForm(proposal[n], n)
  BY <1>1 DEF Form, EditForm, RemoveForm, MoveForm, AddForm, AddSectionForm, RemoveSectionForm,
     RenameForm
<1>3. /\ KeysOf(proposal[n]) = {DetailsKey}
      /\ Gives(proposal[n]) = {<<"details", 0, "ai">>}
      /\ Before(proposal[n]) = {<<"details", 0, "original">>}
  BY <1>1, <1>2, SectionForms
<1>4. ASSUME NEW m \in DOMAIN proposal, m # n, DetailsKey \in KeysOf(proposal[m])
      PROVE  FALSE
  <2>1. proposal[m].kind = "update_details"
    BY <1>1, <1>4, KeyMeans, Keys
  <2>2. Touched(proposal[n]) = {<<"update_details", 1>>}
        /\ Touched(proposal[m]) = {<<"update_details", 1>>}
    BY <2>1 DEF Touched
  <2>3. QED
    BY <1>4, <2>2, ProposalApart
<1>5. ASSUME Clash
      PROVE  FALSE
  <2>1. PICK x \in DOMAIN proposal, y \in DOMAIN proposal :
            /\ x # y
            /\ \/ KeysOf(proposal[x]) \cap KeysOf(proposal[y]) # {}
               \/ \E s \in {1, 2} :
                     RemoveSectionForm(proposal[x], x, s) /\ PutsInto(proposal[y], s)
    BY <1>5 DEF Clash
  <2>2. x = n \/ y = n
    BY <1>1, <2>1
  <2>3. KeysOf(proposal[x]) \cap KeysOf(proposal[y]) = {}
    BY <1>3, <1>4, <2>1, <2>2
  <2>4. PICK s \in {1, 2} : RemoveSectionForm(proposal[x], x, s) /\ PutsInto(proposal[y], s)
    BY <2>1, <2>3
  <2>5. proposal[x].kind = "remove_section" /\ proposal[y].kind \in {"move_item", "add_item"}
    BY <2>4 DEF RemoveSectionForm, PutsInto
  <2>6. QED
    BY <2>2, <2>5
<1>6. QED
  BY <1>2, <1>3, <1>4, <1>5

LEMMA HeldDetails ==
    ASSUME proposal \in Proposals, NEW c \in Contents, NEW S, Together(S),
           Facts(c) = HeldWith(S)
    PROVE  /\ c.details \in {"original", "ai"}
           /\ c.details = "ai" <=> \E n \in S : proposal[n].kind = "update_details"
<1>1. S \subseteq DOMAIN proposal /\ \A m \in S : m \in {1, 2} /\ Form(proposal[m], m)
  BY ProposalForms DEF Together
<1>2. <<"details", 0, c.details>> \in HeldWith(S)
  BY FactIn, HoldsDetails
<1>3. KeyOf(<<"details", 0, c.details>>) = DetailsKey
  BY Keys
<1>4. CASE /\ <<"details", 0, c.details>> \in Facts(Original)
           /\ \A n \in S : DetailsKey \notin KeysOf(proposal[n])
  <2>1. c.details = "original"
    BY <1>4, OriginalHolds
  <2>2. \A n \in S : proposal[n].kind # "update_details"
    BY <1>1, <1>4, DetailsAlone
  <2>3. QED
    BY <2>1, <2>2
<1>5. CASE \E n \in S : <<"details", 0, c.details>> \in Gives(proposal[n])
  <2>1. PICK n \in S : <<"details", 0, c.details>> \in Gives(proposal[n])
    BY <1>5
  <2>2. DetailsKey \in KeysOf(proposal[n])
    BY <1>1, <1>3, <2>1, GivesKeys
  <2>3. proposal[n].kind = "update_details"
    BY <1>1, <2>2, KeyMeans, Keys
  <2>4. Gives(proposal[n]) = {<<"details", 0, "ai">>}
    BY <1>1, <2>3, DetailsAlone
  <2>5. c.details = "ai"
    BY <2>1, <2>4
  <2>6. QED
    BY <2>3, <2>5
<1>6. QED
  BY <1>2, <1>3, <1>4, <1>5, InHeldWith

\* Also with the details of another content that consists of whole changes.
LEMMA HeldMerged ==
    ASSUME proposal \in Proposals, NEW e, Good(e), Held(e), NEW c, Good(c), Held(c)
    PROVE  Held([e EXCEPT !.details = c.details])
<1> DEFINE d == [e EXCEPT !.details = c.details]
<1>1. PICK S : Together(S) /\ Facts(e) = HeldWith(S)
  BY DEF Held
<1>2. PICK T : Together(T) /\ Facts(c) = HeldWith(T)
  BY DEF Held
<1>3. /\ e \in Contents /\ c \in Contents
      /\ e = [details |-> e.details, sections |-> e.sections]
      /\ e.details \in Versions /\ c.details \in Versions
  BY ContentFacts DEF Good
<1>4. CASE c.details = e.details
  <2>1. d = e
    BY <1>3, <1>4
  <2>2. QED
    BY <2>1
<1>5. CASE c.details # e.details
  <2>1. /\ c.details \in {"original", "ai"}
        /\ c.details = "ai" <=> \E n \in T : proposal[n].kind = "update_details"
    BY <1>2, <1>3, HeldDetails
  <2>2. /\ e.details \in {"original", "ai"}
        /\ e.details = "ai" <=> \E n \in S : proposal[n].kind = "update_details"
    BY <1>1, <1>3, HeldDetails
  <2>3. PICK n \in S \cup T : proposal[n].kind = "update_details"
    BY <1>5, <2>1, <2>2
  <2>4. n \in DOMAIN proposal /\ S \subseteq DOMAIN proposal
    BY <1>1, <1>2, <2>3 DEF Together
  <2>5. /\ KeysOf(proposal[n]) = {DetailsKey}
        /\ Gives(proposal[n]) = {<<"details", 0, "ai">>}
        /\ Before(proposal[n]) = {<<"details", 0, "original">>}
        /\ \A m \in DOMAIN proposal : m # n => KeysOf(proposal[m]) \cap {DetailsKey} = {}
        /\ ~Clash
    BY <2>3, <2>4, DetailsAlone
  <2>6. Facts(d) = Over(HeldWith(S), {DetailsKey}, {<<"details", 0, c.details>>})
    <3>1. d \in Contents /\ d.details = c.details /\ d.sections = e.sections
      BY <1>3 DEF Contents
    <3>2. Holdings(d).details = c.details
      BY <3>1, HoldsDetails
    <3>3. Holdings(d).titles = Holdings(e).titles /\ Holdings(d).items = Holdings(e).items
      BY <3>1 DEF Holdings
    <3> HIDE DEF d
    <3>4. QED
      BY <1>1, <1>3, <3>1, <3>2, <3>3, DetailsOver
  <2> DEFINE rest == {m \in S : KeysOf(proposal[m]) \cap KeysOf(proposal[n]) = {}}
  <2>7. /\ Over(HeldWith(S), KeysOf(proposal[n]), Gives(proposal[n])) = HeldWith(rest \cup {n})
        /\ Over(HeldWith(S), KeysOf(proposal[n]), Before(proposal[n])) = HeldWith(rest)
    BY <2>4, <2>5, OverHeld
  <2>8. Facts(d) \in {HeldWith(rest \cup {n}), HeldWith(rest)}
    <3> HIDE DEF rest, d
    <3>1. QED
      BY <2>1, <2>5, <2>6, <2>7
  <2>9. Together(rest \cup {n}) /\ Together(rest)
    BY <2>4, <2>5 DEF Together
  <2> HIDE DEF rest, d
  <2>10. QED
    BY <2>8, <2>9 DEF Held, d
<1>6. QED
  BY <1>4, <1>5

-------------------------------------------------------------------------------
(* What the facts tell of a content: whether a change applies.             *)

LEMMA ItemUnchanged ==
    ASSUME NEW c \in Contents, Distinct(c), NEW s, NEW it, <<"item", s, it>> \in Facts(c)
    PROVE  Unchanged(c, it) /\ Places(c, it.id) # {}
<1> DEFINE x == FindItem(c, it.id)
<1>1. <<s, it>> \in Holdings(c).items
  BY FactIn
<1>2. <<s, it>>[2] = it
  OBVIOUS
<1>3. Places(c, it.id) # {}
  BY <1>1, <1>2, ItemHeld
<1>4. /\ x[1] \in DOMAIN c.sections /\ x[2] \in DOMAIN c.sections[x[1]].items
      /\ ItemAt(c, x) = c.sections[x[1]].items[x[2]] /\ ItemAt(c, x).id = it.id
  BY <1>3, ItemPlace
<1> HIDE DEF x
<1>5. <<c.sections[x[1]].id, ItemAt(c, x)>> \in Holdings(c).items
  BY <1>4, HoldsItem
<1>6. <<c.sections[x[1]].id, ItemAt(c, x)>>[2] = ItemAt(c, x)
  OBVIOUS
<1>7. <<c.sections[x[1]].id, ItemAt(c, x)>> = <<s, it>>
  BY <1>1, <1>2, <1>4, <1>5, <1>6, HeldOnce
<1>8. ItemAt(c, x) = it
  BY <1>7
<1>9. QED
  BY <1>3, <1>8 DEF Unchanged, x

LEMMA TitleThere ==
    ASSUME NEW c \in Contents, Distinct(c), NEW s, NEW v, <<"title", s, v>> \in Facts(c)
    PROVE  HasSection(c, s) /\ c.sections[SectionAt(c, s)].title = v
<1>1. <<s, v>> \in Holdings(c).titles
  BY FactIn
<1>2. <<s, v>>[1] = s
  OBVIOUS
<1>3. HasSection(c, s)
  BY <1>1, <1>2, HasSectionHeld
<1> DEFINE p == SectionAt(c, s)
<1>4. p \in DOMAIN c.sections /\ c.sections[p].id = s
  BY <1>3, SectionPlace
<1> HIDE DEF p
<1>5. <<s, c.sections[p].title>> \in Holdings(c).titles
  BY <1>4, HoldsTitle
<1>6. <<s, c.sections[p].title>>[1] = s
  OBVIOUS
<1>7. <<s, c.sections[p].title>> = <<s, v>>
  BY <1>1, <1>2, <1>5, <1>6, HeldOnce
<1>8. QED
  BY <1>3, <1>7 DEF p

\* Where a change acts on what no other does, there is what the original has, or what the
\* change gives.
LEMMA HeldThere ==
    ASSUME proposal \in Proposals, NEW n \in DOMAIN proposal, NEW S \in SUBSET DOMAIN proposal,
           \A m \in S : m # n => KeysOf(proposal[m]) \cap KeysOf(proposal[n]) = {}
    PROVE  /\ n \notin S => \A f : f \in HeldWith(S) /\ KeyOf(f) \in KeysOf(proposal[n])
                                     <=> f \in Before(proposal[n])
           /\ n \in S => \A f : f \in HeldWith(S) /\ KeyOf(f) \in KeysOf(proposal[n])
                                     <=> f \in Gives(proposal[n])
<1>1. \A m \in DOMAIN proposal : \A f \in Gives(proposal[m]) : KeyOf(f) \in KeysOf(proposal[m])
  BY ProposalForms, GivesKeys
<1>2. ASSUME n \notin S, NEW f
      PROVE  f \in HeldWith(S) /\ KeyOf(f) \in KeysOf(proposal[n])
                 <=> f \in Before(proposal[n])
  <2>1. ASSUME f \in HeldWith(S), KeyOf(f) \in KeysOf(proposal[n])
        PROVE  f \in Before(proposal[n])
    <3>1. ~\E m \in S : f \in Gives(proposal[m])
      BY <1>1, <1>2, <2>1
    <3>2. f \in Facts(Original)
      BY <2>1, <3>1, InHeldWith
    <3>3. QED
      BY <2>1, <3>2 DEF Before
  <2>2. ASSUME f \in Before(proposal[n])
        PROVE  f \in HeldWith(S) /\ KeyOf(f) \in KeysOf(proposal[n])
    <3>1. f \in Facts(Original) /\ KeyOf(f) \in KeysOf(proposal[n])
      BY <2>2 DEF Before
    <3>2. \A m \in S : KeyOf(f) \notin KeysOf(proposal[m])
      BY <1>2, <3>1
    <3>3. QED
      BY <3>1, <3>2, InHeldWith
  <2>3. QED
    BY <2>1, <2>2
<1>3. ASSUME n \in S, NEW f
      PROVE  f \in HeldWith(S) /\ KeyOf(f) \in KeysOf(proposal[n]) <=> f \in Gives(proposal[n])
  <2>1. ASSUME f \in HeldWith(S), KeyOf(f) \in KeysOf(proposal[n])
        PROVE  f \in Gives(proposal[n])
    <3>1. \A m \in S : f \in Gives(proposal[m]) => m = n
      BY <1>1, <2>1
    <3>2. QED
      BY <1>3, <2>1, <3>1, InHeldWith
  <2>2. ASSUME f \in Gives(proposal[n])
        PROVE  f \in HeldWith(S) /\ KeyOf(f) \in KeysOf(proposal[n])
    BY <1>1, <1>3, <2>2, InHeldWith
  <2>3. QED
    BY <2>1, <2>2
<1>4. QED
  BY <1>2, <1>3

\* A section of the original is there unless a change removes it.
LEMMA SectionThere ==
    ASSUME proposal \in Proposals, NEW S \in SUBSET DOMAIN proposal, NEW s \in {1, 2},
           \A m \in S : ~RemoveSectionForm(proposal[m], m, s)
    PROVE  Says(HeldWith(S), TitleKey(s))
<1> DEFINE f == <<"title", s, "original">>
<1>1. f \in Facts(Original) /\ KeyOf(f) = TitleKey(s)
  BY OriginalHolds, Keys
<1> HIDE DEF f
<1>2. CASE \A m \in S : TitleKey(s) \notin KeysOf(proposal[m])
  <2>1. f \in HeldWith(S)
    BY <1>1, <1>2, InHeldWith
  <2>2. QED
    BY <1>1, <2>1 DEF Says
<1>3. ASSUME NEW m \in S, TitleKey(s) \in KeysOf(proposal[m])
      PROVE  Says(HeldWith(S), TitleKey(s))
  <2>1. m \in {1, 2} /\ Form(proposal[m], m)
    BY ProposalForms
  <2>2. NewSection \notin {1, 2}
    BY DEF NewSection
  <2>3. RenameForm(proposal[m], m, s)
    BY <1>3, <2>1, <2>2, KeyMeans, Keys
  <2>4. <<"title", s, "ai">> \in Gives(proposal[m])
    BY <2>1, <2>3, SectionForms
  <2>5. <<"title", s, "ai">> \in HeldWith(S)
    BY <2>4, InHeldWith
  <2>6. KeyOf(<<"title", s, "ai">>) = TitleKey(s)
    BY Keys
  <2>7. QED
    BY <2>5, <2>6 DEF Says
<1>4. QED
  BY <1>2, <1>3


\* The change acts on nothing that the others act on, and puts nothing into a section that
\* one of them removes.
Apart(S, n) ==
    \A m \in S : m # n =>
        /\ KeysOf(proposal[m]) \cap KeysOf(proposal[n]) = {}
        /\ \A s \in {1, 2} :
              ~(RemoveSectionForm(proposal[m], m, s) /\ PutsInto(proposal[n], s))

SectionItems(c, s) == c.sections[SectionAt(c, s)].items

\* A change that is not there applies; one that removes a section needs that the section's
\* items are in their order.
LEMMA MayUp ==
    ASSUME proposal \in Proposals, NEW n \in DOMAIN proposal, NEW c, Good(c),
           NEW S \in SUBSET DOMAIN proposal, n \notin S, Facts(c) = HeldWith(S), Apart(S, n),
           \A s \in {1, 2} : RemoveSectionForm(proposal[n], n, s) =>
              SectionItems(c, s) = Original.sections[s].items
    PROVE  CanApply(c, proposal[n])
<1> DEFINE a == proposal[n]
<1>1. n \in {1, 2} /\ Form(a, n)
  BY ProposalForms
<1>2. c \in Contents /\ Distinct(c)
  BY DEF Good
<1>3. \A f : f \in Facts(c) /\ KeyOf(f) \in KeysOf(a) <=> f \in Before(a)
  BY HeldThere DEF Apart
<1>4. \A f \in Before(a) : f \in Facts(c)
  BY <1>3
<1>5. \A k \in KeysOf(a) : Before(a) = {} => ~Says(Facts(c), k)
  BY <1>3 DEF Says
<1>6. ASSUME NEW s \in {1, 2}, PutsInto(a, s)
      PROVE  HasSection(c, s)
  <2>1. \A m \in S : ~RemoveSectionForm(proposal[m], m, s)
    BY <1>6 DEF Apart
  <2>2. QED
    BY <1>2, <2>1, SectionThere, SaysSection
<1> HIDE DEF a
<1>7. ASSUME NEW i \in OldItems, KeysOf(a) = {ItemKey(i)}
      PROVE  Unchanged(c, Old(i)) /\ Places(c, Old(i).id) # {}
  <2>1. <<"item", Home(i), Old(i)>> \in Before(a)
    BY <1>1, <1>7, ItemForms
  <2>2. QED
    BY <1>2, <1>4, <2>1, ItemUnchanged
<1>8. ASSUME NEW i \in OldItems, EditForm(a, n, i) \/ RemoveForm(a, n, i)
      PROVE  CanApply(c, a)
  <2>1. a.kind \in {"edit_item", "remove_item"} /\ a.item = Old(i)
    BY <1>8 DEF EditForm, RemoveForm
  <2>2. KeysOf(a) = {ItemKey(i)}
    BY <1>1, <1>8, ItemForms
  <2>3. QED
    BY <1>7, <2>1, <2>2 DEF CanApply
<1>9. ASSUME NEW i \in OldItems, NEW to \in Sites, MoveForm(a, n, i, to)
      PROVE  CanApply(c, a)
  <2>1. a.kind = "move_item" /\ a.item = Old(i) /\ a.to = to
    BY <1>9 DEF MoveForm
  <2>2. KeysOf(a) = {ItemKey(i)} /\ to.section \in {1, 2}
    BY <1>1, <1>9, MoveForms
  <2>3. HasSection(c, to.section)
    BY <1>6, <2>1, <2>2 DEF PutsInto
  <2>4. QED
    BY <1>7, <2>1, <2>2, <2>3 DEF CanApply
<1>10. ASSUME NEW to \in Sites, AddForm(a, n, to)
       PROVE  CanApply(c, a)
  <2>1. a.kind = "add_item" /\ a.item = NewItem(n) /\ a.section = to.section
    BY <1>10 DEF AddForm
  <2>2. to.section \in {1, 2}
    BY Items
  <2>3. HasSection(c, to.section)
    BY <1>6, <2>1, <2>2 DEF PutsInto
  <2>4. KeysOf(a) = {ItemKey(NewItem(n).id)} /\ Before(a) = {}
    BY <1>1, <1>10, AddForms
  <2>5. Places(c, NewItem(n).id) = {}
    BY <1>2, <1>5, <2>4, SaysItem
  <2>6. QED
    BY <2>1, <2>3, <2>5 DEF CanApply, CanAdd
<1>11. ASSUME NEW index \in Positions, AddSectionForm(a, n, index)
       PROVE  CanApply(c, a)
  <2>1. a.kind = "add_section" /\ a.section.id = NewSection
    BY <1>11 DEF AddSectionForm
  <2>2. TitleKey(NewSection) \in KeysOf(a) /\ Before(a) = {}
    BY <1>1, <1>11, AddForms
  <2>3. ~HasSection(c, NewSection)
    BY <1>2, <1>5, <2>2, SaysSection
  <2>4. QED
    BY <2>1, <2>3 DEF CanApply
<1>12. ASSUME NEW s \in {1, 2}, RemoveSectionForm(a, n, s)
       PROVE  CanApply(c, a)
  <2>1. a.kind = "remove_section"
    BY <1>12 DEF RemoveSectionForm
  <2>2. /\ a.section = Original.sections[s] /\ a.section.id = s
        /\ Before(a) = SectionFacts(a.section)
    BY <1>1, <1>12, SectionForms
  <2>3. <<"title", s, a.section.title>> \in Before(a)
    BY <2>2 DEF SectionFacts
  <2>4. HasSection(c, s)
    BY <1>2, <1>4, <2>3, TitleThere
  <2>5. SectionItems(c, s) = a.section.items
    BY <1>12, <2>2 DEF a
  <2>6. QED
    BY <2>1, <2>2, <2>4, <2>5 DEF CanApply, SectionItems
<1>13. ASSUME NEW s \in {1, 2}, RenameForm(a, n, s)
       PROVE  CanApply(c, a)
  <2>1. a.kind = "rename_section" /\ a.section = s /\ a.before = "original"
    BY <1>13 DEF RenameForm
  <2>2. <<"title", s, "original">> \in Before(a)
    BY <1>1, <1>13, SectionForms
  <2>3. HasSection(c, s) /\ c.sections[SectionAt(c, s)].title = "original"
    BY <1>2, <1>4, <2>2, TitleThere
  <2>4. QED
    BY <2>1, <2>3 DEF CanApply
<1>14. ASSUME DetailsForm(a, n)
       PROVE  CanApply(c, a)
  <2>1. a.kind = "update_details" /\ a.before = "original"
    BY <1>14 DEF DetailsForm
  <2>2. <<"details", 0, "original">> \in Before(a)
    BY <1>1, <1>14, SectionForms
  <2>3. c.details = "original"
    BY <1>2, <1>4, <2>2, FactIn, HoldsDetails
  <2>4. QED
    BY <2>1, <2>3 DEF CanApply
<1>15. CanApply(c, a)
  BY <1>1, <1>8, <1>9, <1>10, <1>11, <1>12, <1>13, <1>14 DEF Form
<1>16. QED
  BY <1>15 DEF a

\* The section that a change adds has its item and no other.
LEMMA NewSectionItems ==
    ASSUME proposal \in Proposals, NEW n \in DOMAIN proposal,
           NEW index \in Positions, AddSectionForm(proposal[n], n, index),
           NEW c, Good(c), NEW S \in SUBSET DOMAIN proposal, n \in S, Facts(c) = HeldWith(S)
    PROVE  HasSection(c, NewSection) /\ SectionItems(c, NewSection) = <<NewItem(n)>>
<1>1. n \in {1, 2} /\ \A m \in DOMAIN proposal : m \in {1, 2} /\ Form(proposal[m], m)
  BY ProposalForms
<1>2. c \in Contents /\ Distinct(c)
  BY DEF Good
<1>3. Gives(proposal[n]) = {<<"title", NewSection, "ai">>, <<"item", NewSection, NewItem(n)>>}
  BY <1>1, AddForms
<1>4. <<"title", NewSection, "ai">> \in Facts(c)
      /\ <<"item", NewSection, NewItem(n)>> \in Facts(c)
  BY <1>3, InHeldWith
<1>5. NewSection \notin {1, 2}
  BY DEF NewSection
<1>6. ASSUME NEW x, <<"item", NewSection, x>> \in Facts(c)
      PROVE  x = NewItem(n)
  <2>1. <<"item", NewSection, x>> \notin Facts(Original)
    BY <1>5, OriginalHolds
  <2>2. PICK m \in S : <<"item", NewSection, x>> \in Gives(proposal[m])
    BY <1>6, <2>1, InHeldWith
  <2>3. m \in {1, 2} /\ Form(proposal[m], m) /\ m \in DOMAIN proposal
    BY <1>1
  <2> DEFINE b == proposal[m]
  <2> HIDE DEF b
  <2>4. ASSUME NEW i \in OldItems, EditForm(b, m, i) \/ RemoveForm(b, m, i)
        PROVE  FALSE
    <3>1. Home(i) \in {1, 2}
      BY OriginalHolds
    <3>2. Gives(b) \in {{<<"item", Home(i), ByAI(i)>>}, {}}
      BY <2>3, <2>4, ItemForms
    <3>3. QED
      BY <1>5, <2>2, <3>1, <3>2 DEF b
  <2>5. ASSUME NEW i \in OldItems, NEW to \in Sites, MoveForm(b, m, i, to)
        PROVE  FALSE
    <3>0. m \in {1, 2}
      BY <2>3
    <3>1. Gives(b) = {<<"item", to.section, Old(i)>>}
      BY <2>5, <3>0, MoveForms
    <3>2. to.section \in {1, 2}
      BY <2>5, <3>0, MoveForms
    <3>3. QED
      BY <1>5, <2>2, <3>1, <3>2 DEF b
  <2>6. ASSUME NEW to \in Sites, AddForm(b, m, to)
        PROVE  FALSE
    <3>1. to.section \in {1, 2}
      BY Items
    <3>2. Gives(b) = {<<"item", to.section, NewItem(m)>>}
      BY <2>3, <2>6, AddForms
    <3>3. QED
      BY <1>5, <2>2, <3>1, <3>2 DEF b
  <2>7. ASSUME NEW index2 \in Positions, AddSectionForm(b, m, index2)
        PROVE  m = n
    <3>1. b.kind = "add_section" /\ proposal[n].kind = "add_section"
      BY <2>7 DEF AddSectionForm
    <3>2. Touched(b) = {<<"add_section", 1>>} /\ Touched(proposal[n]) = {<<"add_section", 1>>}
      BY <3>1 DEF Touched
    <3>3. QED
      BY <2>3, <3>2, ProposalApart DEF b
  <2>8. ASSUME NEW s \in {1, 2}, RemoveSectionForm(b, m, s) \/ RenameForm(b, m, s)
        PROVE  FALSE
    <3>1. Gives(b) \in {{}, {<<"title", s, "ai">>}}
      BY <2>3, <2>8, SectionForms
    <3>2. QED
      BY <2>2, <3>1 DEF b
  <2>9. ASSUME DetailsForm(b, m)
        PROVE  FALSE
    <3>1. Gives(b) = {<<"details", 0, "ai">>}
      BY <2>3, <2>9, SectionForms
    <3>2. QED
      BY <2>2, <3>1 DEF b
  <2>10. m = n
    <3>1. Form(b, m)
      BY <2>3 DEF b
    <3>2. QED
      BY <3>1, <2>4, <2>5, <2>6, <2>7, <2>8, <2>9 DEF Form
  <2>11. QED
    BY <1>3, <2>2, <2>10
<1> DEFINE p == SectionAt(c, NewSection)
           items == c.sections[p].items
<1>7. HasSection(c, NewSection)
  BY <1>2, <1>4, TitleThere
<1>8. p \in DOMAIN c.sections /\ c.sections[p].id = NewSection
  BY <1>2, <1>7, SectionPlace
<1>9. items \in Seq(ExamItems) /\ Len(items) \in Nat /\ DOMAIN items = 1..Len(items)
  BY <1>2, <1>8, ContentFacts
<1>10. \A q \in DOMAIN items : items[q] = NewItem(n)
  <2>1. ASSUME NEW q \in DOMAIN items
        PROVE  items[q] = NewItem(n)
    <3>1. <<NewSection, items[q]>> \in Holdings(c).items
      BY <1>8, HoldsItem
    <3>2. <<"item", NewSection, items[q]>> \in Facts(c)
      BY <1>2, <3>1, FactIn
    <3> HIDE DEF items
    <3>3. QED
      BY <1>6, <3>2
  <2>2. QED
    BY <2>1
<1>11. \E q \in DOMAIN items : items[q] = NewItem(n)
  <2>1. <<NewSection, NewItem(n)>> \in Holdings(c).items
    BY <1>2, <1>4, FactIn
  <2>2. PICK x \in DOMAIN c.sections : \E q \in DOMAIN c.sections[x].items :
            <<NewSection, NewItem(n)>> = <<c.sections[x].id, c.sections[x].items[q]>>
    BY <2>1, HoldsItem
  <2>3. x = p
    BY <1>2, <1>7, <2>2, SectionPlace
  <2>4. QED
    BY <2>2, <2>3
<1>12. \A q, k \in DOMAIN items : items[q].id = items[k].id => q = k
  BY <1>2, <1>8 DEF Distinct
<1> HIDE DEF items, p
<1>13. Len(items) = 1
  <2>1. \A q, k \in DOMAIN items : q = k
    BY <1>10, <1>12
  <2>2. 1 \in DOMAIN items
    BY <1>9, <1>11
  <2>3. Len(items) \in DOMAIN items
    BY <1>9, <2>2
  <2>4. QED
    BY <2>1, <2>2, <2>3
<1>14. items = <<NewItem(n)>>
  <2>1. DOMAIN items = {1}
    BY <1>9, <1>13
  <2>2. items[1] = NewItem(n)
    BY <1>10, <2>1
  <2>3. QED
    BY <1>9, <1>13, <2>2
<1>15. QED
  BY <1>7, <1>14 DEF SectionItems, items, p


\* A change that is there can be undone.
LEMMA MayDown ==
    ASSUME proposal \in Proposals, NEW n \in DOMAIN proposal, NEW c, Good(c),
           NEW S \in SUBSET DOMAIN proposal, n \in S, Facts(c) = HeldWith(S), Apart(S, n)
    PROVE  CanApply(c, InvertChange(proposal[n]))
<1> DEFINE a == proposal[n]
           b == InvertChange(a)
<1>1. n \in {1, 2} /\ Form(a, n)
  BY ProposalForms
<1>2. c \in Contents /\ Distinct(c)
  BY DEF Good
<1>3. \A f : f \in Facts(c) /\ KeyOf(f) \in KeysOf(a) <=> f \in Gives(a)
  BY HeldThere DEF Apart
<1>4. \A f \in Gives(a) : f \in Facts(c)
  BY <1>3
<1>5. \A k \in KeysOf(a) : Gives(a) = {} => ~Says(Facts(c), k)
  BY <1>3 DEF Says
<1>6. ASSUME NEW i \in OldItems, KeysOf(a) = {ItemKey(i)}
      PROVE  HasSection(c, Home(i))
  <2>1. Home(i) \in {1, 2}
    BY OriginalHolds
  <2>2. ASSUME NEW m \in S, RemoveSectionForm(proposal[m], m, Home(i))
        PROVE  FALSE
    <3>1. m \in {1, 2} /\ Form(proposal[m], m)
      BY ProposalForms
    <3>2. TitleKey(Home(i)) \in KeysOf(proposal[m]) /\ ItemKey(i) \in KeysOf(proposal[m])
      BY <2>1, <2>2, <3>1, SectionForms
    <3>3. m # n
      BY <1>6, <3>2, Keys
    <3>4. QED
      BY <1>6, <3>2, <3>3 DEF Apart
  <2>3. Says(HeldWith(S), TitleKey(Home(i)))
    BY <2>1, <2>2, SectionThere
  <2>4. QED
    BY <1>2, <2>3, SaysSection
<1> HIDE DEF a, b
<1>7. ASSUME NEW i \in OldItems, EditForm(a, n, i)
      PROVE  CanApply(c, b)
  <2>1. b.kind = "edit_item" /\ b.item = ByAI(i)
    <3>1. a.after = ByAI(i)
      BY <1>7 DEF EditForm, ByAI
    <3>2. IsEdit(b) /\ b.item = a.after
      BY <1>1, <1>7, Inverses DEF b
    <3>3. QED
      BY <3>1, <3>2 DEF IsEdit
  <2>2. <<"item", Home(i), ByAI(i)>> \in Gives(a)
    BY <1>1, <1>7, ItemForms
  <2>3. Unchanged(c, ByAI(i))
    BY <1>2, <1>4, <2>2, ItemUnchanged
  <2>4. QED
    BY <2>1, <2>3 DEF CanApply
<1>8. ASSUME NEW i \in OldItems, RemoveForm(a, n, i)
      PROVE  CanApply(c, b)
  <2>1. IsAdd(b) /\ b.item = Old(i) /\ b.section = Home(i)
    BY <1>1, <1>8, Inverses DEF b, Home
  <2>2. KeysOf(a) = {ItemKey(i)} /\ Gives(a) = {}
    BY <1>1, <1>8, ItemForms
  <2>3. Places(c, i) = {} /\ HasSection(c, Home(i))
    BY <1>2, <1>5, <1>6, <2>2, SaysItem
  <2>4. Old(i).id = i
    BY Items
  <2>5. QED
    BY <2>1, <2>3, <2>4 DEF CanApply, CanAdd, IsAdd
<1>9. ASSUME NEW i \in OldItems, NEW to \in Sites, MoveForm(a, n, i, to)
      PROVE  CanApply(c, b)
  <2>1. IsMove(b) /\ b.item = Old(i) /\ b.to.section = Home(i)
    <3>1. IsMove(b) /\ b.item = Old(i) /\ b.to = OriginalSite(i)
      BY <1>1, <1>9, Inverses DEF b
    <3>2. QED
      BY <3>1 DEF Home
  <2>2. KeysOf(a) = {ItemKey(i)} /\ Gives(a) = {<<"item", to.section, Old(i)>>}
    BY <1>1, <1>9, MoveForms
  <2>3. Places(c, Old(i).id) # {}
    BY <1>2, <1>4, <2>2, ItemUnchanged
  <2>4. QED
    BY <1>6, <2>1, <2>2, <2>3 DEF CanApply, IsMove
<1>10. ASSUME NEW to \in Sites, AddForm(a, n, to)
       PROVE  CanApply(c, b)
  <2>1. IsRemove(b) /\ b.item = NewItem(n)
    BY <1>1, <1>10, Inverses DEF b
  <2>2. <<"item", to.section, NewItem(n)>> \in Gives(a)
    BY <1>1, <1>10, AddForms
  <2>3. Unchanged(c, NewItem(n))
    BY <1>2, <1>4, <2>2, ItemUnchanged
  <2>4. QED
    BY <2>1, <2>3 DEF CanApply, IsRemove
<1>11. ASSUME NEW index \in Positions, AddSectionForm(a, n, index)
       PROVE  CanApply(c, b)
  <2>1. IsRemoveSection(b) /\ b.section = a.section
    BY <1>1, <1>11, Inverses DEF b
  <2>2. a.section.id = NewSection /\ a.section.items = <<NewItem(n)>>
    BY <1>11 DEF AddSectionForm
  <2>3. HasSection(c, NewSection) /\ SectionItems(c, NewSection) = <<NewItem(n)>>
    BY <1>11, NewSectionItems DEF a
  <2>4. QED
    BY <2>1, <2>2, <2>3 DEF CanApply, IsRemoveSection, SectionItems
<1>12. ASSUME NEW s \in {1, 2}, RemoveSectionForm(a, n, s)
       PROVE  CanApply(c, b)
  <2>1. IsAddSection(b) /\ b.section = a.section
    BY <1>1, <1>12, Inverses DEF b
  <2>2. a.section.id = s /\ Gives(a) = {} /\ TitleKey(s) \in KeysOf(a)
    BY <1>1, <1>12, SectionForms
  <2>3. ~HasSection(c, s)
    BY <1>2, <1>5, <2>2, SaysSection
  <2>4. QED
    BY <2>1, <2>2, <2>3 DEF CanApply, IsAddSection
<1>13. ASSUME NEW s \in {1, 2}, RenameForm(a, n, s)
       PROVE  CanApply(c, b)
  <2>1. IsRename(b) /\ b.section = s /\ b.before = "ai"
    <3>1. a.after = "ai"
      BY <1>13 DEF RenameForm
    <3>2. IsRename(b) /\ b.section = s /\ b.before = a.after
      BY <1>1, <1>13, Inverses DEF b
    <3>3. QED
      BY <3>1, <3>2
  <2>2. <<"title", s, "ai">> \in Gives(a)
    BY <1>1, <1>13, SectionForms
  <2>3. HasSection(c, s) /\ c.sections[SectionAt(c, s)].title = "ai"
    BY <1>2, <1>4, <2>2, TitleThere
  <2>4. QED
    BY <2>1, <2>3 DEF CanApply, IsRename
<1>14. ASSUME DetailsForm(a, n)
       PROVE  CanApply(c, b)
  <2>1. IsDetails(b) /\ b.before = "ai"
    <3>1. a.after = "ai"
      BY <1>14 DEF DetailsForm
    <3>2. IsDetails(b) /\ b.before = a.after
      BY <1>1, <1>14, Inverses DEF b
    <3>3. QED
      BY <3>1, <3>2
  <2>2. <<"details", 0, "ai">> \in Gives(a)
    BY <1>1, <1>14, SectionForms
  <2>3. c.details = "ai"
    BY <1>2, <1>4, <2>2, FactIn, HoldsDetails
  <2>4. QED
    BY <2>1, <2>3 DEF CanApply, IsDetails
<1>15. CanApply(c, b)
  BY <1>1, <1>7, <1>8, <1>9, <1>10, <1>11, <1>12, <1>13, <1>14 DEF Form
<1>16. QED
  BY <1>15 DEF a, b

\* The changes that are there do not stand in the way of another, nor of its undoing.
LEMMA TogetherApart ==
    ASSUME proposal \in Proposals, NEW S \in SUBSET DOMAIN proposal,
           NEW n \in DOMAIN proposal, ~Clash \/ S \subseteq {n}
    PROVE  Apart(S, n)
BY DEF Apart, Clash

-------------------------------------------------------------------------------
(* The order of the items of a section, which only the removal of the      *)
(* section needs.                                                          *)

LEMMA ItemsAt ==
    ASSUME NEW c \in Contents, Distinct(c), NEW p \in DOMAIN c.sections
    PROVE  /\ HasSection(c, c.sections[p].id)
           /\ SectionItems(c, c.sections[p].id) = c.sections[p].items
<1>1. HasSection(c, c.sections[p].id)
  BY DEF HasSection
<1>2. SectionAt(c, c.sections[p].id) = p
  BY <1>1, SectionPlace
<1>3. QED
  BY <1>1, <1>2 DEF SectionItems

\* The sections are kept in place, except that one has other items.
LEMMA WithItemsFrame ==
    ASSUME NEW c \in Contents, Distinct(c), NEW p \in DOMAIN c.sections, NEW items,
           WithItems(c, p, items) \in Contents, Distinct(WithItems(c, p, items))
    PROVE  LET d == WithItems(c, p, items) IN
           /\ SectionItems(d, c.sections[p].id) = items
           /\ \A s : s # c.sections[p].id /\ HasSection(c, s) =>
                 HasSection(d, s) /\ SectionItems(d, s) = SectionItems(c, s)
<1> DEFINE d == WithItems(c, p, items)
<1>1. /\ DOMAIN d.sections = DOMAIN c.sections
      /\ d.sections[p].id = c.sections[p].id /\ d.sections[p].items = items
      /\ \A q \in DOMAIN c.sections : q # p => d.sections[q] = c.sections[q]
  <2>1. /\ c = [details |-> c.details, sections |-> c.sections]
        /\ c.sections[p] = [id |-> c.sections[p].id, title |-> c.sections[p].title,
                            items |-> c.sections[p].items]
        /\ c.sections \in Seq(ExamSections)
    BY ContentFacts
  <2>2. d.sections = [c.sections EXCEPT ![p].items = items]
    BY <2>1 DEF WithItems
  <2>3. QED
    BY <2>1, <2>2
<1>2. d \in Contents /\ Distinct(d)
  OBVIOUS
<1> HIDE DEF d
<1>3. SectionItems(d, c.sections[p].id) = items
  BY <1>1, <1>2, ItemsAt
<1>4. ASSUME NEW s, s # c.sections[p].id, HasSection(c, s)
      PROVE  HasSection(d, s) /\ SectionItems(d, s) = SectionItems(c, s)
  <2> DEFINE q == SectionAt(c, s)
  <2>1. q \in DOMAIN c.sections /\ c.sections[q].id = s
    BY <1>4, SectionPlace
  <2> HIDE DEF q
  <2>2. q # p
    BY <1>4, <2>1
  <2>3. d.sections[q] = c.sections[q] /\ q \in DOMAIN d.sections
    BY <1>1, <2>1, <2>2
  <2>4. HasSection(d, s) /\ SectionItems(d, s) = d.sections[q].items
    BY <1>2, <2>1, <2>3, ItemsAt
  <2>5. QED
    BY <2>3, <2>4 DEF SectionItems, q
<1>5. QED
  BY <1>3, <1>4 DEF d

LEMMA WithFrame ==
    ASSUME NEW c \in Contents, Distinct(c), NEW t, HasSection(c, t), NEW index \in Nat,
           NEW item \in ExamItems, Places(c, item.id) = {}
    PROVE  LET d == With(c, t, index, item) IN
           /\ SectionItems(d, t) = Splice(SectionItems(c, t), index, item)
           /\ \A s : s # t /\ HasSection(c, s) =>
                 HasSection(d, s) /\ SectionItems(d, s) = SectionItems(c, s)
<1> DEFINE p == SectionAt(c, t)
           items == Splice(SectionItems(c, t), index, item)
           d == With(c, t, index, item)
<1>1. p \in DOMAIN c.sections /\ c.sections[p].id = t
  BY SectionPlace
<1>2. d \in Contents /\ Distinct(d)
  BY WithStep
<1>3. d = WithItems(c, p, items)
  BY DEF With, SectionItems
<1> HIDE DEF p, items, d
<1>4. /\ SectionItems(d, t) = items
      /\ \A s : s # t /\ HasSection(c, s) =>
            HasSection(d, s) /\ SectionItems(d, s) = SectionItems(c, s)
  BY <1>1, <1>2, <1>3, WithItemsFrame
<1>5. QED
  BY <1>4 DEF d, items

LEMMA WithoutFrame ==
    ASSUME NEW c \in Contents, Distinct(c), NEW i, Places(c, i) # {}
    PROVE  LET d == Without(c, i)
               x == FindItem(c, i)
               t == c.sections[x[1]].id
           IN
           /\ SectionItems(d, t) = Edits!RemoveAt(SectionItems(c, t), x[2])
           /\ \A s : s # t /\ HasSection(c, s) =>
                 HasSection(d, s) /\ SectionItems(d, s) = SectionItems(c, s)
<1> DEFINE x == FindItem(c, i)
           p == x[1]
           t == c.sections[p].id
           items == Edits!RemoveAt(c.sections[p].items, x[2])
           d == Without(c, i)
<1>1. p \in DOMAIN c.sections
  BY ItemPlace
<1>2. d \in Contents /\ Distinct(d)
  BY WithoutStep
<1>3. d = WithItems(c, p, items)
  BY DEF Without
<1>4. SectionItems(c, t) = c.sections[p].items
  BY <1>1, ItemsAt
<1> HIDE DEF d, x
<1>5. /\ SectionItems(d, t) = items
      /\ \A s : s # t /\ HasSection(c, s) =>
            HasSection(d, s) /\ SectionItems(d, s) = SectionItems(c, s)
  <2> HIDE DEF items, p
  <2>1. QED
    BY <1>1, <1>2, <1>3, WithItemsFrame
<1>6. QED
  BY <1>4, <1>5 DEF d, x

LEMMA Reinserted ==
    ASSUME NEW T, NEW s \in Seq(T), NEW q \in 1..Len(s)
    PROVE  Edits!InsertAt(Edits!RemoveAt(s, q), q, s[q]) = s
<1> DEFINE r == Edits!RemoveAt(s, q)
           u == Edits!InsertAt(r, q, s[q])
<1>1. /\ r \in Seq(T) /\ Len(r) = Len(s) - 1
      /\ \A i \in 1..Len(r) : r[i] = IF i < q THEN s[i] ELSE s[i + 1]
  BY RemoveFacts
<1>2. Len(s) \in Nat /\ DOMAIN s = 1..Len(s) /\ s[q] \in T /\ q \in 1..(Len(r) + 1)
  BY <1>1
<1> HIDE DEF r
<1>3. /\ u \in Seq(T) /\ Len(u) = Len(r) + 1
      /\ \A i \in 1..Len(u) : u[i] = IF i < q THEN r[i] ELSE IF i = q THEN s[q] ELSE r[i - 1]
  BY <1>1, <1>2, InsertFacts
<1> HIDE DEF u
<1>4. Len(u) = Len(s)
  BY <1>1, <1>2, <1>3
<1>5. ASSUME NEW i \in 1..Len(s)
      PROVE  u[i] = s[i]
  <2>1. CASE i < q
    <3>1. i \in 1..Len(r) /\ i \in 1..Len(u)
      BY <1>1, <1>2, <1>4, <2>1
    <3>2. u[i] = r[i]
      BY <1>3, <2>1, <3>1
    <3>3. r[i] = s[i]
      BY <1>1, <2>1, <3>1
    <3>4. QED
      BY <3>2, <3>3
  <2>2. CASE i = q
    BY <1>3, <1>4, <2>2
  <2>3. CASE i > q
    <3>1. i - 1 \in 1..Len(r) /\ ~(i - 1 < q) /\ (i - 1) + 1 = i
      BY <1>1, <1>2, <2>3
    <3>2. u[i] = r[i - 1]
      BY <1>2, <1>3, <1>4, <2>3
    <3>3. QED
      BY <1>1, <3>1, <3>2
  <2>4. QED
    BY <1>2, <2>1, <2>2, <2>3
<1>6. u = s
  BY <1>2, <1>3, <1>4, <1>5
<1>7. QED
  BY <1>6 DEF u, r

\* An item is in another section than one that says nothing of it.
LEMMA Elsewhere ==
    ASSUME NEW c \in Contents, Distinct(c), NEW i, Places(c, i) # {}, NEW s,
           \A it : it.id = i => <<"item", s, it>> \notin Facts(c)
    PROVE  c.sections[FindItem(c, i)[1]].id # s
<1> DEFINE x == FindItem(c, i)
           p == x[1]
           q == x[2]
<1>1. /\ p \in DOMAIN c.sections /\ q \in DOMAIN c.sections[p].items
      /\ c.sections[p].items[q].id = i
  BY ItemPlace
<1> HIDE DEF p, q
<1>2. <<c.sections[p].id, c.sections[p].items[q]>> \in Holdings(c).items
  BY <1>1, HoldsItem
<1>3. <<"item", c.sections[p].id, c.sections[p].items[q]>> \in Facts(c)
  BY <1>2, FactIn
<1>4. c.sections[p].id # s
  BY <1>1, <1>3
<1>5. QED
  BY <1>4 DEF p

LEMMA SameItems ==
    ASSUME NEW c \in Contents, Distinct(c), NEW d \in Contents, Distinct(d), NEW s,
           NEW p \in DOMAIN c.sections, c.sections[p].id = s, NEW q \in DOMAIN d.sections,
           d.sections[q].id = s, d.sections[q].items = c.sections[p].items
    PROVE  SectionItems(d, s) = SectionItems(c, s)
<1>1. SectionItems(c, s) = c.sections[p].items
  BY ItemsAt
<1>2. SectionItems(d, s) = d.sections[q].items
  BY ItemsAt
<1>3. QED
  BY <1>1, <1>2

\* A change of other items and other sections leaves the items of a section in their order.
LEMMA ItemFrame ==
    ASSUME NEW c \in Contents, Distinct(c), NEW s, HasSection(c, s), NEW ch, CanApply(c, ch),
           NEW i, IsEdit(ch) \/ IsRemove(ch) \/ IsMove(ch), ch.item.id = i,
           ~PutsInto(ch, s), \A it : it.id = i => <<"item", s, it>> \notin Facts(c),
           ApplyChange(c, ch) \in Contents, Distinct(ApplyChange(c, ch))
    PROVE  SectionItems(ApplyChange(c, ch), s) = SectionItems(c, s)
<1> DEFINE x == FindItem(c, i)
           p == x[1]
<1>1. Places(c, i) # {}
  BY DEF CanApply, Unchanged, IsEdit, IsRemove, IsMove
<1>a. c.sections[FindItem(c, i)[1]].id # s
  BY <1>1, Elsewhere
<1>b. FindItem(c, i)[1] \in DOMAIN c.sections
  BY <1>1, ItemPlace
<1>2. p \in DOMAIN c.sections /\ c.sections[p].id # s
  BY <1>a, <1>b
<1>3. CASE IsEdit(ch)
  <2> DEFINE items == [c.sections[p].items EXCEPT ![x[2]] = ch.after]
  <2>1. ApplyChange(c, ch) = WithItems(c, p, items)
    BY <1>3 DEF ApplyChange, IsEdit
  <2>2. WithItems(c, p, items) \in Contents /\ Distinct(WithItems(c, p, items))
    BY <2>1
  <2> HIDE DEF items, p
  <2>3. SectionItems(WithItems(c, p, items), s) = SectionItems(c, s)
    BY <1>2, <2>2, WithItemsFrame
  <2>4. QED
    BY <2>1, <2>3
<1>4. CASE IsRemove(ch)
  <2>1. ApplyChange(c, ch) = Without(c, i)
    BY <1>4 DEF ApplyChange, IsRemove
  <2>2. SectionItems(Without(c, i), s) = SectionItems(c, s)
    BY <1>1, <1>2, WithoutFrame
  <2>3. QED
    BY <2>1, <2>2
<1>5. CASE IsMove(ch)
  <2> DEFINE d == Without(c, i)
             item == ItemAt(c, x)
             t == ch.to.section
  <2>1. ApplyChange(c, ch) = With(d, t, ch.to.index, item)
    BY <1>5 DEF ApplyChange, IsMove
  <2>2. HasSection(c, t) /\ t # s /\ ch.to.index \in Nat
    BY <1>5 DEF CanApply, IsMove, PutsInto
  <2>3. /\ d \in Contents /\ Distinct(d) /\ item \in ExamItems /\ item.id = i
        /\ Places(d, i) = {} /\ Holdings(d).titles = Holdings(c).titles
    BY <1>1, WithoutStep
  <2>4. HasSection(d, t) /\ HasSection(d, s)
    BY <2>2, <2>3, HasSectionHeld
  <2>5. SectionItems(d, s) = SectionItems(c, s)
    BY <1>1, <1>2, WithoutFrame
  <2> HIDE DEF d, item, t
  <2>6. SectionItems(With(d, t, ch.to.index, item), s) = SectionItems(d, s)
    BY <2>2, <2>3, <2>4, WithFrame
  <2>7. QED
    BY <2>1, <2>5, <2>6
<1>6. QED
  BY <1>3, <1>4, <1>5

LEMMA SectionFrame ==
    ASSUME NEW c \in Contents, Distinct(c), NEW s, HasSection(c, s), NEW ch, CanApply(c, ch),
           \/ IsAdd(ch) /\ ch.section # s
           \/ IsAddSection(ch)
           \/ IsRemoveSection(ch) /\ ch.section.id # s
           \/ IsRename(ch)
           \/ IsDetails(ch),
           ApplyChange(c, ch) \in Contents, Distinct(ApplyChange(c, ch))
    PROVE  SectionItems(ApplyChange(c, ch), s) = SectionItems(c, s)
<1> DEFINE p == SectionAt(c, s)
           d == ApplyChange(c, ch)
<1>1. p \in DOMAIN c.sections /\ c.sections[p].id = s
  BY SectionPlace
<1>2. /\ c.sections \in Seq(ExamSections) /\ Len(c.sections) \in Nat
      /\ DOMAIN c.sections = 1..Len(c.sections)
      /\ c = [details |-> c.details, sections |-> c.sections]
  BY ContentFacts
<1>3. d \in Contents /\ Distinct(d)
  OBVIOUS
<1>4. CASE IsAdd(ch) /\ ch.section # s
  <2>1. d = With(c, ch.section, ch.index, ch.item)
    BY <1>4 DEF ApplyChange, IsAdd
  <2>2. HasSection(c, ch.section) /\ Places(c, ch.item.id) = {}
        /\ ch.item \in ExamItems /\ ch.index \in Nat
    BY <1>4 DEF CanApply, CanAdd, IsAdd
  <2> HIDE DEF d
  <2>3. QED
    BY <1>4, <2>1, <2>2, WithFrame DEF d
<1>5. CASE IsAddSection(ch)
  <2> DEFINE k == Clamp(ch.index, Len(c.sections)) + 1
             new == Edits!InsertAt(c.sections, k, ch.section)
             q == IF p < k THEN p ELSE p + 1
  <2>1. d.sections = new
    BY <1>2, <1>5 DEF ApplyChange, IsAddSection, Splice
  <2>2. k \in 1..(Len(c.sections) + 1) /\ ch.section \in ExamSections
    BY <1>2, <1>5, ClampFacts DEF IsAddSection
  <2> HIDE DEF k, new, d, p
  <2>3. /\ Len(new) = Len(c.sections) + 1 /\ new \in Seq(ExamSections)
        /\ \A j \in 1..Len(new) : new[j] = IF j < k THEN c.sections[j]
                                           ELSE IF j = k THEN ch.section ELSE c.sections[j - 1]
    BY <1>2, <2>2, InsertFacts DEF new
  <2>4. q \in 1..Len(new) /\ DOMAIN new = 1..Len(new) /\ q - 1 \in Int
    BY <1>1, <1>2, <2>2, <2>3
  <2>5. new[q] = c.sections[p]
    BY <1>1, <1>2, <2>2, <2>3, <2>4
  <2> HIDE DEF q
  <2>6. QED
    BY <1>1, <1>3, <2>1, <2>4, <2>5, SameItems DEF d
<1>6. CASE IsRemoveSection(ch) /\ ch.section.id # s
  <2> DEFINE at == SectionAt(c, ch.section.id)
             new == Edits!RemoveAt(c.sections, at)
             q == IF p < at THEN p ELSE p - 1
  <2>1. d.sections = new
    BY <1>2, <1>6 DEF ApplyChange, IsRemoveSection
  <2>2. HasSection(c, ch.section.id)
    BY <1>6 DEF CanApply, IsRemoveSection
  <2>3. at \in DOMAIN c.sections /\ c.sections[at].id = ch.section.id
    BY <2>2, SectionPlace
  <2> HIDE DEF at, new, d, p
  <2>4. /\ Len(new) = Len(c.sections) - 1 /\ new \in Seq(ExamSections)
        /\ \A j \in 1..Len(new) : new[j] = IF j < at THEN c.sections[j] ELSE c.sections[j + 1]
    BY <1>2, <2>3, RemoveFacts DEF new
  <2>5. p # at
    BY <1>1, <1>6, <2>3
  <2>6. q \in 1..Len(new) /\ DOMAIN new = 1..Len(new)
    BY <1>1, <1>2, <2>3, <2>4, <2>5
  <2>7. new[q] = c.sections[p]
    BY <1>1, <1>2, <2>3, <2>4, <2>5, <2>6
  <2> HIDE DEF q
  <2>8. QED
    BY <1>1, <1>3, <2>1, <2>6, <2>7, SameItems DEF d
<1>7. CASE IsRename(ch)
  <2> DEFINE at == SectionAt(c, ch.section)
  <2>1. d.sections = [c.sections EXCEPT ![at].title = ch.after]
    BY <1>2, <1>7 DEF ApplyChange, IsRename
  <2>2. HasSection(c, ch.section)
    BY <1>7 DEF CanApply, IsRename
  <2>3. at \in DOMAIN c.sections
    BY <2>2, SectionPlace
  <2>4. c.sections[p] = [id |-> c.sections[p].id, title |-> c.sections[p].title,
                         items |-> c.sections[p].items]
    BY <1>1, ContentFacts
  <2> HIDE DEF at, d, p
  <2>5. /\ p \in DOMAIN d.sections /\ d.sections[p].id = s
        /\ d.sections[p].items = c.sections[p].items
    BY <1>1, <2>1, <2>3, <2>4
  <2>6. QED
    BY <1>1, <1>3, <2>5, SameItems DEF d
<1>8. CASE IsDetails(ch)
  <2>1. d.sections = c.sections
    BY <1>2, <1>8 DEF ApplyChange, IsDetails
  <2> HIDE DEF d, p
  <2>2. QED
    BY <1>1, <1>3, <2>1, SameItems DEF d
<1>9. QED
  BY <1>4, <1>5, <1>6, <1>7, <1>8

\* An item that is moved within its section.
LEMMA MoveWithin ==
    ASSUME NEW c \in Contents, Distinct(c), NEW ch, IsMove(ch), CanApply(c, ch), NEW s,
           NEW item, item.id = ch.item.id, <<"item", s, item>> \in Facts(c), ch.to.section = s
    PROVE  LET L == SectionItems(c, s)
               q == FindItem(c, item.id)[2]
           IN
           /\ L \in Seq(ExamItems) /\ q \in 1..Len(L) /\ L[q] = item
           /\ \A k \in 1..Len(L) : L[k].id = item.id => k = q
           /\ SectionItems(ApplyChange(c, ch), s)
                 = Edits!InsertAt(Edits!RemoveAt(L, q),
                                    Clamp(ch.to.index, Len(L) - 1) + 1, item)
<1> DEFINE i == item.id
           x == FindItem(c, i)
           p == x[1]
           q == x[2]
           L == c.sections[p].items
           d == Without(c, i)
           rest == Edits!RemoveAt(L, q)
<1>1. Places(c, i) # {}
  BY ItemUnchanged
<1>2. /\ p \in DOMAIN c.sections /\ q \in DOMAIN L
      /\ \A j \in DOMAIN c.sections : \A k \in DOMAIN c.sections[j].items :
            c.sections[j].items[k].id = i => j = p /\ k = q
  BY <1>1, ItemPlace
<1>3. <<s, item>> \in Holdings(c).items
  BY FactIn
<1>4. PICK j \in DOMAIN c.sections : \E k \in DOMAIN c.sections[j].items :
          <<s, item>> = <<c.sections[j].id, c.sections[j].items[k]>>
  BY <1>3, HoldsItem
<1>5. PICK k \in DOMAIN c.sections[j].items :
          <<s, item>> = <<c.sections[j].id, c.sections[j].items[k]>>
  BY <1>4
<1>6. c.sections[p].id = s /\ L[q] = item
  <2>1. s = c.sections[j].id /\ item = c.sections[j].items[k]
    BY <1>5
  <2>2. j = p /\ k = q
    BY <1>2, <2>1
  <2>3. QED
    BY <2>1, <2>2
<1>7. /\ L \in Seq(ExamItems) /\ DOMAIN L = 1..Len(L) /\ Len(L) \in Nat
      /\ L[q] \in ExamItems
  <2> HIDE DEF p, q
  <2>1. \A w \in DOMAIN c.sections : c.sections[w].items \in Seq(ExamItems)
    BY ContentFacts
  <2>2. L \in Seq(ExamItems)
    BY <1>2, <2>1
  <2> HIDE DEF L
  <2>3. QED
    BY <1>2, <2>2
<1>8. SectionItems(c, s) = L /\ HasSection(c, s)
  BY <1>2, <1>6, ItemsAt
<1>9. /\ d \in Contents /\ Distinct(d) /\ Places(d, i) = {} /\ ItemAt(c, x) = item
      /\ Holdings(d).titles = Holdings(c).titles
  <2>1. ItemAt(c, x) = L[q]
    BY DEF ItemAt
  <2>2. QED
    BY <1>1, <1>6, <2>1, WithoutStep
<1>10. ApplyChange(c, ch) = With(d, s, ch.to.index, item)
  BY <1>9 DEF ApplyChange, IsMove
<1>11. HasSection(d, s)
  BY <1>8, <1>9, HasSectionHeld
<1>12. SectionItems(d, s) = Edits!RemoveAt(SectionItems(c, s), q)
  BY <1>1, <1>6, WithoutFrame
<1> HIDE DEF d, p, q, L, x
<1>13. rest \in Seq(ExamItems) /\ Len(rest) = Len(L) - 1
  BY <1>2, <1>7, RemoveFacts
<1>14. SectionItems(With(d, s, ch.to.index, item), s)
          = Splice(SectionItems(d, s), ch.to.index, item)
  <2>1. item \in ExamItems /\ ch.to.index \in Nat /\ Places(d, item.id) = {}
    BY <1>6, <1>7, <1>9 DEF IsMove
  <2>2. QED
    BY <1>9, <1>11, <2>1, WithFrame
<1>15. SectionItems(ApplyChange(c, ch), s)
          = Edits!InsertAt(rest, Clamp(ch.to.index, Len(L) - 1) + 1, item)
  BY <1>8, <1>10, <1>12, <1>13, <1>14 DEF Splice
<1>16. \A k1 \in 1..Len(L) : L[k1].id = i => k1 = q
  BY <1>2, <1>7 DEF L
<1>17. QED
  BY <1>2, <1>6, <1>7, <1>8, <1>15, <1>16 DEF q, x

\* One that leaves a section as it was in the original leaves the original's so.
LEMMA TwistStays ==
    ASSUME NEW c \in Contents, Distinct(c), NEW o \in Contents, Distinct(o),
           NEW ch, IsMove(ch),
           CanApply(c, ch), CanApply(o, ch), NEW s, ch.to.section = s,
           NEW item, item.id = ch.item.id, <<"item", s, item>> \in Facts(c),
           <<"item", s, item>> \in Facts(o),
           SectionItems(ApplyChange(c, ch), s) = SectionItems(o, s)
    PROVE  SectionItems(ApplyChange(o, ch), s) = SectionItems(o, s)
<1> DEFINE L == SectionItems(c, s)
           q == FindItem(c, item.id)[2]
           M == SectionItems(o, s)
           t == FindItem(o, item.id)[2]
           at == Clamp(ch.to.index, Len(L) - 1) + 1
<1>1. /\ L \in Seq(ExamItems) /\ q \in 1..Len(L) /\ L[q] = item
      /\ M = Edits!InsertAt(Edits!RemoveAt(L, q), at, item)
  BY MoveWithin
<1>2. /\ M \in Seq(ExamItems) /\ t \in 1..Len(M) /\ M[t] = item
      /\ \A k \in 1..Len(M) : M[k].id = item.id => k = t
      /\ SectionItems(ApplyChange(o, ch), s)
            = Edits!InsertAt(Edits!RemoveAt(M, t), Clamp(ch.to.index, Len(M) - 1) + 1, item)
  BY MoveWithin
<1>3. Len(L) \in Nat /\ Len(L) - 1 \in Nat /\ ch.to.index \in Nat /\ item \in ExamItems
  BY <1>1 DEF IsMove
<1>4. at \in 1..((Len(L) - 1) + 1)
  BY <1>3, ClampFacts
<1> HIDE DEF L, M, q, t, at
<1>5. Edits!RemoveAt(L, q) \in Seq(ExamItems) /\ Len(Edits!RemoveAt(L, q)) = Len(L) - 1
  BY <1>1, RemoveFacts
<1>6. Len(M) = Len(L) /\ M[at] = item
  <2> DEFINE r == Edits!RemoveAt(L, q)
  <2>1. r \in Seq(ExamItems) /\ Len(r) = Len(L) - 1 /\ at \in 1..(Len(r) + 1)
    BY <1>4, <1>5
  <2> HIDE DEF r
  <2> DEFINE u == Edits!InsertAt(r, at, item)
  <2>a. Inserted(u, ExamItems, r, at, item)
    BY <1>3, <2>1, InsertedAt
  <2>2. /\ Len(u) = Len(r) + 1
        /\ \A j \in 1..Len(u) :
              u[j] = IF j < at THEN r[j] ELSE IF j = at THEN item ELSE r[j - 1]
    BY <2>a DEF Inserted
  <2>3. M = u
    BY <1>1 DEF r
  <2> HIDE DEF u
  <2>4. Len(M) = Len(L) /\ at \in 1..Len(M)
    BY <1>3, <2>1, <2>2, <2>3
  <2>5. M[at] = item
    BY <1>3, <1>4, <2>2, <2>3, <2>4
  <2>6. QED
    BY <2>4, <2>5
<1>7. at = t
  BY <1>2, <1>3, <1>4, <1>6
<1>8. Edits!InsertAt(Edits!RemoveAt(M, t), t, M[t]) = M
  BY <1>2, Reinserted
<1>9. Clamp(ch.to.index, Len(M) - 1) + 1 = t
  BY <1>6, <1>7 DEF at
<1>10. SectionItems(ApplyChange(o, ch), s) = M
  BY <1>2, <1>8, <1>9
<1>11. QED
  BY <1>10 DEF M

-------------------------------------------------------------------------------
(* The original with some of the changes.                                  *)

LEMMA OriginalMay ==
    ASSUME proposal \in Proposals
    PROVE  /\ Good(Original) /\ Facts(Original) = HeldWith({})
           /\ \A n \in DOMAIN proposal : CanApply(Original, proposal[n])
           /\ \A s \in {1, 2} : HasSection(Original, s)
                 /\ SectionItems(Original, s) = Original.sections[s].items
<1>1. Good(Original)
  BY GoodOriginal
<1>2. Facts(Original) = HeldWith({})
  BY DEF HeldWith
<1>3. ASSUME NEW s \in {1, 2}
      PROVE  HasSection(Original, s) /\ SectionItems(Original, s) = Original.sections[s].items
  <2>1. Original \in Contents /\ Distinct(Original) /\ s \in DOMAIN Original.sections
    BY OriginalFacts
  <2>2. Original.sections[s].id = s
    BY OriginalFacts
  <2>3. QED
    BY <2>1, <2>2, ItemsAt
<1>4. ASSUME NEW n \in DOMAIN proposal
      PROVE  CanApply(Original, proposal[n])
  <2>1. Apart({}, n)
    BY DEF Apart
  <2>2. QED
    BY <1>1, <1>2, <1>3, <2>1, MayUp
<1>5. QED
  BY <1>1, <1>2, <1>3, <1>4

\* A change that leaves a section's items alone leaves them in their order.
LEMMA NotThrough ==
    ASSUME proposal \in Proposals, NEW n \in DOMAIN proposal, NEW s \in {1, 2},
           ~RemoveSectionForm(proposal[n], n, s), ~PutsInto(proposal[n], s),
           \A i \in OldItems : TouchesItem(proposal[n], i) => Home(i) # s
    PROVE  SectionItems(ApplyChange(Original, proposal[n]), s) = Original.sections[s].items
<1> DEFINE a == proposal[n]
           d == ApplyChange(Original, a)
<1>1. n \in {1, 2} /\ Form(a, n)
  BY ProposalForms
<1>2. CanApply(Original, a)
  BY OriginalMay
<1>3. /\ Original \in Contents /\ Distinct(Original) /\ HasSection(Original, s)
      /\ SectionItems(Original, s) = Original.sections[s].items
  BY OriginalMay DEF Good
<1>4. d \in Contents /\ Distinct(d)
  <2>1. Good(d)
    BY <1>2, OriginalMay, GoodStep
  <2>2. QED
    BY <2>1 DEF Good
<1>5. ~PutsInto(a, s) /\ ~RemoveSectionForm(a, n, s)
      /\ \A i \in OldItems : TouchesItem(a, i) => Home(i) # s
  OBVIOUS
<1> SUFFICES SectionItems(d, s) = Original.sections[s].items
  OBVIOUS
<1> HIDE DEF a, d
<1>6. ASSUME NEW i \in OldItems, TouchesItem(a, i), IsEdit(a) \/ IsRemove(a) \/ IsMove(a)
      PROVE  SectionItems(d, s) = SectionItems(Original, s)
  <2>1. a.item.id = i
    BY <1>6, Items DEF TouchesItem
  <2>2. ASSUME NEW it, it.id = i, <<"item", s, it>> \in Facts(Original)
        PROVE  FALSE
    <3>1. PICK j \in OldItems : it = Old(j) /\ s = Home(j)
      BY <2>2, OriginalHolds
    <3>2. j = i
      BY <2>2, <3>1, Items
    <3>3. QED
      BY <1>5, <1>6, <3>1, <3>2
  <2>3. QED
    BY <1>2, <1>3, <1>4, <1>5, <1>6, <2>1, <2>2, ItemFrame DEF d
<1>7. CASE \E i \in OldItems : EditForm(a, n, i)
  <2>1. PICK i \in OldItems : EditForm(a, n, i)
    BY <1>7
  <2>2. IsEdit(a)
    BY <1>1, <2>1, Inverses
  <2>3. TouchesItem(a, i)
    BY <2>1 DEF EditForm, TouchesItem
  <2>4. QED
    BY <1>3, <1>6, <2>2, <2>3
<1>8. CASE \E i \in OldItems : RemoveForm(a, n, i)
  <2>1. PICK i \in OldItems : RemoveForm(a, n, i)
    BY <1>8
  <2>2. IsRemove(a)
    BY <1>1, <2>1, Inverses
  <2>3. TouchesItem(a, i)
    BY <2>1 DEF RemoveForm, TouchesItem
  <2>4. QED
    BY <1>3, <1>6, <2>2, <2>3
<1>9. CASE \E i \in OldItems : \E to \in Sites : MoveForm(a, n, i, to)
  <2>1. PICK i \in OldItems : \E to \in Sites : MoveForm(a, n, i, to)
    BY <1>9
  <2>2. PICK to \in Sites : MoveForm(a, n, i, to)
    BY <2>1
  <2>3. IsMove(a)
    BY <1>1, <2>2, Inverses
  <2>4. TouchesItem(a, i)
    BY <2>2 DEF MoveForm, TouchesItem
  <2>5. QED
    BY <1>3, <1>6, <2>3, <2>4
<1>10. ASSUME \/ IsAdd(a) /\ a.section # s
              \/ IsAddSection(a)
              \/ IsRemoveSection(a) /\ a.section.id # s
              \/ IsRename(a)
              \/ IsDetails(a)
       PROVE  SectionItems(d, s) = SectionItems(Original, s)
  BY <1>2, <1>3, <1>4, <1>10, SectionFrame DEF d
<1>11. CASE \E to \in Sites : AddForm(a, n, to)
  <2>1. PICK to \in Sites : AddForm(a, n, to)
    BY <1>11
  <2>2. IsAdd(a)
    BY <1>1, <2>1, Inverses
  <2>3. a.section # s
    BY <1>5, <2>2 DEF PutsInto, IsAdd
  <2>4. QED
    BY <1>3, <1>10, <2>2, <2>3
<1>12. CASE \E index \in Positions : AddSectionForm(a, n, index)
  <2>1. IsAddSection(a)
    BY <1>1, <1>12, Inverses
  <2>2. QED
    BY <1>3, <1>10, <2>1
<1>13. CASE \E t \in {1, 2} : RemoveSectionForm(a, n, t)
  <2>1. PICK t \in {1, 2} : RemoveSectionForm(a, n, t)
    BY <1>13
  <2>2. IsRemoveSection(a)
    BY <1>1, <2>1, Inverses
  <2>3. a.section.id = t
    BY <1>1, <2>1, SectionForms
  <2>4. t # s
    BY <1>5, <2>1
  <2>5. QED
    BY <1>3, <1>10, <2>2, <2>3, <2>4
<1>14. CASE \E t \in {1, 2} : RenameForm(a, n, t)
  <2>1. IsRename(a)
    BY <1>1, <1>14, Inverses
  <2>2. QED
    BY <1>3, <1>10, <2>1
<1>15. CASE DetailsForm(a, n)
  <2>1. IsDetails(a)
    BY <1>1, <1>15, Inverses
  <2>2. QED
    BY <1>3, <1>10, <2>1
<1>16. QED
  BY <1>1, <1>7, <1>8, <1>9, <1>11, <1>12, <1>13, <1>14, <1>15 DEF Form

\* Changes that do not clash leave each other's sections in their order.
LEMMA NoClashThrough ==
    ASSUME proposal \in Proposals, ~Clash, NEW n \in DOMAIN proposal,
           NEW m \in DOMAIN proposal,
           n # m, NEW s \in {1, 2}, RemoveSectionForm(proposal[m], m, s)
    PROVE  SectionItems(ApplyChange(Original, proposal[n]), s) = Original.sections[s].items
<1>1. /\ n \in {1, 2} /\ Form(proposal[n], n)
      /\ m \in {1, 2} /\ Form(proposal[m], m)
  BY ProposalForms
<1>2. KeysOf(proposal[n]) \cap KeysOf(proposal[m]) = {} /\ ~PutsInto(proposal[n], s)
  BY DEF Clash
<1>3. \A i : ItemKey(i) \in KeysOf(proposal[m]) <=> i \in OldItems /\ Home(i) = s
  BY <1>1, SectionForms
<1>4. TitleKey(s) \in KeysOf(proposal[m])
  BY <1>1, SectionForms
<1>5. ~RemoveSectionForm(proposal[n], n, s)
  <2>1. RemoveSectionForm(proposal[n], n, s) => TitleKey(s) \in KeysOf(proposal[n])
    BY <1>1, SectionForms
  <2>2. QED
    BY <1>2, <1>4, <2>1
<1>6. ASSUME NEW i \in OldItems, TouchesItem(proposal[n], i)
      PROVE  Home(i) # s
  <2>1. KeysOf(proposal[n]) = {ItemKey(i)}
    BY <1>1, <1>6, TouchedKeys
  <2>2. QED
    BY <1>2, <1>3, <2>1
<1>7. QED
  BY <1>2, <1>5, <1>6, NotThrough

\* Whether a change applies is told by what the content holds, but for the removal of a
\* section.
LEMMA SameApply ==
    ASSUME NEW c \in Contents, Distinct(c), NEW d \in Contents, Distinct(d),
           Facts(c) = Facts(d), NEW ch, IsChange(ch), CanApply(c, ch),
           ch.kind # "remove_section"
    PROVE  CanApply(d, ch)
<1>1. \A s : HasSection(c, s) <=> HasSection(d, s)
  BY SaysSection
<1>2. \A i : Places(c, i) # {} <=> Places(d, i) # {}
  BY SaysItem
<1>3. CASE ch.kind \in {"edit_item", "remove_item"}
  <2>1. Unchanged(c, ch.item)
    BY <1>3 DEF CanApply
  <2>2. PICK s : <<s, ch.item>> \in Holdings(c).items
    BY <2>1, UnchangedPlace
  <2>3. <<"item", s, ch.item>> \in Facts(d)
    BY <2>2, FactIn
  <2>4. Unchanged(d, ch.item)
    BY <2>3, ItemUnchanged
  <2>5. QED
    BY <1>3, <2>4 DEF CanApply
<1>4. CASE ch.kind = "add_item"
  BY <1>1, <1>2, <1>4 DEF CanApply, CanAdd
<1>5. CASE ch.kind = "move_item"
  BY <1>1, <1>2, <1>5 DEF CanApply
<1>6. CASE ch.kind = "add_section"
  BY <1>1, <1>6 DEF CanApply
<1>7. CASE IsRename(ch)
  <2>1. <<"title", ch.section, ch.before>> \in Facts(d)
    BY <1>7, RenameOver
  <2>2. /\ HasSection(d, ch.section)
        /\ d.sections[SectionAt(d, ch.section)].title = ch.before
    BY <2>1, TitleThere
  <2>3. QED
    BY <1>7, <2>2 DEF CanApply, IsRename
<1>8. CASE IsDetails(ch)
  <2>1. <<"details", 0, ch.before>> \in Facts(d)
    BY <1>8, DetailsChangeOver
  <2>2. d.details = ch.before
    BY <2>1, FactIn, HoldsDetails
  <2>3. QED
    BY <1>8, <2>2 DEF CanApply, IsDetails
<1>9. QED
  BY <1>3, <1>4, <1>5, <1>6, <1>7, <1>8
     DEF IsChange, IsEdit, IsAdd, IsRemove, IsMove, IsAddSection, IsRemoveSection

LEMMA UpOne ==
    ASSUME proposal \in Proposals, NEW n \in DOMAIN proposal, NEW c, Good(c),
           Facts(c) = HeldWith({}), CanApply(c, proposal[n])
    PROVE  /\ Good(ApplyChange(c, proposal[n]))
           /\ Facts(ApplyChange(c, proposal[n])) = HeldWith({n})
<1>1. Good(ApplyChange(c, proposal[n]))
  BY GoodStep
<1>2. Together({})
  BY DEF Together
<1>3. Facts(ApplyChange(c, proposal[n])) = HeldWith(IF Clash THEN {n} ELSE {} \cup {n})
  BY <1>2, HeldStep
<1>4. (IF Clash THEN {n} ELSE {} \cup {n}) = {n}
  OBVIOUS
<1>5. QED
  BY <1>1, <1>3, <1>4

\* Where a section is removed after a change, the change has left it as it was.
LEMMA AppliedThrough ==
    ASSUME proposal \in Proposals, NEW n \in DOMAIN proposal, NEW m \in DOMAIN proposal, n # m,
           NEW s \in {1, 2}, RemoveSectionForm(proposal[m], m, s),
           NEW c, Good(c), Facts(c) = HeldWith({}), CanApply(c, proposal[n]),
           CanApply(ApplyChange(c, proposal[n]), proposal[m])
    PROVE  SectionItems(ApplyChange(Original, proposal[n]), s) = Original.sections[s].items
<1> DEFINE a == proposal[n]
           b == proposal[m]
           e == ApplyChange(c, a)
           o == Original.sections[s]
<1>1. n \in {1, 2} /\ Form(a, n) /\ m \in {1, 2} /\ Form(b, m)
  BY ProposalForms
<1>2. Good(e) /\ Facts(e) = HeldWith({n})
  BY UpOne
<1>3. e \in Contents /\ Distinct(e) /\ c \in Contents /\ Distinct(c)
  BY <1>2 DEF Good
<1>4. IsRemoveSection(b) /\ b.section = o /\ o.id = s
  <2>1. IsRemoveSection(b)
    BY <1>1, Inverses
  <2>2. b.section = o /\ b.section.id = s
    BY <1>1, SectionForms
  <2>3. QED
    BY <2>1, <2>2
<1>5. /\ Says(Facts(e), TitleKey(s))
      /\ \A x : <<"item", s, x>> \in Facts(e) <=> \E k \in DOMAIN o.items : x = o.items[k]
  BY <1>3, <1>4, RemoveSectionOver
<1>6. SectionItems(e, s) = o.items
  BY <1>4 DEF CanApply, IsRemoveSection, SectionItems
<1>7. /\ \A k \in DOMAIN o.items : \E i \in OldItems : o.items[k] = Old(i) /\ Home(i) = s
      /\ \A i \in OldItems : Home(i) = s => \E k \in DOMAIN o.items : o.items[k] = Old(i)
  BY OriginalFacts DEF Home
<1>8. ASSUME NEW f \in Facts(e)
      PROVE  f \in Gives(a) \/ (f \in Facts(Original) /\ KeyOf(f) \notin KeysOf(a))
  BY <1>2, <1>8, InHeldWith
<1>9. ASSUME NEW f, f \in Gives(a)
      PROVE  f \in Facts(e)
  BY <1>2, <1>9, InHeldWith
<1>10. c \in Contents /\ Distinct(c) /\ CanApply(c, a) /\ RemoveSectionForm(b, m, s)
  BY <1>3
<1>11. Facts(c) = Facts(Original) /\ CanApply(Original, a)
       /\ SectionItems(Original, s) = o.items /\ Original \in Contents /\ Distinct(Original)
  BY OriginalMay DEF Good
<1> SUFFICES SectionItems(ApplyChange(Original, a), s) = o.items
  OBVIOUS
<1>12. ASSUME ~RemoveSectionForm(a, n, s), ~PutsInto(a, s),
              \A i \in OldItems : TouchesItem(a, i) => Home(i) # s
       PROVE  SectionItems(ApplyChange(Original, a), s) = o.items
  BY <1>12, NotThrough
<1>13. \A i : ItemKey(i) \in KeysOf(b) <=> i \in OldItems /\ Home(i) = s
  BY <1>1, SectionForms
<1> HIDE DEF a, b, e, o
<1>14. ~RemoveSectionForm(a, n, s)
  <2>1. ASSUME RemoveSectionForm(a, n, s)
        PROVE  FALSE
    <3>1. Gives(a) = {} /\ TitleKey(s) \in KeysOf(a)
      BY <1>1, <2>1, SectionForms
    <3>2. QED
      BY <1>5, <1>8, <3>1 DEF Says
  <2>2. QED
    BY <2>1
<1>15. ASSUME NEW i \in OldItems, TouchesItem(a, i), Home(i) = s
       PROVE  SectionItems(ApplyChange(Original, a), s) = o.items
  <2>a. Old(i).id = i
    BY Items
  <2>b. KeysOf(a) = {ItemKey(i)}
    BY <1>1, <1>15, TouchedKeys
  <2>1. KeysOf(a) = {ItemKey(i)} /\ Old(i).id = i
    BY <2>a, <2>b
  <2>2. <<"item", s, Old(i)>> \in Facts(e)
    BY <1>5, <1>7, <1>15
  <2>3. KeyOf(<<"item", s, Old(i)>>) = ItemKey(i)
    BY <2>1, Keys
  <2>4. <<"item", s, Old(i)>> \in Gives(a)
    BY <1>8, <2>1, <2>2, <2>3
  <2>5. CASE a.kind = "edit_item"
    <3>1. PICK j \in OldItems : EditForm(a, n, j)
      BY <1>1, <2>5 DEF Form, RemoveForm, MoveForm, AddForm, AddSectionForm,
                        RemoveSectionForm, RenameForm, DetailsForm
    <3>2. Gives(a) = {<<"item", Home(j), ByAI(j)>>}
      BY <1>1, <3>1, ItemForms
    <3>3. Old(i) = ByAI(j)
      BY <2>4, <3>2
    <3>4. Old(i).version # ByAI(j).version
      BY DEF Old, ByAI
    <3>5. QED
      BY <3>3, <3>4
  <2>6. CASE a.kind = "remove_item"
    BY <2>4, <2>6 DEF Gives
  <2>7. CASE a.kind = "move_item"
    <3>1. PICK j \in OldItems : \E to \in Sites : MoveForm(a, n, j, to)
      BY <1>1, <2>7 DEF Form, RemoveForm, EditForm, AddForm, AddSectionForm,
                        RemoveSectionForm, RenameForm, DetailsForm
    <3>2. PICK to \in Sites : MoveForm(a, n, j, to)
      BY <3>1
    <3>3. IsMove(a)
      BY <1>1, <3>2, Inverses
    <3>4. Gives(a) = {<<"item", a.to.section, a.item>>}
      BY <2>7 DEF Gives
    <3>5. a.to.section = s /\ a.item = Old(i)
      BY <2>4, <3>4
    <3>6. <<"item", s, Old(i)>> \in Facts(Original)
      BY <1>15, OriginalHolds
    <3>7. SectionItems(ApplyChange(c, a), s) = SectionItems(Original, s)
      BY <1>6, <1>11 DEF e
    <3>8. Old(i).id = a.item.id
      BY <3>5
    <3>9. <<"item", s, Old(i)>> \in Facts(c)
      BY <1>11, <3>6
    <3>10. SectionItems(ApplyChange(Original, a), s) = SectionItems(Original, s)
      BY <1>10, <1>11, <3>3, <3>5, <3>6, <3>7, <3>8, <3>9, TwistStays
    <3>11. QED
      BY <1>11, <3>10
  <2>8. QED
    BY <1>15, <2>5, <2>6, <2>7 DEF TouchesItem
<1>16. ASSUME PutsInto(a, s)
       PROVE  \E i \in OldItems : TouchesItem(a, i) /\ Home(i) = s
  <2>a. \E it : Gives(a) = {<<"item", s, it>>} /\ KeysOf(a) = {ItemKey(it.id)}
    BY <1>1, <1>16, PutsFacts
  <2>1. PICK it : Gives(a) = {<<"item", s, it>>}
    BY <2>a
  <2>2. <<"item", s, it>> \in Facts(e)
    BY <1>9, <2>1
  <2>3. PICK k \in DOMAIN o.items : it = o.items[k]
    BY <1>5, <2>2
  <2>4. PICK i \in OldItems : it = Old(i) /\ Home(i) = s
    BY <1>7, <2>3
  <2>5. CASE a.kind = "move_item"
    <3>1. Gives(a) = {<<"item", a.to.section, a.item>>}
      BY <2>5 DEF Gives
    <3>a. <<"item", s, it>> \in {<<"item", a.to.section, a.item>>}
      BY <2>1, <3>1
    <3>2. a.item = it
      BY <3>a
    <3>3. QED
      BY <2>4, <2>5, <3>2 DEF TouchesItem
  <2>6. CASE a.kind = "add_item"
    <3>1. Gives(a) = {<<"item", a.section, a.item>>}
      BY <2>6 DEF Gives
    <3>a. <<"item", s, it>> \in {<<"item", a.section, a.item>>}
      BY <2>1, <3>1
    <3>2. a.item = it
      BY <3>a
    <3>3. PICK to \in Sites : AddForm(a, n, to)
      BY <1>1, <2>6 DEF Form, RemoveForm, EditForm, MoveForm, AddSectionForm,
                        RemoveSectionForm, RenameForm, DetailsForm
    <3>4. a.item = NewItem(n)
      BY <3>3 DEF AddForm
    <3>5. NewItem(n).version # Old(i).version
      BY DEF NewItem, Old
    <3>6. QED
      BY <2>4, <3>2, <3>4, <3>5
  <2>7. QED
    BY <1>16, <2>5, <2>6 DEF PutsInto
<1>17. QED
  BY <1>12, <1>14, <1>15, <1>16

-------------------------------------------------------------------------------
(* The changes of a request one after the other, and their inverses.       *)

LEMMA ChangeIds ==
    ASSUME proposal \in Proposals, NEW n \in DOMAIN proposal
    PROVE  proposal[n].id = n /\ InvertChange(proposal[n]).id = n
<1>1. n \in {1, 2} /\ Form(proposal[n], n)
  BY ProposalForms
<1>2. QED
  BY <1>1, Inverses

Goes(c, n, C) == n \in C /\ CanApply(c, proposal[n])
Up(c, n, C) == IF Goes(c, n, C) THEN ApplyChange(c, proposal[n]) ELSE c
Back(c, n, C) ==
    IF n \in C /\ CanApply(c, InvertChange(proposal[n]))
    THEN ApplyChange(c, InvertChange(proposal[n]))
    ELSE c

LEMMA AttemptForms ==
    ASSUME proposal \in Proposals, NEW n \in DOMAIN proposal, NEW done, NEW C
    PROVE  /\ Attempt(done, C, proposal[n]).content = Up(done.content, n, C)
           /\ Attempt(done, C, proposal[n]).applied
                 = IF Goes(done.content, n, C) THEN done.applied \cup {n} ELSE done.applied
           /\ Attempt(done, C, InvertChange(proposal[n])).content = Back(done.content, n, C)
<1>1. proposal[n].id = n /\ InvertChange(proposal[n]).id = n
  BY ChangeIds
<1>2. QED
  BY <1>1 DEF Attempt, Up, Back, Goes

LEMMA ApplyForms ==
    ASSUME proposal \in Proposals, NEW c, NEW C \in SUBSET DOMAIN proposal
    PROVE  LET e == ApplyChanges(c, C) IN
           /\ e.content = Up(Up(c, 1, C), 2, C)
           /\ e.applied \subseteq {1, 2} /\ e.applied \subseteq C
           /\ 1 \in e.applied <=> Goes(c, 1, C)
           /\ 2 \in e.applied <=> Goes(Up(c, 1, C), 2, C)
<1> DEFINE none == [content |-> c, applied |-> {}]
           first == Attempt(none, C, proposal[1])
           e == ApplyChanges(c, C)
<1>1. /\ Len(proposal) \in {1, 2} /\ DOMAIN proposal = 1..Len(proposal)
      /\ 1 \in DOMAIN proposal
  BY ProposalForms
<1>2. /\ first.content = Up(c, 1, C)
      /\ first.applied = IF Goes(c, 1, C) THEN {1} ELSE {}
  <2>1. none.content = c /\ none.applied = {}
    OBVIOUS
  <2> HIDE DEF none
  <2>2. /\ first.content = Up(none.content, 1, C)
        /\ first.applied = IF Goes(none.content, 1, C)
                           THEN none.applied \cup {1} ELSE none.applied
    BY <1>1, AttemptForms
  <2>3. QED
    BY <2>1, <2>2
<1>3. e = IF Len(proposal) = 1 THEN first ELSE Attempt(first, C, proposal[2])
  BY DEF ApplyChanges
<1> HIDE DEF first, e
<1>4. CASE Len(proposal) = 1
  <2>1. 2 \notin C
    BY <1>1, <1>4
  <2>2. ~Goes(Up(c, 1, C), 2, C) /\ Up(Up(c, 1, C), 2, C) = Up(c, 1, C)
    BY <2>1 DEF Goes, Up
  <2>3. e = first
    BY <1>3, <1>4
  <2>4. Goes(c, 1, C) => 1 \in C
    BY DEF Goes
  <2>5. QED
    BY <1>2, <2>2, <2>3, <2>4 DEF e
<1>5. CASE Len(proposal) = 2
  <2>1. 2 \in DOMAIN proposal
    BY <1>1, <1>5
  <2>2. e = Attempt(first, C, proposal[2])
    BY <1>3, <1>5
  <2>3. /\ e.content = Up(first.content, 2, C)
        /\ e.applied = IF Goes(first.content, 2, C)
                       THEN first.applied \cup {2} ELSE first.applied
    BY <2>1, <2>2, AttemptForms
  <2>4. /\ Goes(c, 1, C) => 1 \in C
        /\ Goes(Up(c, 1, C), 2, C) => 2 \in C
    BY DEF Goes
  <2>5. QED
    BY <1>2, <2>3, <2>4 DEF e
<1>6. QED
  BY <1>1, <1>4, <1>5

LEMMA UndoForms ==
    ASSUME proposal \in Proposals, NEW c, NEW C \in SUBSET DOMAIN proposal
    PROVE  UndoChanges(c, C).content = Back(Back(c, 2, C), 1, C)
<1> DEFINE none == [content |-> c, applied |-> {}]
           last == IF Len(proposal) = 1 THEN none
                   ELSE Attempt(none, C, InvertChange(proposal[2]))
<1>1. /\ Len(proposal) \in {1, 2} /\ DOMAIN proposal = 1..Len(proposal)
      /\ 1 \in DOMAIN proposal
  BY ProposalForms
<1>2. UndoChanges(c, C) = Attempt(last, C, InvertChange(proposal[1]))
  BY DEF UndoChanges
<1>3. last.content = Back(c, 2, C)
  <2>1. none.content = c
    OBVIOUS
  <2> HIDE DEF none
  <2>2. CASE Len(proposal) = 1
    <3>1. 2 \notin C
      BY <1>1, <2>2
    <3>2. Back(c, 2, C) = c
      BY <3>1 DEF Back
    <3>3. QED
      BY <2>1, <2>2, <3>2
  <2>3. CASE Len(proposal) = 2
    <3>1. 2 \in DOMAIN proposal
      BY <1>1, <2>3
    <3>2. Attempt(none, C, InvertChange(proposal[2])).content = Back(none.content, 2, C)
      BY <3>1, AttemptForms
    <3>3. QED
      BY <2>1, <2>3, <3>2
  <2>4. QED
    BY <1>1, <2>2, <2>3
<1> HIDE DEF last
<1>4. Attempt(last, C, InvertChange(proposal[1])).content = Back(last.content, 1, C)
  BY <1>1, AttemptForms
<1>5. QED
  BY <1>2, <1>3, <1>4

\* The second of two changes applies to the original with the first, when they do not clash.
LEMMA SecondMay ==
    ASSUME proposal \in Proposals, ~Clash, 1 \in DOMAIN proposal, 2 \in DOMAIN proposal
    PROVE  CanApply(ApplyChange(Original, proposal[1]), proposal[2])
<1> DEFINE d == ApplyChange(Original, proposal[1])
<1>1. /\ Good(Original) /\ Facts(Original) = HeldWith({})
      /\ CanApply(Original, proposal[1])
  BY OriginalMay
<1>2. Good(d) /\ Facts(d) = HeldWith({1})
  BY <1>1, UpOne
<1>3. {1} \in SUBSET DOMAIN proposal /\ 2 \notin {1}
  OBVIOUS
<1>4. Apart({1}, 2)
  BY <1>3, TogetherApart
<1>5. \A s \in {1, 2} : RemoveSectionForm(proposal[2], 2, s) =>
          SectionItems(d, s) = Original.sections[s].items
  BY NoClashThrough
<1> HIDE DEF d
<1>6. CanApply(d, proposal[2])
  BY <1>2, <1>3, <1>4, <1>5, MayUp
<1>7. QED
  BY <1>6 DEF d

\* The same when they do, if it has applied after the first elsewhere.
LEMMA SecondAgain ==
    ASSUME proposal \in Proposals, 1 \in DOMAIN proposal, 2 \in DOMAIN proposal,
           NEW c, Good(c), Facts(c) = HeldWith({}), CanApply(c, proposal[1]),
           CanApply(ApplyChange(c, proposal[1]), proposal[2])
    PROVE  CanApply(ApplyChange(Original, proposal[1]), proposal[2])
<1> DEFINE d == ApplyChange(Original, proposal[1])
           e == ApplyChange(c, proposal[1])
           b == proposal[2]
<1>1. /\ Good(Original) /\ Facts(Original) = HeldWith({})
      /\ CanApply(Original, proposal[1])
  BY OriginalMay
<1>2. Good(d) /\ Facts(d) = HeldWith({1})
  BY <1>1, UpOne
<1>3. Good(e) /\ Facts(e) = HeldWith({1})
  BY UpOne
<1>4. Form(b, 2) /\ IsChange(b)
  BY ProposalForms, ChangesNotBuilt
<1>5. \A s \in {1, 2} : RemoveSectionForm(b, 2, s) =>
          SectionItems(d, s) = Original.sections[s].items
  BY AppliedThrough
<1>6. CanApply(e, b)
  OBVIOUS
<1> SUFFICES CanApply(d, b)
  OBVIOUS
<1>7. d \in Contents /\ Distinct(d) /\ e \in Contents /\ Distinct(e) /\ Facts(d) = Facts(e)
  BY <1>2, <1>3 DEF Good
<1> HIDE DEF d, e, b
<1>8. CASE b.kind # "remove_section"
  BY <1>4, <1>6, <1>7, <1>8, SameApply
<1>9. CASE b.kind = "remove_section"
  <2>1. PICK s \in {1, 2} : RemoveSectionForm(b, 2, s)
    BY <1>4, <1>9 DEF Form, EditForm, RemoveForm, MoveForm, AddForm, AddSectionForm,
                      RenameForm, DetailsForm
  <2>2. b.section = Original.sections[s] /\ b.section.id = s
    BY <2>1, SectionForms
  <2>3. HasSection(e, s)
    BY <1>6, <1>9, <2>2 DEF CanApply
  <2>4. HasSection(d, s)
    BY <1>7, <2>3, SaysSection
  <2>5. SectionItems(d, s) = b.section.items
    BY <1>5, <2>1, <2>2
  <2>6. QED
    BY <1>9, <2>2, <2>4, <2>5 DEF CanApply, SectionItems
<1>10. QED
  BY <1>8, <1>9

\* The changes marked when both have applied and clash: only the second is there.
Last(M) == IF Clash /\ M = {1, 2} THEN {2} ELSE M

\* From the facts of the original, the changes that apply are there then.
LEMMA UpTwice ==
    ASSUME proposal \in Proposals, NEW c, Good(c), Facts(c) = HeldWith({}),
           NEW C \in SUBSET DOMAIN proposal
    PROVE  LET e == ApplyChanges(c, C)
           IN  Good(e.content) /\ Facts(e.content) = HeldWith(Last(e.applied))
<1> DEFINE e == ApplyChanges(c, C)
           d == Up(c, 1, C)
           M == e.applied
<1>1. /\ e.content = Up(d, 2, C)
      /\ M \subseteq {1, 2} /\ M \subseteq C
      /\ 1 \in M <=> Goes(c, 1, C)
      /\ 2 \in M <=> Goes(d, 2, C)
  BY ApplyForms
<1>2. Good(e.content)
  BY ChangesGood
<1> SUFFICES Facts(e.content) = HeldWith(Last(M))
  BY <1>2
<1>3. /\ 1 \in M => d = ApplyChange(c, proposal[1]) /\ CanApply(c, proposal[1])
                    /\ 1 \in DOMAIN proposal
      /\ 1 \notin M => d = c
  BY <1>1 DEF Up, Goes
<1>4. /\ 2 \in M => Up(d, 2, C) = ApplyChange(d, proposal[2]) /\ CanApply(d, proposal[2])
                    /\ 2 \in DOMAIN proposal
      /\ 2 \notin M => Up(d, 2, C) = d
  BY <1>1 DEF Up, Goes
<1> HIDE DEF e, d, M
<1>5. CASE M = {}
  <2>1. Last(M) = {}
    BY <1>5 DEF Last
  <2>2. QED
    BY <1>1, <1>3, <1>4, <1>5, <2>1
<1>6. CASE M = {1}
  <2>1. Last(M) = {1}
    BY <1>6 DEF Last
  <2>2. e.content = ApplyChange(c, proposal[1])
    BY <1>1, <1>3, <1>4, <1>6
  <2>3. QED
    BY <1>3, <1>6, <2>1, <2>2, UpOne
<1>7. CASE M = {2}
  <2>1. Last(M) = {2}
    BY <1>7 DEF Last
  <2>2. e.content = ApplyChange(c, proposal[2]) /\ CanApply(c, proposal[2])
    BY <1>1, <1>3, <1>4, <1>7
  <2>3. QED
    BY <1>4, <1>7, <2>1, <2>2, UpOne
<1>8. CASE M = {1, 2}
  <2>1. Good(d) /\ Facts(d) = HeldWith({1})
    BY <1>3, <1>8, UpOne
  <2>2. Together({1})
    BY <1>3, <1>8 DEF Together
  <2>3. e.content = ApplyChange(d, proposal[2]) /\ CanApply(d, proposal[2])
        /\ 2 \in DOMAIN proposal
    BY <1>1, <1>4, <1>8
  <2>4. Facts(e.content) = HeldWith(IF Clash THEN {2} ELSE {1} \cup {2})
    BY <2>1, <2>2, <2>3, HeldStep
  <2>5. Last(M) = IF Clash THEN {2} ELSE {1} \cup {2}
    <3>1. {1} \cup {2} = {1, 2}
      OBVIOUS
    <3>2. QED
      BY <1>8, <3>1 DEF Last
  <2>6. QED
    BY <2>4, <2>5
<1>9. QED
  BY <1>1, <1>5, <1>6, <1>7, <1>8

\* The original with changes that apply to it.
LEMMA PartialFacts ==
    ASSUME proposal \in Proposals, NEW M \in SUBSET DOMAIN proposal,
           M = {1, 2} => CanApply(ApplyChange(Original, proposal[1]), proposal[2])
    PROVE  Good(Partial(M)) /\ Facts(Partial(M)) = HeldWith(Last(M))
<1> DEFINE e == ApplyChanges(Original, M)
           d == Up(Original, 1, M)
<1>1. /\ e.applied \subseteq {1, 2} /\ e.applied \subseteq M
      /\ 1 \in e.applied <=> Goes(Original, 1, M)
      /\ 2 \in e.applied <=> Goes(d, 2, M)
  BY ApplyForms
<1>2. /\ Good(Original) /\ Facts(Original) = HeldWith({})
      /\ \A n \in DOMAIN proposal : CanApply(Original, proposal[n])
  BY OriginalMay
<1>3. M \subseteq {1, 2}
  BY ProposalForms
<1>4. 1 \in M => 1 \in e.applied
  BY <1>1, <1>2 DEF Goes
<1>5. ASSUME 2 \in M
      PROVE  2 \in e.applied
  <2>1. CASE 1 \in M
    <3>1. M = {1, 2}
      BY <1>3, <1>5, <2>1
    <3>2. d = ApplyChange(Original, proposal[1])
      BY <1>2, <2>1 DEF Up, Goes
    <3>3. QED
      BY <1>1, <1>5, <3>1, <3>2 DEF Goes
  <2>2. CASE 1 \notin M
    <3>1. d = Original
      BY <2>2 DEF Up, Goes
    <3>2. QED
      BY <1>1, <1>2, <1>5, <3>1 DEF Goes
  <2>3. QED
    BY <2>1, <2>2
<1>6. e.applied = M
  BY <1>1, <1>3, <1>4, <1>5
<1>7. Good(e.content) /\ Facts(e.content) = HeldWith(Last(e.applied))
  BY <1>2, UpTwice
<1> HIDE DEF e
<1>8. Partial(M) = e.content
  BY DEF Partial, e
<1>9. QED
  BY <1>6, <1>7, <1>8

\* What a request that applies changes leaves, and what the original with them holds.
LEMMA AppliedHeld ==
    ASSUME proposal \in Proposals, NEW c, Good(c), Facts(c) = HeldWith({}),
           NEW C \in SUBSET DOMAIN proposal
    PROVE  LET e == ApplyChanges(c, C)
           IN  /\ Facts(e.content) = HeldWith(Last(e.applied))
               /\ Facts(Partial(e.applied)) = HeldWith(Last(e.applied))
<1> DEFINE e == ApplyChanges(c, C)
           M == e.applied
           d == Up(c, 1, C)
<1>1. Facts(e.content) = HeldWith(Last(M))
  BY UpTwice
<1>2. /\ M \subseteq C
      /\ 1 \in M <=> Goes(c, 1, C)
      /\ 2 \in M <=> Goes(d, 2, C)
  BY ApplyForms
<1>3. ASSUME M = {1, 2}
      PROVE  CanApply(ApplyChange(Original, proposal[1]), proposal[2])
  <2>1. Goes(c, 1, C) /\ Goes(d, 2, C)
    BY <1>2, <1>3
  <2>2. d = ApplyChange(c, proposal[1])
    BY <2>1 DEF Up
  <2>3. /\ 1 \in DOMAIN proposal /\ 2 \in DOMAIN proposal
        /\ CanApply(c, proposal[1]) /\ CanApply(d, proposal[2])
    BY <2>1 DEF Goes
  <2>4. QED
    BY <2>2, <2>3, SecondAgain
<1>4. M \in SUBSET DOMAIN proposal
  BY <1>2
<1> HIDE DEF M
<1>5. Facts(Partial(M)) = HeldWith(Last(M))
  BY <1>3, <1>4, PartialFacts
<1>6. QED
  BY <1>1, <1>5 DEF M

\* Undoing them leaves the facts of the original.
LEMMA UndoneHeld ==
    ASSUME proposal \in Proposals, NEW c, Good(c), NEW M \in SUBSET DOMAIN proposal,
           Facts(c) = HeldWith(Last(M))
    PROVE  Facts(UndoChanges(c, M).content) = HeldWith({})
<1> DEFINE d == Back(c, 2, M)
<1>1. UndoChanges(c, M).content = Back(d, 1, M)
  BY UndoForms
<1>2. M \subseteq {1, 2}
  BY ProposalForms
<1>3. Good(d)
  BY GoodStep DEF Back
<1>4. ASSUME NEW n \in M, NEW x, Good(x), Facts(x) = HeldWith({n})
      PROVE  Facts(Back(x, n, M)) = HeldWith({})
  <2>1. n \in DOMAIN proposal /\ {n} \in SUBSET DOMAIN proposal /\ n \in {n}
    OBVIOUS
  <2>2. Apart({n}, n)
    BY <2>1, TogetherApart
  <2>3. CanApply(x, InvertChange(proposal[n]))
    BY <1>4, <2>1, <2>2, MayDown
  <2>4. Together({n})
    BY <2>1 DEF Together
  <2>5. Facts(ApplyChange(x, InvertChange(proposal[n])))
            \in {HeldWith({n} \ {n}), HeldWith({})}
    BY <1>4, <2>1, <2>3, <2>4, HeldStep
  <2>6. {n} \ {n} = {}
    OBVIOUS
  <2>7. QED
    BY <1>4, <2>3, <2>5, <2>6 DEF Back
<1>5. ASSUME NEW n, NEW x, Good(x), Facts(x) = HeldWith({})
      PROVE  Facts(Back(x, n, M)) = HeldWith({})
  <2>1. CASE n \in M /\ CanApply(x, InvertChange(proposal[n]))
    <3>1. Together({}) /\ n \in DOMAIN proposal
      BY <2>1 DEF Together
    <3>2. Facts(ApplyChange(x, InvertChange(proposal[n])))
              \in {HeldWith({} \ {n}), HeldWith({})}
      BY <1>5, <2>1, <3>1, HeldStep
    <3>3. {} \ {n} = {}
      OBVIOUS
    <3>4. QED
      BY <2>1, <3>2, <3>3 DEF Back
  <2>2. CASE ~(n \in M /\ CanApply(x, InvertChange(proposal[n])))
    BY <1>5, <2>2 DEF Back
  <2>3. QED
    BY <2>1, <2>2
<1>6. \A n : n \notin M => \A x : Back(x, n, M) = x
  BY DEF Back
<1> HIDE DEF d
<1>7. CASE M = {}
  <2>1. Last(M) = {}
    BY <1>7 DEF Last
  <2>2. UndoChanges(c, M).content = c
    BY <1>1, <1>6, <1>7 DEF d
  <2>3. QED
    BY <2>1, <2>2
<1>8. CASE M = {1}
  <2>1. Last(M) = {1}
    BY <1>8 DEF Last
  <2>2. d = c
    BY <1>6, <1>8 DEF d
  <2>3. QED
    BY <1>1, <1>4, <1>8, <2>1, <2>2
<1>9. CASE M = {2}
  <2>1. Last(M) = {2}
    BY <1>9 DEF Last
  <2>2. Facts(d) = HeldWith({})
    BY <1>4, <1>9, <2>1 DEF d
  <2>3. QED
    BY <1>1, <1>3, <1>5, <2>2
<1>10. CASE M = {1, 2} /\ Clash
  <2>1. Last(M) = {2}
    BY <1>10 DEF Last
  <2>2. Facts(d) = HeldWith({})
    BY <1>4, <1>10, <2>1 DEF d
  <2>3. QED
    BY <1>1, <1>3, <1>5, <2>2
<1>11. CASE M = {1, 2} /\ ~Clash
  <2>1. Last(M) = {1, 2} /\ 1 \in DOMAIN proposal /\ 2 \in DOMAIN proposal
    BY <1>11 DEF Last
  <2>2. {1, 2} \in SUBSET DOMAIN proposal /\ 2 \in {1, 2}
    BY <2>1
  <2>3. Apart({1, 2}, 2)
    BY <1>11, <2>1, <2>2, TogetherApart
  <2>4. Facts(c) = HeldWith({1, 2})
    BY <2>1
  <2>5. CanApply(c, InvertChange(proposal[2]))
    BY <2>1, <2>2, <2>3, <2>4, MayDown
  <2>6. Together({1, 2})
    BY <1>11, <2>2 DEF Together
  <2>7. Facts(ApplyChange(c, InvertChange(proposal[2]))) = HeldWith({1, 2} \ {2})
    BY <1>11, <2>1, <2>4, <2>5, <2>6, HeldStep
  <2>8. {1, 2} \ {2} = {1}
    OBVIOUS
  <2>9. Facts(d) = HeldWith({1})
    BY <1>11, <2>5, <2>7, <2>8 DEF d, Back
  <2>10. QED
    BY <1>1, <1>3, <1>4, <1>11, <2>9
<1>12. QED
  BY <1>2, <1>7, <1>8, <1>9, <1>10, <1>11

LEMMA HeldWhole ==
    ASSUME proposal \in Proposals, NEW c \in Contents, Held(c)
    PROVE  \E ids \in SUBSET (DOMAIN proposal) : Holdings(c) = Holdings(Partial(ids))
<1>1. PICK S : Together(S) /\ Facts(c) = HeldWith(S)
  BY DEF Held
<1>2. S \in SUBSET DOMAIN proposal
  BY <1>1 DEF Together
<1>3. S = {1, 2} => ~Clash
  <2>1. ASSUME S = {1, 2}, Clash
        PROVE  FALSE
    <3>1. 1 \in S /\ 2 \in S
      BY <2>1
    <3>2. 1 = 2
      BY <1>1, <2>1, <3>1 DEF Together
    <3>3. QED
      BY <3>2
  <2>2. QED
    BY <2>1
<1>4. Last(S) = S
  BY <1>3 DEF Last
<1>5. S = {1, 2} => CanApply(ApplyChange(Original, proposal[1]), proposal[2])
  BY <1>2, <1>3, SecondMay
<1>6. Good(Partial(S)) /\ Facts(Partial(S)) = HeldWith(Last(S))
  BY <1>2, <1>5, PartialFacts
<1>7. Partial(S) \in Contents
  BY <1>6 DEF Good
<1>8. Holdings(c) = Holdings(Partial(S))
  BY <1>1, <1>4, <1>6, <1>7, FactsAreHoldings
<1>9. QED
  BY <1>2, <1>8

LEMMA ChangesHeld ==
    ASSUME proposal \in Proposals, NEW c, Good(c), Held(c), NEW C \in SUBSET DOMAIN proposal
    PROVE  Held(ApplyChanges(c, C).content) /\ Held(UndoChanges(c, C).content)
<1>1. ASSUME NEW n, NEW x, Good(x), Held(x)
      PROVE  /\ Good(Up(x, n, C)) /\ Held(Up(x, n, C))
             /\ Good(Back(x, n, C)) /\ Held(Back(x, n, C))
  <2>1. Good(Up(x, n, C)) /\ Good(Back(x, n, C))
    BY <1>1, GoodStep DEF Up, Back, Goes
  <2>2. Held(Up(x, n, C))
    BY <1>1, HeldStays DEF Up, Goes
  <2>3. Held(Back(x, n, C))
    BY <1>1, HeldStays DEF Back
  <2>4. QED
    BY <2>1, <2>2, <2>3
<1>2. Held(Up(Up(c, 1, C), 2, C)) /\ Held(Back(Back(c, 2, C), 1, C))
  BY <1>1
<1>3. QED
  BY <1>2, ApplyForms, UndoForms

-------------------------------------------------------------------------------
(* The invariants: while the builder is not used, the exam and the copies  *)
(* hold whole changes; and while requests come one by one and none fails,  *)
(* what the changeset says.                                                *)

WholeInv == builds = 0 => Held(content) /\ \A r \in EditRequests : Held(copy[r])

LEMMA HeldOriginal ==
    ASSUME proposal \in Proposals
    PROVE  Held(Original)
<1>1. Together({}) /\ Facts(Original) = HeldWith({})
  BY OriginalMay DEF Together
<1>2. QED
  BY <1>1 DEF Held

LEMMA ResultHeld ==
    ASSUME EditInv, NEW r \in EditRequests, Held(copy[r]), Held(content)
    PROVE  Held(Written(r))
<1>1. /\ proposal \in Proposals /\ selected[r] \in SUBSET DOMAIN proposal
      /\ Good(copy[r]) /\ Good(content)
  BY DEF EditInv, ChangesTypeOK
<1>2. Held(Result(r).content)
  <2>1. /\ Held(ApplyChanges(copy[r], selected[r]).content)
        /\ Held(UndoChanges(copy[r], selected[r]).content)
    BY <1>1, ChangesHeld
  <2>2. QED
    BY <2>1 DEF Result
<1>3. Good(Result(r).content)
  BY ResultGood
<1> DEFINE e == Result(r).content
<1>4. Held([e EXCEPT !.details = content.details])
  BY <1>1, <1>2, <1>3, HeldMerged
<1>5. [e EXCEPT !.details = e.details] = e
  <2>1. e \in Contents
    BY <1>3 DEF Good
  <2> HIDE DEF e
  <2>2. QED
    BY <2>1 DEF Contents
<1>6. Written(r) = [e EXCEPT !.details = IF e.details = copy[r].details
                                         THEN content.details ELSE e.details]
  BY DEF Written
<1> HIDE DEF e
<1>7. CASE e.details = copy[r].details
  <2>1. Written(r) = [e EXCEPT !.details = content.details]
    BY <1>6, <1>7
  <2>2. QED
    BY <1>4, <2>1
<1>8. CASE e.details # copy[r].details
  <2>1. Written(r) = e
    BY <1>5, <1>6, <1>8
  <2>2. QED
    BY <1>2, <2>1 DEF e
<1>9. QED
  BY <1>7, <1>8

\* What a step does to the exam and to the copies.
LEMMA StepShape ==
    ASSUME EditInv, [EditNext]_editVars
    PROVE  /\ UNCHANGED proposal
           /\ builds' = builds \/ builds' = builds + 1
           /\ builds' = builds =>
                 /\ content' = content \/ \E r \in EditRequests : content' = Written(r)
                 /\ \A x \in EditRequests : copy'[x] \in {copy[x], content, Original}
<1> USE DEF boundsOnEdits
<1>1. copy \in [EditRequests -> Contents] /\ builds \in Nat
  BY DEF EditInv, ChangesTypeOK
<1> DEFINE Shape ==
              /\ UNCHANGED <<proposal, builds>>
              /\ content' = content \/ \E r \in EditRequests : content' = Written(r)
              /\ \A x \in EditRequests : copy'[x] \in {copy[x], content, Original}
<1>2. ASSUME NEW r \in EditRequests, BeginApply(r) \/ BeginUndo(r)
      PROVE  Shape
  BY <1>2 DEF BeginApply, BeginUndo, BeginEdit
<1>3. ASSUME NEW r \in EditRequests, LoadTarget(r)
      PROVE  Shape
  BY <1>1, <1>3 DEF LoadTarget
<1>4. ASSUME NEW r \in EditRequests, Answered(r)
      PROVE  \A x \in EditRequests : copy'[x] \in {copy[x], content, Original}
  BY <1>1, <1>4 DEF Answered
<1>5. ASSUME NEW r \in EditRequests, Save(r)
      PROVE  Shape
  <2>1. CASE Answered(r) /\ UNCHANGED content
    BY <1>4, <1>5, <2>1 DEF Save
  <2>2. CASE content' = Written(r) /\ UNCHANGED copy
    BY <1>5, <2>2 DEF Save
  <2>3. QED
    BY <1>5, <2>1, <2>2 DEF Save
<1>6. ASSUME NEW r \in EditRequests, UpdateChangeset(r) \/ EditFails(r)
      PROVE  Shape
  BY <1>4, <1>6 DEF UpdateChangeset, EditFails
<1>7. ASSUME NEW c, BuilderWrites(c)
      PROVE  UNCHANGED proposal /\ builds' = builds + 1
  BY <1>7 DEF BuilderWrites
<1>8. CASE BuilderEdits \/ BuilderRemoves \/ BuilderRenames
  <2>1. \E c : BuilderWrites(c)
    BY <1>8 DEF BuilderEdits, BuilderRemoves, BuilderRenames
  <2>2. UNCHANGED proposal /\ builds' = builds + 1
    BY <1>7, <2>1
  <2>3. QED
    BY <1>1, <2>2
<1>9. CASE UNCHANGED editVars
  BY <1>9 DEF editVars
<1>10. QED
  BY <1>2, <1>3, <1>5, <1>6, <1>8, <1>9 DEF EditNext

LEMMA WholeInvNext == EditInv /\ WholeInv /\ [EditNext]_editVars => WholeInv'
<1> SUFFICES ASSUME EditInv, WholeInv, [EditNext]_editVars, builds' = 0
             PROVE  (Held(content))' /\ \A r \in EditRequests : (Held(copy[r]))'
  BY DEF WholeInv
<1>1. /\ UNCHANGED proposal
      /\ builds' = builds \/ builds' = builds + 1
      /\ builds' = builds =>
            /\ content' = content \/ \E r \in EditRequests : content' = Written(r)
            /\ \A x \in EditRequests : copy'[x] \in {copy[x], content, Original}
  BY StepShape
<1>2. builds \in Nat /\ proposal \in Proposals
  BY DEF EditInv, ChangesTypeOK
<1>3. builds = 0 /\ builds' = builds
  BY <1>1, <1>2
<1>4. Held(content) /\ \A r \in EditRequests : Held(copy[r])
  BY <1>3 DEF WholeInv
<1>5. \A c : Held(c) => (Held(c))'
  BY <1>1 DEF Held, Together, Clash, HeldWith
<1>6. Held(content')
  BY <1>1, <1>3, <1>4, ResultHeld
<1>7. \A r \in EditRequests : Held(copy'[r])
  BY <1>1, <1>2, <1>3, <1>4, HeldOriginal
<1>8. QED
  BY <1>5, <1>6, <1>7

\* What a changeset says of the exam, and of the original with the changes marked.
Tells(c, mark) ==
    LET M == IF mark.undone THEN {} ELSE mark.applied
    IN  /\ Facts(c) = HeldWith(Last(M))
        /\ Facts(Partial(M)) = HeldWith(Last(M))

OneByOne == ~overlapped /\ editFails = 0 /\ builds = 0

SeqInv ==
    OneByOne =>
        /\ \A r, q \in InFlight : r = q
        /\ InFlight = {} => Tells(content, changeset)
        /\ \A r \in InFlight :
              /\ readMark[r] = changeset
              /\ r \in undoing <=> ~MayApply
              /\ r \in undoing => selected[r] = changeset.applied
              /\ editStep[r] # "mark" => Tells(content, changeset)
              /\ editStep[r] = "save" => copy[r] = content
              /\ editStep[r] = "mark" =>
                    Tells(copy[r], changeset) /\ content = Result(r).content

LEMMA NothingMarked ==
    ASSUME proposal \in Proposals, NEW c, NEW mark,
           (IF mark.undone THEN {} ELSE mark.applied) = {}
    PROVE  Tells(c, mark) <=> Facts(c) = HeldWith({})
<1>1. Last({}) = {}
  BY DEF Last
<1>2. {} \in SUBSET DOMAIN proposal /\ {} # {1, 2}
  OBVIOUS
<1>3. Facts(Partial({})) = HeldWith(Last({}))
  BY <1>2, PartialFacts
<1>4. QED
  BY <1>1, <1>3 DEF Tells

\* The mark of a request that was alone tells what it has left.
LEMMA MarkedTells ==
    ASSUME EditInv, NEW r \in EditRequests, readMark[r] = changeset,
           r \in undoing <=> ~MayApply, r \in undoing => selected[r] = changeset.applied,
           Tells(copy[r], changeset)
    PROVE  Tells(Result(r).content, Marked(r))
<1>1. /\ proposal \in Proposals /\ selected[r] \in SUBSET DOMAIN proposal
      /\ Good(copy[r]) /\ changeset \in Marks
  BY DEF EditInv, ChangesTypeOK
<1>2. CASE r \in undoing
  <2> DEFINE M == changeset.applied
  <2>1. ~changeset.undone /\ selected[r] = M
    BY <1>2 DEF MayApply
  <2>2. Facts(copy[r]) = HeldWith(Last(M))
    BY <2>1 DEF Tells
  <2>3. Facts(UndoChanges(copy[r], M).content) = HeldWith({})
    BY <1>1, <2>1, <2>2, UndoneHeld
  <2>4. Result(r).content = UndoChanges(copy[r], M).content
    BY <1>2, <2>1 DEF Result
  <2>5. Marked(r).undone
    BY <1>1, <1>2 DEF Marked, Marks
  <2>6. QED
    BY <1>1, <2>3, <2>4, <2>5, NothingMarked
<1>3. CASE r \notin undoing
  <2> DEFINE e == ApplyChanges(copy[r], selected[r])
  <2>1. (IF changeset.undone THEN {} ELSE changeset.applied) = {}
    BY <1>3 DEF MayApply
  <2>2. Facts(copy[r]) = HeldWith({})
    BY <1>1, <2>1, NothingMarked
  <2>3. /\ Facts(e.content) = HeldWith(Last(e.applied))
        /\ Facts(Partial(e.applied)) = HeldWith(Last(e.applied))
    BY <1>1, <2>2, AppliedHeld
  <2>4. Result(r) = e
    BY <1>3 DEF Result
  <2>5. Marked(r) = [applied |-> e.applied, undone |-> FALSE]
    BY <1>3, <2>4 DEF Marked
  <2> HIDE DEF e
  <2>6. ~Marked(r).undone /\ Marked(r).applied = e.applied
    BY <2>5
  <2>7. QED
    BY <2>3, <2>4, <2>6 DEF Tells
<1>4. QED
  BY <1>2, <1>3

LEMMA SeqInvNext == EditInv /\ SeqInv /\ [EditNext]_editVars => SeqInv'
<1> SUFFICES ASSUME EditInv, SeqInv, [EditNext]_editVars, OneByOne'
             PROVE  SeqInv'
  BY DEF SeqInv
<1> USE DEF boundsOnEdits
<1>1. /\ proposal \in Proposals
      /\ editStep \in [EditRequests -> {"idle", "load", "save", "mark"}]
      /\ copy \in [EditRequests -> Contents] /\ readMark \in [EditRequests -> Marks]
      /\ selected \in [EditRequests -> SUBSET DOMAIN proposal]
      /\ undoing \subseteq InFlight /\ builds \in Nat /\ editFails \in Nat
  BY DEF EditInv, ChangesTypeOK
<1>2. UNCHANGED proposal
  BY StepShape
<1>3. \A c, mark : Tells(c, mark) => (Tells(c, mark))'
  <2>1. \A M : HeldWith(Last(M))' = HeldWith(Last(M))
    BY <1>2 DEF Last, Clash, HeldWith
  <2>2. \A M : Partial(M)' = Partial(M)
    BY <1>2 DEF Partial, ApplyChanges
  <2>3. QED
    BY <2>1, <2>2 DEF Tells
<1> DEFINE Alone ==
              /\ \A r, q \in InFlight : r = q
              /\ InFlight = {} => Tells(content, changeset)
              /\ \A r \in InFlight :
                    /\ readMark[r] = changeset
                    /\ r \in undoing <=> ~MayApply
                    /\ r \in undoing => selected[r] = changeset.applied
                    /\ editStep[r] # "mark" => Tells(content, changeset)
                    /\ editStep[r] = "save" => copy[r] = content
                    /\ editStep[r] = "mark" =>
                          Tells(copy[r], changeset) /\ content = Result(r).content
<1>4. ASSUME OneByOne
      PROVE  Alone
  BY <1>4 DEF SeqInv
<1>5. SUFFICES Alone'
  BY DEF SeqInv
<1>6. ASSUME NEW r \in EditRequests, NEW changes, BeginEdit(r, changes)
      PROVE  /\ InFlight = {} /\ InFlight' = {r} /\ editStep'[r] = "load"
             /\ readMark'[r] = changeset /\ selected'[r] = changes
             /\ UNCHANGED <<content, changeset>> /\ Tells(content, changeset)
  <2>1. /\ overlapped' = (overlapped \/ InFlight # {})
        /\ editStep' = [editStep EXCEPT ![r] = "load"]
        /\ readMark' = [readMark EXCEPT ![r] = changeset]
        /\ selected' = [selected EXCEPT ![r] = changes]
        /\ UNCHANGED <<content, changeset, builds, editFails>>
    BY <1>6 DEF BeginEdit, EditGoto
  <2>2. InFlight = {} /\ OneByOne
    BY <2>1 DEF OneByOne
  <2>3. \A x \in EditRequests : editStep[x] = "idle"
    BY <2>2 DEF InFlight
  <2>4. InFlight' = {r}
    BY <1>1, <2>1, <2>3 DEF InFlight
  <2>5. Tells(content, changeset)
    BY <1>4, <2>2
  <2>6. QED
    BY <1>1, <2>1, <2>2, <2>4, <2>5
<1>7. ASSUME NEW r \in EditRequests, BeginApply(r)
      PROVE  Alone'
  <2>1. PICK changes : BeginEdit(r, changes)
    BY <1>7 DEF BeginApply
  <2>2. MayApply /\ undoing' = undoing
    BY <1>7 DEF BeginApply
  <2>3. /\ InFlight = {} /\ InFlight' = {r} /\ editStep'[r] = "load"
        /\ readMark'[r] = changeset
        /\ UNCHANGED <<content, changeset>> /\ Tells(content, changeset)
    BY <1>6, <2>1
  <2>4. r \notin undoing' /\ MayApply'
    BY <1>1, <2>2, <2>3 DEF MayApply
  <2>5. (Tells(content, changeset))'
    BY <1>3, <2>3
  <2>6. QED
    BY <2>3, <2>4, <2>5
<1>8. ASSUME NEW r \in EditRequests, BeginUndo(r)
      PROVE  Alone'
  <2>1. /\ ~MayApply /\ BeginEdit(r, changeset.applied)
        /\ undoing' = undoing \cup {r}
    BY <1>8 DEF BeginUndo
  <2>2. /\ InFlight = {} /\ InFlight' = {r} /\ editStep'[r] = "load"
        /\ readMark'[r] = changeset /\ selected'[r] = changeset.applied
        /\ UNCHANGED <<content, changeset>> /\ Tells(content, changeset)
    BY <1>6, <2>1
  <2>3. r \in undoing' /\ ~MayApply'
    BY <2>1, <2>2 DEF MayApply
  <2>4. (Tells(content, changeset))'
    BY <1>3, <2>2
  <2>5. QED
    BY <2>2, <2>3, <2>4
<1>9. ASSUME NEW r \in EditRequests, LoadTarget(r)
      PROVE  Alone'
  <2>1. /\ editStep[r] = "load" /\ copy' = [copy EXCEPT ![r] = content]
        /\ editStep' = [editStep EXCEPT ![r] = "save"]
        /\ UNCHANGED <<proposal, content, changeset, undoing, selected, readMark, builds,
                       editFails, overlapped>>
    BY <1>9 DEF LoadTarget, EditGoto
  <2>2. OneByOne
    BY <2>1 DEF OneByOne
  <2>3. Alone /\ r \in InFlight
    BY <1>4, <2>1, <2>2 DEF InFlight
  <2>4. InFlight' = {r}
    <3>1. InFlight' = InFlight
      BY <1>1, <2>1 DEF InFlight
    <3>2. QED
      BY <2>3, <3>1
  <2>5. editStep'[r] = "save" /\ copy'[r] = content
    BY <1>1, <2>1
  <2>6. (Tells(content, changeset))'
    BY <1>3, <2>1, <2>3
  <2>7. MayApply' <=> MayApply
    BY <2>1 DEF MayApply
  <2>8. QED
    BY <2>1, <2>3, <2>4, <2>5, <2>6, <2>7
<1>10. ASSUME NEW r \in EditRequests, Answered(r), InFlight = {r}
       PROVE  InFlight' = {}
  <2>1. editStep' = [editStep EXCEPT ![r] = "idle"]
    BY <1>10 DEF Answered, EditGoto
  <2>2. \A x \in EditRequests : editStep'[x] = "idle"
    BY <1>1, <1>10, <2>1 DEF InFlight
  <2>3. QED
    BY <2>2 DEF InFlight
<1>11. ASSUME NEW r \in EditRequests, Save(r)
       PROVE  Alone'
  <2>1. /\ editStep[r] = "save"
        /\ UNCHANGED <<proposal, changeset, builds, editFails, overlapped>>
    BY <1>11 DEF Save
  <2>2. OneByOne
    BY <2>1 DEF OneByOne
  <2>3. Alone /\ r \in InFlight
    BY <1>4, <2>1, <2>2 DEF InFlight
  <2>4. /\ InFlight = {r} /\ readMark[r] = changeset /\ copy[r] = content
        /\ Tells(content, changeset)
    BY <2>1, <2>3
  <2>5. CASE Result(r).applied = {}
    <3>1. Answered(r) /\ UNCHANGED content
      BY <1>11, <2>5 DEF Save
    <3>2. InFlight' = {}
      BY <1>10, <2>4, <3>1
    <3>3. (Tells(content, changeset))'
      BY <1>3, <2>1, <2>4, <3>1
    <3>4. QED
      BY <3>2, <3>3
  <2>6. CASE Result(r).applied # {}
    <3>1. /\ content' = Written(r) /\ editStep' = [editStep EXCEPT ![r] = "mark"]
          /\ UNCHANGED <<undoing, selected, readMark, copy>>
      BY <1>11, <2>6 DEF Save, EditGoto
    <3>2. InFlight' = {r}
      <4>1. InFlight' = InFlight
        BY <1>1, <2>1, <3>1 DEF InFlight
      <4>2. QED
        BY <2>4, <4>1
    <3>3. editStep'[r] = "mark"
      BY <1>1, <3>1
    <3>4. Result(r)' = Result(r)
      BY <2>1, <3>1 DEF Result, ApplyChanges, UndoChanges
    <3>5. Written(r) = Result(r).content
      <4> DEFINE e == Result(r).content
      <4>1. e \in Contents
        BY ResultGood DEF Good
      <4>2. Written(r) = [e EXCEPT !.details = e.details]
        BY <2>4 DEF Written
      <4> HIDE DEF e
      <4>3. [e EXCEPT !.details = e.details] = e
        BY <4>1 DEF Contents
      <4>4. QED
        BY <4>2, <4>3 DEF e
    <3>6. (Tells(copy[r], changeset))'
      BY <1>3, <2>1, <2>4, <3>1
    <3>7. MayApply' <=> MayApply
      BY <2>1 DEF MayApply
    <3>8. content' = Result(r)'.content
      BY <3>1, <3>4, <3>5
    <3>9. QED
      BY <2>1, <2>3, <2>4, <3>1, <3>2, <3>3, <3>6, <3>7, <3>8
  <2>7. QED
    BY <2>5, <2>6
<1>12. ASSUME NEW r \in EditRequests, UpdateChangeset(r)
       PROVE  Alone'
  <2>1. /\ editStep[r] = "mark" /\ changeset' = Marked(r) /\ Answered(r)
        /\ UNCHANGED <<content, builds, editFails, overlapped>>
    BY <1>12 DEF UpdateChangeset
  <2>2. OneByOne
    BY <2>1 DEF OneByOne
  <2>3. Alone /\ r \in InFlight
    BY <1>4, <2>1, <2>2 DEF InFlight
  <2>4. /\ InFlight = {r} /\ readMark[r] = changeset
        /\ r \in undoing <=> ~MayApply
        /\ r \in undoing => selected[r] = changeset.applied
        /\ Tells(copy[r], changeset) /\ content = Result(r).content
    BY <2>1, <2>3
  <2>5. Tells(Result(r).content, Marked(r))
    BY <2>4, MarkedTells
  <2>6. InFlight' = {}
    BY <1>10, <2>1, <2>4
  <2>7. Tells(content', changeset')
    BY <2>1, <2>4, <2>5
  <2>8. (Tells(content, changeset))'
    BY <1>3, <2>7
  <2>9. QED
    BY <2>6, <2>8
<1>13. ASSUME NEW r \in EditRequests, EditFails(r)
       PROVE  FALSE
  BY <1>1, <1>13 DEF EditFails, OneByOne
<1>14. CASE BuilderEdits \/ BuilderRemoves \/ BuilderRenames
  <2>1. \E c : BuilderWrites(c)
    BY <1>14 DEF BuilderEdits, BuilderRemoves, BuilderRenames
  <2>2. builds' = builds + 1
    BY <2>1 DEF BuilderWrites
  <2>3. QED
    BY <1>1, <2>2 DEF OneByOne
<1>15. CASE UNCHANGED editVars
  <2>1. /\ UNCHANGED <<proposal, content, changeset, undoing, selected, readMark, copy, builds,
                       editStep, editFails, overlapped>>
    BY <1>15 DEF editVars
  <2>2. Alone
    BY <1>4, <2>1 DEF OneByOne
  <2>3. InFlight' = InFlight
    BY <2>1 DEF InFlight
  <2>4. \A r : Result(r)' = Result(r)
    BY <2>1 DEF Result, ApplyChanges, UndoChanges
  <2>5. MayApply' <=> MayApply
    BY <2>1 DEF MayApply
  <2>6. /\ Tells(content, changeset) => (Tells(content, changeset))'
        /\ \A r : Tells(copy[r], changeset) => (Tells(copy[r], changeset))'
    BY <1>3, <2>1
  <2>7. QED
    BY <2>1, <2>2, <2>3, <2>4, <2>5, <2>6
<1>16. QED
  BY <1>7, <1>8, <1>9, <1>11, <1>12, <1>13, <1>14, <1>15 DEF EditNext

\* What the exam is at the start is the original, of which the changeset says nothing.
LEMMA ContentInit == EditInit => WholeInv /\ SeqInv
<1> SUFFICES ASSUME EditInit
             PROVE  WholeInv /\ SeqInv
  OBVIOUS
<1>1. proposal \in Proposals /\ content = Original /\ changeset = Unmarked
  BY DEF EditInit
<1>2. Held(content) /\ \A r \in EditRequests : Held(copy[r])
  BY <1>1, HeldOriginal DEF EditInit
<1>3. InFlight = {}
  BY DEF EditInit, InFlight
<1>4. Tells(content, changeset)
  <2>1. (IF changeset.undone THEN {} ELSE changeset.applied) = {}
    BY <1>1 DEF Unmarked
  <2>2. Facts(Original) = HeldWith({})
    BY <1>1, OriginalMay
  <2>3. QED
    BY <1>1, <2>1, <2>2, NothingMarked
<1>5. QED
  BY <1>2, <1>3, <1>4 DEF WholeInv, SeqInv

LEMMA ContentInv == EditInv /\ WholeInv /\ SeqInv => ContentMatches
<1> SUFFICES ASSUME EditInv, WholeInv, SeqInv
             PROVE  ContentMatches
  OBVIOUS
<1>1. ChangesTypeOK /\ NoneTwice /\ proposal \in Proposals /\ content \in Contents
  BY DEF EditInv, ChangesTypeOK, NoneTwice, Good
<1>2. OnlyWholeChanges
  <2>1. builds = 0 => Held(content)
    BY DEF WholeInv
  <2>2. builds = 0 => \E ids \in SUBSET (DOMAIN proposal) :
                         Holdings(content) = Holdings(Partial(ids))
    BY <1>1, <2>1, HeldWhole
  <2>3. QED
    BY <2>2 DEF OnlyWholeChanges
<1>3. MarkTellsContent
  <2> SUFFICES ASSUME OneByOne, InFlight = {}
               PROVE  Holdings(content)
                         = Holdings(Partial(IF changeset.undone
                                            THEN {} ELSE changeset.applied))
    <3>1. editFails \in Nat /\ builds \in Nat /\ overlapped \in BOOLEAN
      BY <1>1 DEF ChangesTypeOK
    <3>2. QED
      BY <3>1 DEF MarkTellsContent, OneByOne
  <2> DEFINE M == IF changeset.undone THEN {} ELSE changeset.applied
  <2>1. Tells(content, changeset)
    BY DEF SeqInv
  <2>2. Facts(content) = Facts(Partial(M))
    BY <2>1 DEF Tells
  <2>3. Partial(M) \in Contents
    <3>1. Good(Original)
      BY <1>1, GoodOriginal
    <3>2. Good(ApplyChanges(Original, M).content)
      BY <1>1, <3>1, ChangesGood
    <3>3. QED
      BY <3>2 DEF Partial, Good
  <2> HIDE DEF M
  <2>4. Holdings(content) = Holdings(Partial(M))
    BY <1>1, <2>2, <2>3, FactsAreHoldings
  <2>5. QED
    BY <2>4 DEF M
<1>4. QED
  BY <1>1, <1>2, <1>3 DEF ContentMatches

\* While the builder is not used, the exam holds the original with some whole changes of the
\* proposal and nothing else; and when requests come one after the other and none fails, those
\* the changeset marks as applied, or the original after an undo (applyChanges, undoChanges,
\* ContentEditService.save).
THEOREM ContentIsWhatIsMarked == EditSpec => []ContentMatches
<1>1. EditInit => EditInv /\ WholeInv /\ SeqInv
  BY EditInvInit, ContentInit
<1>2. EditInv /\ WholeInv /\ SeqInv /\ [EditNext]_editVars => (EditInv /\ WholeInv /\ SeqInv)'
  BY EditInvNext, WholeInvNext, SeqInvNext
<1>3. EditInv /\ WholeInv /\ SeqInv => ContentMatches
  BY ContentInv
<1>4. QED
  BY <1>1, <1>2, <1>3, PTL DEF EditSpec

=================================================================================
