------------------------------ MODULE ChangeSets ------------------------------
(***************************************************************************)
(* A changeset the AI proposed for an exam: the teacher applies some of    *)
(* its changes and may undo them.  The positions of all its changes are    *)
(* those of the content they were proposed for.  A request reads the       *)
(* changeset, loads the exam, applies the changes to its copy, saves the   *)
(* copy whole and marks the changeset; others act between these steps, and *)
(* so does the teacher who edits the exam in the builder.                  *)
(***************************************************************************)
EXTENDS Naturals, Sequences, FiniteSets

Edits == INSTANCE SequencesExt

CONSTANTS
    EditRequests,   \* apply and undo requests that can be in flight at once
    FirstSize, SecondSize,  \* items of the exam's two sections
    MaxPosition,    \* bound on the positions the AI proposes
    MaxEdits,       \* bound on the requests and the edits in the builder, together
    MaxBuilds,      \* bound on the edits in the builder
    MaxEditFails    \* bound on requests that fail or crash between their steps

ASSUME EditBoundsAssumption ==
    /\ IsFiniteSet(EditRequests)
    /\ {FirstSize, SecondSize, MaxPosition, MaxEdits, MaxBuilds, MaxEditFails} \subseteq Nat

VARIABLES
    proposal,       \* ChangeSet.changes; a change's id is its place
    content,        \* the exam: its details and its sections
    changeset,      \* the changes marked as applied, and whether as undone
    editStep,
    undoing,        \* the requests that undo
    selected,       \* the changes each request applies
    readMark, copy, \* the changeset and the content it has read
    edits, builds, editFails,
    overlapped      \* history: two requests have been in flight at once

editVars == <<proposal, content, changeset, editStep, undoing, selected, readMark, copy,
              edits, builds, editFails, overlapped>>
boundsOnEdits == <<builds, editFails>>

-------------------------------------------------------------------------------
(* The content.  Of an item and of the details only the version matters:   *)
(* the original, the AI's or the builder's.                                *)

Versions == {"original", "ai", "builder"}
Old(i) == [id |-> i, version |-> "original"]
OldItems == 1..(FirstSize + SecondSize)
NewItems == {FirstSize + SecondSize + 1, FirstSize + SecondSize + 2}
NewItem(id) == [id |-> FirstSize + SecondSize + id, version |-> "ai"]   \* of a change
NewSection == 3

Original ==
    [details |-> "original",
     sections |-> <<[id |-> 1, title |-> "original",
                     items |-> [i \in 1..FirstSize |-> Old(i)]],
                    [id |-> 2, title |-> "original",
                     items |-> [i \in 1..SecondSize |-> Old(FirstSize + i)]]>>]

HasSection(c, s) == \E p \in DOMAIN c.sections : c.sections[p].id = s
SectionAt(c, s) == CHOOSE p \in DOMAIN c.sections : c.sections[p].id = s

\* The places of the items with an id: of the section, and in it.
Places(c, i) ==
    UNION {{<<p, q>> : q \in {k \in DOMAIN c.sections[p].items :
                                 c.sections[p].items[k].id = i}} :
              p \in DOMAIN c.sections}
FindItem(c, i) ==
    CHOOSE x \in Places(c, i) :
        \A y \in Places(c, i) : x[1] < y[1] \/ (x[1] = y[1] /\ x[2] <= y[2])
ItemAt(c, x) == c.sections[x[1]].items[x[2]]

Clamp(index, length) == IF index < length THEN index ELSE length
Splice(s, index, x) == Edits!InsertAt(s, Clamp(index, Len(s)) + 1, x)

WithItems(c, p, items) == [c EXCEPT !.sections[p].items = items]
Without(c, i) ==
    LET x == FindItem(c, i) IN WithItems(c, x[1], Edits!RemoveAt(c.sections[x[1]].items, x[2]))
With(c, s, index, item) ==
    LET p == SectionAt(c, s) IN WithItems(c, p, Splice(c.sections[p].items, index, item))

-------------------------------------------------------------------------------
(* The changes: applyChange and invertChange.                              *)

\* Mutant of Unchanged: an item changed since the proposal is edited and removed as well.
Present(c, item) == Places(c, item.id) # {}

\* The item is there, as it was when the change was proposed.
Unchanged(c, item) == Places(c, item.id) # {} /\ ItemAt(c, FindItem(c, item.id)) = item

CanAdd(c, ch) == HasSection(c, ch.section) /\ Places(c, ch.item.id) = {}

CanApply(c, ch) ==
    \/ ch.kind \in {"edit_item", "remove_item"} /\ Unchanged(c, ch.item)
    \/ ch.kind = "add_item" /\ CanAdd(c, ch)
    \/ /\ ch.kind = "move_item"
       /\ Places(c, ch.item.id) # {} /\ HasSection(c, ch.to.section)
    \/ ch.kind = "add_section" /\ ~HasSection(c, ch.section.id)
    \/ /\ ch.kind = "remove_section"
       /\ HasSection(c, ch.section.id)
       /\ c.sections[SectionAt(c, ch.section.id)].items = ch.section.items
    \/ /\ ch.kind = "rename_section"
       /\ HasSection(c, ch.section)
       /\ c.sections[SectionAt(c, ch.section)].title = ch.before
    \/ ch.kind = "update_details" /\ c.details = ch.before

ApplyChange(c, ch) ==
    CASE ch.kind = "edit_item" ->
            LET x == FindItem(c, ch.item.id)
            IN  WithItems(c, x[1], [c.sections[x[1]].items EXCEPT ![x[2]] = ch.after])
      [] ch.kind = "add_item" -> With(c, ch.section, ch.index, ch.item)
      [] ch.kind = "remove_item" -> Without(c, ch.item.id)
      [] ch.kind = "move_item" ->
            With(Without(c, ch.item.id), ch.to.section, ch.to.index,
                 ItemAt(c, FindItem(c, ch.item.id)))
      [] ch.kind = "add_section" ->
            [c EXCEPT !.sections = Splice(c.sections, ch.index, ch.section)]
      [] ch.kind = "remove_section" ->
            [c EXCEPT !.sections = Edits!RemoveAt(c.sections, SectionAt(c, ch.section.id))]
      [] ch.kind = "rename_section" ->
            [c EXCEPT !.sections[SectionAt(c, ch.section)].title = ch.after]
      [] ch.kind = "update_details" -> [c EXCEPT !.details = ch.after]

InvertedKind(kind) ==
    CASE kind = "add_item" -> "remove_item"
      [] kind = "remove_item" -> "add_item"
      [] kind = "add_section" -> "remove_section"
      [] kind = "remove_section" -> "add_section"
      [] OTHER -> kind

InvertChange(ch) ==
    CASE ch.kind = "edit_item" -> [ch EXCEPT !.item = ch.after, !.after = ch.item]
      [] ch.kind = "move_item" -> [ch EXCEPT !.from = ch.to, !.to = ch.from]
      [] ch.kind \in {"rename_section", "update_details"} ->
            [ch EXCEPT !.before = ch.after, !.after = ch.before]
      [] OTHER -> [ch EXCEPT !.kind = InvertedKind(ch.kind)]

\* One of the changes, if it is among the chosen ones and applies; skipped otherwise.
Attempt(done, chosen, ch) ==
    IF ch.id \in chosen /\ CanApply(done.content, ch)
    THEN [content |-> ApplyChange(done.content, ch), applied |-> done.applied \cup {ch.id}]
    ELSE done

\* The changes one after the other; a proposal has one or two (Proposals).
ApplyChanges(c, chosen) ==
    LET first == Attempt([content |-> c, applied |-> {}], chosen, proposal[1])
    IN  IF Len(proposal) = 1 THEN first ELSE Attempt(first, chosen, proposal[2])

\* Their inverses, from last to first.
UndoChanges(c, chosen) ==
    LET none == [content |-> c, applied |-> {}]
        last == IF Len(proposal) = 1
                THEN none
                ELSE Attempt(none, chosen, InvertChange(proposal[2]))
    IN  Attempt(last, chosen, InvertChange(proposal[1]))

-------------------------------------------------------------------------------
(* The changes the AI can propose: edits, removals, moves and renamings in *)
(* any order, each of an item it has not touched yet; then the additions.  *)

Positions == 0..MaxPosition
Sites == {[section |-> s, index |-> i] : s \in {1, 2}, i \in Positions}
OriginalSite(i) ==
    IF i <= FirstSize THEN [section |-> 1, index |-> i - 1]
                      ELSE [section |-> 2, index |-> i - FirstSize - 1]

ItemChanges ==
    [kind : {"edit_item"}, item : {Old(i) : i \in OldItems}]
    \cup [kind : {"remove_item"}, item : {Old(i) : i \in OldItems}]
    \cup [kind : {"move_item"}, item : {Old(i) : i \in OldItems}, to : Sites]

SectionChanges ==
    [kind : {"rename_section"}, section : {1, 2}, before : {"original"}, after : {"ai"}]
    \cup {[kind |-> "remove_section", section |-> Original.sections[s], index |-> s - 1] :
             s \in {1, 2}}

Additions ==
    {[kind |-> "add_item", section |-> x.section, index |-> x.index] : x \in Sites}
    \cup [kind : {"add_section"}, index : Positions]
    \cup [kind : {"update_details"}, before : {"original"}, after : {"ai"}]

\* With its id, and what the change keeps of the original.
Completed(ch, id) ==
    CASE ch.kind = "edit_item" ->
            [id |-> id, kind |-> ch.kind, item |-> ch.item,
             after |-> [ch.item EXCEPT !.version = "ai"]]
      [] ch.kind = "remove_item" ->
            [id |-> id, kind |-> ch.kind, item |-> ch.item,
             section |-> OriginalSite(ch.item.id).section,
             index |-> OriginalSite(ch.item.id).index]
      [] ch.kind = "move_item" ->
            [id |-> id, kind |-> ch.kind, item |-> ch.item, to |-> ch.to,
             from |-> OriginalSite(ch.item.id)]
      [] ch.kind = "add_item" ->
            [id |-> id, kind |-> ch.kind, item |-> NewItem(id), section |-> ch.section,
             index |-> ch.index]
      [] ch.kind = "add_section" ->
            [id |-> id, kind |-> ch.kind, index |-> ch.index,
             section |-> [id |-> NewSection, title |-> "ai", items |-> <<NewItem(id)>>]]
      [] OTHER -> [x \in DOMAIN ch \cup {"id"} |-> IF x = "id" THEN id ELSE ch[x]]

Touched(ch) ==
    CASE ch.kind \in {"edit_item", "remove_item", "move_item"} -> {<<"item", ch.item.id>>}
      [] ch.kind \in {"add_section", "update_details"} -> {<<ch.kind, 1>>}
      [] OTHER -> {}

Proposals ==
    LET first == ItemChanges \cup SectionChanges
        pairs == first \X (first \cup Additions) \cup Additions \X Additions
    IN  {<<Completed(ch, 1)>> : ch \in first \cup Additions}
        \cup {<<Completed(x[1], 1), Completed(x[2], 2)>> :
                 x \in {y \in pairs : Touched(y[1]) \cap Touched(y[2]) = {}}}

-------------------------------------------------------------------------------
(* The requests.                                                           *)

Unmarked == [applied |-> {}, undone |-> FALSE]

EditInit ==
    /\ proposal \in Proposals
    /\ content = Original
    /\ changeset = Unmarked
    /\ editStep = [r \in EditRequests |-> "idle"]
    /\ undoing = {}
    /\ selected = [r \in EditRequests |-> {}]
    /\ readMark = [r \in EditRequests |-> Unmarked]
    /\ copy = [r \in EditRequests |-> Original]
    /\ edits = 0 /\ builds = 0 /\ editFails = 0
    /\ overlapped = FALSE

EditGoto(r, label) == editStep' = [editStep EXCEPT ![r] = label]
InFlight == {r \in EditRequests : editStep[r] # "idle"}

Answered(r) ==
    /\ EditGoto(r, "idle")
    /\ undoing' = undoing \ {r}
    /\ selected' = [selected EXCEPT ![r] = {}]
    /\ readMark' = [readMark EXCEPT ![r] = Unmarked]
    /\ copy' = [copy EXCEPT ![r] = Original]

BeginEdit(r, changes) ==
    /\ editStep[r] = "idle" /\ edits + builds < MaxEdits
    /\ edits' = edits + 1
    /\ EditGoto(r, "load")
    /\ selected' = [selected EXCEPT ![r] = changes]
    /\ readMark' = [readMark EXCEPT ![r] = changeset]
    /\ overlapped' = (overlapped \/ InFlight # {})
    /\ UNCHANGED <<proposal, content, changeset, copy, boundsOnEdits>>

MayApply == changeset.applied = {} \/ changeset.undone

BeginApply(r) ==
    /\ MayApply
    /\ \E changes \in SUBSET (DOMAIN proposal) \ {{}} : BeginEdit(r, changes)
    /\ UNCHANGED undoing

BeginUndo(r) ==
    /\ ~MayApply
    /\ BeginEdit(r, changeset.applied)
    /\ undoing' = undoing \cup {r}

LoadTarget(r) ==
    /\ editStep[r] = "load"
    /\ copy' = [copy EXCEPT ![r] = content]
    /\ EditGoto(r, "save")
    /\ UNCHANGED <<proposal, content, changeset, undoing, selected, readMark, edits,
                   boundsOnEdits, overlapped>>

Result(r) ==
    IF r \in undoing THEN UndoChanges(copy[r], selected[r]) ELSE ApplyChanges(copy[r], selected[r])

\* Mutant of Written: a section the request has not changed is left as it is now.
WrittenBySection(r) ==
    LET result == Result(r).content
        Kept(s) == s \in Edits!ToSet(copy[r].sections) /\ HasSection(content, s.id)
    IN  [result EXCEPT !.sections =
            [p \in DOMAIN result.sections |->
                IF Kept(result.sections[p])
                THEN content.sections[SectionAt(content, result.sections[p].id)]
                ELSE result.sections[p]]]

\* The sections are written whole, the details when a change has changed them.
Written(r) ==
    [Result(r).content EXCEPT !.details = IF @ = copy[r].details THEN content.details ELSE @]

Save(r) ==
    /\ editStep[r] = "save"
    /\ IF Result(r).applied = {}
       THEN Answered(r) /\ UNCHANGED content
       ELSE /\ content' = Written(r)
            /\ EditGoto(r, "mark")
            /\ UNCHANGED <<undoing, selected, readMark, copy>>
    /\ UNCHANGED <<proposal, changeset, edits, boundsOnEdits, overlapped>>

Marked(r) ==
    IF r \in undoing
    THEN [readMark[r] EXCEPT !.undone = TRUE]
    ELSE [applied |-> Result(r).applied, undone |-> FALSE]

UpdateChangeset(r) ==
    /\ editStep[r] = "mark"
    /\ changeset' = Marked(r)
    /\ Answered(r)
    /\ UNCHANGED <<proposal, content, edits, boundsOnEdits, overlapped>>

\* A query throws, or the process stops, between the two writes: the second is not made.
\* (A request that stops before the first is one that takes no further step.)
EditFails(r) ==
    /\ editStep[r] = "mark" /\ editFails < MaxEditFails
    /\ editFails' = editFails + 1
    /\ Answered(r)
    /\ UNCHANGED <<proposal, content, changeset, edits, builds, overlapped>>

-------------------------------------------------------------------------------
(* The builder, on the content as it is.                                   *)

BuilderWrites(c) ==
    /\ builds < MaxBuilds /\ edits + builds < MaxEdits
    /\ builds' = builds + 1
    /\ content' = c
    /\ UNCHANGED <<proposal, changeset, editStep, undoing, selected, readMark, copy, edits,
                   editFails, overlapped>>

BuilderEdits ==
    \E p \in DOMAIN content.sections : \E q \in DOMAIN content.sections[p].items :
        BuilderWrites([content EXCEPT !.sections[p].items[q].version = "builder"])

BuilderRemoves ==
    \E p \in DOMAIN content.sections : \E q \in DOMAIN content.sections[p].items :
        BuilderWrites(Without(content, content.sections[p].items[q].id))

BuilderRenames ==
    \E p \in DOMAIN content.sections :
        BuilderWrites([content EXCEPT !.sections[p].title = "builder"])

-------------------------------------------------------------------------------
(* Specification.                                                          *)

EditNext ==
    \/ \E r \in EditRequests : \/ BeginApply(r) \/ BeginUndo(r)
                               \/ LoadTarget(r) \/ Save(r) \/ UpdateChangeset(r)
                               \/ EditFails(r)
    \/ BuilderEdits \/ BuilderRemoves \/ BuilderRenames

EditSpec == EditInit /\ [][EditNext]_editVars

-------------------------------------------------------------------------------
(* Properties.                                                             *)

ExamItems == [id : OldItems \cup NewItems, version : Versions]
ExamSections == [id : 1..3, title : Versions, items : Seq(ExamItems)]
Contents == [details : Versions, sections : Seq(ExamSections)]
Marks == [applied : SUBSET DOMAIN proposal, undone : BOOLEAN]

\* The variables have their types.
ChangesTypeOK ==
    /\ proposal \in Proposals
    /\ content \in Contents /\ copy \in [EditRequests -> Contents]
    /\ changeset \in Marks /\ readMark \in [EditRequests -> Marks]
    /\ editStep \in [EditRequests -> {"idle", "load", "save", "mark"}]
    /\ undoing \subseteq InFlight
    /\ selected \in [EditRequests -> SUBSET DOMAIN proposal]
    /\ {edits, builds, editFails} \subseteq Nat /\ overlapped \in BOOLEAN

\* What a content holds, without the order of its sections and items.
Holdings(c) ==
    [details |-> c.details,
     titles |-> {<<c.sections[p].id, c.sections[p].title>> : p \in DOMAIN c.sections},
     items |-> UNION {{<<c.sections[p].id, c.sections[p].items[q]>> :
                          q \in DOMAIN c.sections[p].items} : p \in DOMAIN c.sections}]

\* The original with some of the changes.
Partial(ids) == ApplyChanges(Original, ids).content

Distinct(c) ==
    /\ \A p, q \in DOMAIN c.sections : c.sections[p].id = c.sections[q].id => p = q
    /\ \A p, q \in DOMAIN c.sections :
          \A k \in DOMAIN c.sections[p].items, l \in DOMAIN c.sections[q].items :
              c.sections[p].items[k].id = c.sections[q].items[l].id => p = q /\ k = l

\* No section and no item is twice in the exam, whatever is applied, undone and applied
\* again, by requests that overlap, and however the builder is used meanwhile.
NoneTwice == Distinct(content)

\* While the builder is not used, the exam holds the original with some whole changes of the
\* proposal and nothing else: also when two requests overlap, when one fails before the
\* changeset is marked, and when changes are applied a second time after that.
OnlyWholeChanges ==
    builds = 0 =>
        LET held == Holdings(content)
        IN  \E ids \in SUBSET (DOMAIN proposal) : held = Holdings(Partial(ids))

\* When requests come one after the other and none fails, the changeset tells what the exam
\* holds: the changes marked as applied, and nothing of the others; after an undo, the
\* original.
MarkTellsContent ==
    overlapped \/ editFails > 0 \/ builds > 0 \/ InFlight # {}
    \/ Holdings(content) = Holdings(Partial(IF changeset.undone THEN {} ELSE changeset.applied))

\* The content is what the changeset says, or at least consists of whole changes.
ContentMatches == ChangesTypeOK /\ NoneTwice /\ OnlyWholeChanges /\ MarkTellsContent

EditedItems(c) ==
    UNION {{i.id : i \in {j \in Edits!ToSet(c.sections[p].items) : j.version = "builder"}} :
              p \in DOMAIN c.sections}

\* What the builder has made of an item stays until a request that has loaded the exam before
\* saves its copy: an edit made elsewhere is skipped, not overwritten (the comment of
\* applyChange).
BuilderEditsStay ==
    [][builds' = builds =>
          \A i \in EditedItems(content) \ EditedItems(content') :
              \E r \in EditRequests : editStep[r] = "save" /\ i \notin EditedItems(copy[r])
      ]_editVars

\* After an undo, the exam is as it was.
UndoRestores ==
    changeset.undone /\ builds = 0 /\ editFails = 0 /\ ~overlapped /\ InFlight = {}
        => content = Original

===============================================================================
