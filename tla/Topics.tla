-------------------------------- MODULE Topics --------------------------------
(***************************************************************************)
(* The topic tree, the page that edits it, and the tags that items of      *)
(* material and homework carry.  An item's tags are rows of a junction     *)
(* collection; replacing them is a read, a deletion and one creation for   *)
(* each new topic, all creations in flight at once.                        *)
(*                                                                         *)
(* A saver is whoever replaces an item's tags: the Topics field of an open *)
(* page, or the dialog that has just filed the item.  `busy` holds the     *)
(* creations of its save in flight; one refused ends the save, and the     *)
(* others land when they will (`late`, at most one of a topic).            *)
(*                                                                         *)
(* source: routes/TopicsPage.tsx, lib/queries/topics.ts and                *)
(* components/topics of the frontend                                       *)
(***************************************************************************)
EXTENDS Naturals, FiniteSets

CONSTANTS
    Topic,     \* ids of topics
    Text,      \* what a description may hold
    Blank,     \* the empty one
    Item,      \* ids of what may be tagged
    LinkId,    \* ids of junction rows, in the order they are given out
    Editor,    \* open Topics pages
    Saver,     \* whoever replaces tags
    MaxLost,   \* bound: requests refused for no reason here, and tasks cut short
    None

ASSUME TopicsAssumption ==
    /\ Blank \in Text
    /\ None \notin Topic \cup Item \cup Text
    /\ LinkId \subseteq Nat /\ MaxLost \in Nat

VARIABLES
    rows,      \* the topics collection,
    links,     \* and the junction collection
    tree,      \* the topics a Topics page last fetched
    selected,  \* the topic it shows the description of,
    typed,     \* and the description in its box
    choice,    \* the topics chosen in a saver's picker
    step,      \* how far its save has got
    held,      \* the junction rows it read
    busy,      \* its creations in flight,
    late,      \* those, of whatever item, of a save of its that has failed,
    moved,     \* history: whether anybody else wrote the item's tags since it read
    lost       \* history: the requests and tasks that failed for no reason here

treeVars == <<tree, selected, typed>>
saveVars == <<choice, step, held, busy, late, moved>>
tagVars == <<rows, links, treeVars, saveVars>>
topicVars == <<tagVars, lost>>

TopicRow == [id : Topic, parent : Topic \cup {None}, about : Text]
Link == [id : LinkId, item : Item, topic : Topic]
Step == {"idle", "removing", "adding", "saved"}

TopicsTypeOK ==
    /\ rows \subseteq TopicRow
    /\ links \subseteq Link
    /\ tree \in [Editor -> SUBSET TopicRow]
    /\ selected \in [Editor -> Topic \cup {None}]
    /\ typed \in [Editor -> Text]
    /\ choice \in [Saver -> SUBSET Topic]
    /\ step \in [Saver -> Step]
    /\ held \in [Saver -> SUBSET Link]
    /\ busy \in [Saver -> SUBSET Topic]
    /\ late \in [Saver -> SUBSET (Item \X Topic)]
    /\ moved \in [Saver -> BOOLEAN]
    /\ lost \in 0..MaxLost

Ids(topics) == {row.id : row \in topics}
Known == Ids(rows)
LinksOf(item) == {link \in links : link.item = item}
TagsOf(item) == {link.topic : link \in LinksOf(item)}

\* Every topic hangs under a known one, and none is its own ancestor.
Forest(topics) ==
    /\ \A row \in topics : row.parent \in Ids(topics) \cup {None}
    /\ \A some \in SUBSET topics :
          some # {} => \E row \in some : row.parent \notin Ids(some)

\* The description of the topic selected, if it is there.
AboutIn(topics, t) ==
    IF t \in Ids(topics) THEN (CHOOSE row \in topics : row.id = t).about ELSE None
Box(about) == IF about = None THEN Blank ELSE about

TopicsInit ==
    /\ \E known \in SUBSET Topic : \E above \in [known -> known \cup {None}] :
          rows = {[id |-> t, parent |-> above[t], about |-> Blank] : t \in known}
    /\ Forest(rows)
    /\ links = {}
    /\ tree = [e \in Editor |-> rows]
    /\ selected = [e \in Editor |-> None]
    /\ typed = [e \in Editor |-> Blank]
    /\ choice = [s \in Saver |-> {}]
    /\ step = [s \in Saver |-> "idle"]
    /\ held = [s \in Saver |-> {}]
    /\ busy = [s \in Saver |-> {}]
    /\ late = [s \in Saver |-> {}]
    /\ moved = [s \in Saver |-> FALSE]
    /\ lost = 0

Lose == lost < MaxLost /\ lost' = lost + 1

-------------------------------------------------------------------------------
(***************************************************************************)
(* The Topics page.                                                        *)
(***************************************************************************)

\* The box follows the selection: it is filled again when the topic selected, or the
\* description that came with it, has changed.
FollowedAlways(e, topics, t) == Box(AboutIn(topics, t))
Followed(e, topics, t) ==
    IF t = selected[e] /\ AboutIn(topics, t) = AboutIn(tree[e], selected[e])
    THEN typed[e]
    ELSE Box(AboutIn(topics, t))

Show(e, topics, t) ==
    /\ tree' = [tree EXCEPT ![e] = topics]
    /\ selected' = [selected EXCEPT ![e] = t]
    /\ typed' = [typed EXCEPT ![e] = Followed(e, topics, t)]

RefetchTree(e) ==
    /\ tree[e] # rows
    /\ Show(e, rows, selected[e])
    /\ UNCHANGED <<rows, links, saveVars, lost>>

Select(e) ==
    /\ \E t \in Ids(tree[e]) \ {selected[e]} : Show(e, tree[e], t)
    /\ UNCHANGED <<rows, links, saveVars, lost>>

Describe(e) ==
    /\ selected[e] \in Ids(tree[e])
    /\ \E text \in Text \ {typed[e]} : typed' = [typed EXCEPT ![e] = text]
    /\ UNCHANGED <<rows, links, tree, selected, saveVars, lost>>

\* At the root or under a topic the page draws.
Under(e) == Ids(tree[e]) \cup {None}

\* Adds a topic; one under a topic that is gone is refused.
AddTopic(e) ==
    /\ \E t \in Topic \ Known, parent \in Under(e) \cap (Known \cup {None}) :
          /\ rows' = rows \cup {[id |-> t, parent |-> parent, about |-> Blank]}
          /\ Show(e, tree[e], t)
    /\ UNCHANGED <<links, saveVars, lost>>

\* Saves the description typed; on a topic that is gone nothing happens.
SaveDescription(e) ==
    /\ selected[e] \in Ids(tree[e]) \cap Known
    /\ typed[e] # Box(AboutIn(tree[e], selected[e]))
    /\ rows' = {IF row.id = selected[e] THEN [row EXCEPT !.about = typed[e]] ELSE row : row \in rows}
    /\ UNCHANGED <<links, treeVars, saveVars, lost>>

\* Deleting promotes the children and drops the tags.
DeleteTopic(e) ==
    /\ \E t \in Ids(tree[e]) \cap Known :
          /\ rows' = {IF row.parent = t THEN [row EXCEPT !.parent = None] ELSE row :
                        row \in {other \in rows : other.id # t}}
          /\ links' = {link \in links : link.topic # t}
          /\ moved' = [s \in Saver |-> TRUE]
          /\ Show(e, tree[e], IF selected[e] = t THEN None ELSE selected[e])
    /\ UNCHANGED <<choice, step, held, busy, late, lost>>

-------------------------------------------------------------------------------
(***************************************************************************)
(* Replacing an item's tags.                                               *)
(***************************************************************************)

Saving(s) == step[s] \in {"removing", "adding"}
Idle(s) == step' = [step EXCEPT ![s] = "idle"] /\ held' = [held EXCEPT ![s] = {}]

\* The picker toggles the topics it lists; one chosen that is gone since stays chosen, out
\* of sight, until it is taken off with the key that takes off the last.
Choose(s) ==
    /\ ~Saving(s)
    /\ \E t \in Known \cup choice[s] : choice' = [choice EXCEPT ![s] = IF t \in @ THEN @ \ {t} ELSE @ \cup {t}]
    /\ Idle(s)
    /\ UNCHANGED <<rows, links, treeVars, busy, late, moved, lost>>

\* A write of the item's tags disturbs every save of it but the writer's own.
WroteTags(item, except, at) ==
    moved' = [s \in Saver |-> moved[s] \/ (s \notin except /\ at[s] = item)]

\* Reads what the item has.
ReadTags(s, item) ==
    /\ ~Saving(s)
    /\ step' = [step EXCEPT ![s] = "removing"]
    /\ held' = [held EXCEPT ![s] = LinksOf(item)]
    /\ moved' = [moved EXCEPT ![s] = FALSE]
    /\ UNCHANGED <<rows, links, treeVars, choice, busy, late, lost>>

Unwanted(s) == {link \in held[s] : link.topic \notin choice[s]}
MissingAll(s) == choice[s]
Missing(s) == {t \in choice[s] : \A link \in held[s] : link.topic # t}

\* Deletes the rows of topics no longer chosen and sends the creations of the new ones.
RemoveTags(s, at) ==
    /\ step[s] = "removing"
    /\ links' = links \ Unwanted(s)
    /\ step' = [step EXCEPT ![s] = "adding"]
    /\ busy' = [busy EXCEPT ![s] = Missing(s)]
    /\ IF Unwanted(s) = {} THEN UNCHANGED moved ELSE WroteTags(at[s], {s}, at)
    /\ UNCHANGED <<rows, treeVars, choice, held, late, lost>>

\* The row of a tag that lands: its id is nobody's, nor of a row anybody still holds.
Taken == {link.id : link \in links \cup UNION {held[s] : s \in Saver}}
Land(item, t) ==
    \E id \in LinkId \ Taken :
        /\ \A other \in LinkId \ Taken : id <= other
        /\ links' = links \cup {[id |-> id, item |-> item, topic |-> t]}

\* One creation lands; of a topic that is gone it cannot.
AddTag(s, at) ==
    /\ \E t \in busy[s] \cap Known :
          /\ Land(at[s], t)
          /\ busy' = [busy EXCEPT ![s] = @ \ {t}]
    /\ WroteTags(at[s], {s}, at)
    /\ UNCHANGED <<rows, treeVars, choice, step, held, late, lost>>

\* One is refused, its topic or item gone, or is not answered: the save ends in an error,
\* the picker stays as it was, and the other creations are still in flight.
RefuseTag(s, at, alive) ==
    /\ \E t \in busy[s] :
          /\ late' = [late EXCEPT ![s] = @ \cup ({at[s]} \X (busy[s] \ {t}))]
          /\ IF t \in Known /\ at[s] \in alive THEN Lose ELSE UNCHANGED lost
    /\ busy' = [busy EXCEPT ![s] = {}]
    /\ Idle(s)
    /\ UNCHANGED <<rows, links, treeVars, choice, moved>>

AddLate(s, at, alive) ==
    /\ \E tag \in late[s] :
          /\ late' = [late EXCEPT ![s] = @ \ {tag}]
          /\ IF tag[1] \in alive /\ tag[2] \in Known
             THEN Land(tag[1], tag[2]) /\ WroteTags(tag[1], {}, at)
             ELSE UNCHANGED <<links, moved>>
    /\ UNCHANGED <<rows, treeVars, choice, step, held, busy, lost>>

\* The read of the links, or their deletion, is refused.
RefuseSave(s) ==
    /\ step[s] = "removing"
    /\ Lose
    /\ Idle(s)
    /\ UNCHANGED <<rows, links, treeVars, choice, busy, late, moved>>

\* Promise.all has every answer.
FinishTags(s) ==
    /\ step[s] = "adding" /\ busy[s] = {}
    /\ step' = [step EXCEPT ![s] = "saved"]
    /\ UNCHANGED <<rows, links, treeVars, choice, held, busy, late, moved, lost>>

EditTopics(e) ==
    RefetchTree(e) \/ Select(e) \/ Describe(e) \/ AddTopic(e) \/ SaveDescription(e) \/ DeleteTopic(e)

\* Of the items there are; a row that is gone takes no tags.
SaveTags(s, at, alive) ==
    \/ RemoveTags(s, at)
    \/ at[s] \in alive /\ AddTag(s, at)
    \/ FinishTags(s)
    \/ RefuseTag(s, at, alive) \/ AddLate(s, at, alive) \/ RefuseSave(s)

-------------------------------------------------------------------------------
(***************************************************************************)
(* Properties.                                                             *)
(***************************************************************************)

\* A step that fills the box again has a reason.
BoxKept(e) ==
    selected'[e] = selected[e] /\ typed'[e] # typed[e] =>
        \/ Describe(e)
        \/ AboutIn(rows, selected[e]) # AboutIn(tree[e], selected[e])
\* A description typed and not saved is only ever replaced by the tutor selecting another
\* topic, or by one the topic has been given since the page fetched it.
TypedDescriptionIsKept == [][\A e \in Editor : BoxKept(e)]_topicVars
================================================================================
