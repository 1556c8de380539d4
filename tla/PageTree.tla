------------------------------ MODULE PageTree ------------------------------
(***************************************************************************)
(* PageTree, CatalogInformation and what DocumentContext does with them:   *)
(* adding a page to the tree call by call, writing the tree to the PDF,    *)
(* alone or combined with the tree of the document being modified, and     *)
(* carrying it over a restart.                                             *)
(*                                                                         *)
(* A node is named by its object ID, which the registry gave it, and 0     *)
(* names none.  The recursive calls are unfolded: CreateBrotherOrCousin    *)
(* climbs to an ancestor with room, then goes down again, one new node per *)
(* level.                                                                  *)
(***************************************************************************)
EXTENDS Integers, Sequences, FiniteSets, SequencesExt, FiniteSetsExt

CONSTANTS
    PAGE_TREE_LEVEL_SIZE,   \* 10 in the code
    OriginalCounts,         \* numbers of pages of the modified documents, 0 for none
    MaxPages,               \* bound: pages added
    MaxRestarts             \* bound: Shutdown / ContinuePDF pairs

\* With a level size of 1 a parent would be full as soon as it is created.
ASSUME PageTreeAssumption ==
    /\ PAGE_TREE_LEVEL_SIZE \in Nat \ {0, 1}
    /\ OriginalCounts \subseteq Nat
    /\ MaxPages \in Nat /\ MaxRestarts \in Nat

VARIABLES
    nextID,         \* the next ID the registry allocates
    nodes,          \* the PageTree objects
    current,        \* mCurrentPageTreeNode
    pc,             \* the call being executed
    page,           \* AddPageToPageTree's page
    at, returns,    \* where CreateBrotherOrCousin executes, and its calls to return to
    frames,         \* the calls of WritePageTree
    combinedRoot,   \* WriteCombinedPageTree's newPageRootTreeID
    written,        \* the tree nodes written to the PDF
    pages,          \* the pages written, in order, each with the Parent it names
    originalCount,  \* the number of pages of the document being modified
    restarts

tree == <<nextID, nodes, current>>
writing == <<frames, combinedRoot, written>>
vars == <<tree, pc, page, at, returns, writing, pages, originalCount, restarts>>

NoNode == 0

\* The modified document's page tree: a root with its pages below.
OriginalRoot == 1
OriginalKids == [k \in 1 .. originalCount |-> OriginalRoot + k]

NewNode(parent) == [parent |-> parent, isLeafParent |-> TRUE, kids |-> <<>>]

HasRoom_OneMore(n) == Len(nodes[n].kids) <= PAGE_TREE_LEVEL_SIZE
HasRoom(n) == Len(nodes[n].kids) < PAGE_TREE_LEVEL_SIZE

GetParent_Self(n) == IF nodes[n].parent = NoNode THEN NoNode ELSE n
GetParent(n) == nodes[n].parent

\* The ancestors of a node, itself included.
Ancestors(n) ==
    LET up[k \in 0 .. Cardinality(DOMAIN nodes)] ==
          IF k = 0 THEN {n}
          ELSE up[k - 1] \cup {nodes[m].parent : m \in up[k - 1] \cap DOMAIN nodes}
    IN up[Cardinality(DOMAIN nodes)] \ {NoNode}

\* GetPageTreeRoot
Root == CHOOSE n \in Ancestors(current) : nodes[n].parent \notin DOMAIN nodes

Init ==
    /\ originalCount \in OriginalCounts
    /\ nextID = originalCount + 2
    /\ nodes = <<>>
    /\ current = NoNode
    /\ pc = "idle"
    /\ page = 0 /\ at = NoNode /\ returns = 0
    /\ frames = <<>> /\ combinedRoot = NoNode /\ written = <<>>
    /\ pages = <<>>
    /\ restarts = 0
-----------------------------------------------------------------------------
(***************************************************************************)
(* WritePage: the page takes its ID, then AddPageToPageTree puts it in the *)
(* tree and returns the node that is its Parent.                           *)
(***************************************************************************)
AppendPage(n, p, in) == [in EXCEPT ![n].kids = Append(@, p), ![n].isLeafParent = TRUE]

PageAdded_OldParent(n, p) ==
    /\ current' = n
    /\ pages' = Append(pages, [id |-> p, parent |-> IF current = NoNode THEN n ELSE current])
    /\ pc' = "idle"
PageAdded(n, p) ==
    /\ current' = n
    /\ pages' = Append(pages, [id |-> p, parent |-> n])
    /\ pc' = "idle"

\* The first page creates the first node.
AddFirstPage ==
    /\ pc = "idle" /\ Len(pages) < MaxPages
    /\ current = NoNode
    /\ LET p == nextID
           n == nextID + 1
       IN
       /\ nextID' = nextID + 2
       /\ nodes' = AppendPage(n, p, [m \in {n} |-> NewNode(NoNode)])
       /\ PageAdded(n, p)
    /\ UNCHANGED <<page, at, returns, writing, originalCount, restarts>>

AddPageToCurrent ==
    /\ pc = "idle" /\ Len(pages) < MaxPages
    /\ current # NoNode /\ HasRoom(current)
    /\ nextID' = nextID + 1
    /\ nodes' = AppendPage(current, nextID, nodes)
    /\ PageAdded(current, nextID)
    /\ UNCHANGED <<page, at, returns, writing, originalCount, restarts>>

StartAddingPage ==
    /\ pc = "idle" /\ Len(pages) < MaxPages
    /\ current # NoNode /\ ~HasRoom(current)
    /\ page' = nextID
    /\ nextID' = nextID + 1
    /\ at' = current
    /\ returns' = 0
    /\ pc' = "climb"
    /\ UNCHANGED <<nodes, current, writing, pages, originalCount, restarts>>

\* The node is full: its parent, a new one if it has none, creates its brother,
\* and in the brother the call is made again.
Climbing == pc = "climb" /\ (at = current \/ ~HasRoom(at))

ReturnsAfterClimb_None == returns
ReturnsAfterClimb == IF at = current THEN returns ELSE returns + 1

ClimbToParent ==
    /\ Climbing
    /\ GetParent(at) # NoNode
    /\ at' = GetParent(at)
    /\ returns' = ReturnsAfterClimb
    /\ UNCHANGED <<tree, pc, page, writing, pages, originalCount, restarts>>

ClimbToNewParent ==
    /\ Climbing
    /\ GetParent(at) = NoNode
    /\ LET parent == nextID IN
       /\ nextID' = nextID + 1
       /\ nodes' = [n \in DOMAIN nodes \cup {parent} |->
                      CASE n = parent -> [NewNode(NoNode) EXCEPT !.isLeafParent = FALSE,
                                                                 !.kids = <<at>>]
                        [] n = at     -> [nodes[at] EXCEPT !.parent = parent]
                        [] OTHER      -> nodes[n]]
       /\ at' = parent
    /\ returns' = ReturnsAfterClimb
    /\ UNCHANGED <<current, pc, page, writing, pages, originalCount, restarts>>

\* The node has room: it creates a child, where the calls to return to go on, and
\* the last of them adds the page.
WithChild_NoParent(child) ==
    [n \in DOMAIN nodes \cup {child} |->
        CASE n = child -> NewNode(NoNode)
          [] n = at    -> [nodes[at] EXCEPT !.isLeafParent = FALSE,
                                            !.kids = Append(@, child)]
          [] OTHER     -> nodes[n]]
WithChild(child) ==
    [n \in DOMAIN nodes \cup {child} |->
        CASE n = child -> NewNode(at)
          [] n = at    -> [nodes[at] EXCEPT !.isLeafParent = FALSE,
                                            !.kids = Append(@, child)]
          [] OTHER     -> nodes[n]]

CanCreateChild == pc = "climb" /\ at # current /\ HasRoom(at)

CreateBrother ==
    /\ CanCreateChild
    /\ returns > 0
    /\ nextID' = nextID + 1
    /\ nodes' = WithChild(nextID)
    /\ at' = nextID
    /\ returns' = returns - 1
    /\ UNCHANGED <<current, pc, page, writing, pages, originalCount, restarts>>

CreateBrotherAndAddPage ==
    /\ CanCreateChild
    /\ returns = 0
    /\ nextID' = nextID + 1
    /\ nodes' = AppendPage(nextID, page, WithChild(nextID))
    /\ PageAdded(nextID, page)
    /\ UNCHANGED <<page, at, returns, writing, originalCount, restarts>>
-----------------------------------------------------------------------------
(***************************************************************************)
(* WritePageTree: a node is written after its kids, with the number of     *)
(* pages below.                                                            *)
(***************************************************************************)
WrittenNode(id, parent, kids, count) ==
    [id |-> id, parent |-> parent, kids |-> kids, count |-> count]

Frame(n) == [node |-> n, kid |-> 1, total |-> 0]

\* DocumentHasNewPages looks down the left edge of the tree.
HasLeaf_RootOnly(n) == nodes[n].isLeafParent
HasLeaf(n) ==
    LET down[k \in 0 .. Cardinality(DOMAIN nodes)] ==
          LET m == IF k = 0 THEN n
                   ELSE IF down[k - 1] = NoNode \/ nodes[down[k - 1]].isLeafParent
                        THEN NoNode ELSE nodes[down[k - 1]].kids[1]
          IN m
    IN \E k \in DOMAIN down : down[k] # NoNode /\ nodes[down[k]].isLeafParent

DocumentHasNewPages == current # NoNode /\ HasLeaf(Root)

\* A document with no new page has no new tree.
EndWithoutPages ==
    /\ pc = "idle" /\ ~DocumentHasNewPages
    /\ pc' = "written"
    /\ UNCHANGED <<tree, page, at, returns, writing, pages, originalCount, restarts>>

StartWritingPagesTree ==
    /\ pc = "idle" /\ DocumentHasNewPages
    /\ originalCount = 0
    /\ pc' = "write"
    /\ frames' = <<Frame(Root)>>
    /\ UNCHANGED <<tree, page, at, returns, combinedRoot, written, pages, originalCount,
                   restarts>>

\* WriteCombinedPageTree: for the time of the writing the root has a parent.
StartWritingCombined ==
    /\ pc = "idle" /\ DocumentHasNewPages
    /\ originalCount > 0
    /\ pc' = "write"
    /\ combinedRoot' = nextID
    /\ nextID' = nextID + 1
    /\ nodes' = [nodes EXCEPT ![Root].parent = nextID]
    /\ frames' = <<Frame(Root)>>
    /\ UNCHANGED <<current, page, at, returns, written, pages, originalCount, restarts>>

Top == Last(frames)

\* The call returns the count, which the caller adds to its own.
Return_Forgets(count) ==
    IF Len(frames) = 1 THEN <<>>
    ELSE [Front(frames) EXCEPT ![Len(frames) - 1].kid = @ + 1,
                               ![Len(frames) - 1].total = count]
Return(count) ==
    IF Len(frames) = 1 THEN <<>>
    ELSE [Front(frames) EXCEPT ![Len(frames) - 1].kid = @ + 1,
                               ![Len(frames) - 1].total = @ + count]

WriteNode(count) ==
    /\ written' = Append(written, WrittenNode(Top.node, nodes[Top.node].parent,
                                              nodes[Top.node].kids, count))
    /\ frames' = Return(count)
    /\ pc' = IF Len(frames) > 1 THEN "write"
             ELSE IF combinedRoot = NoNode THEN "written" ELSE "combine"
    /\ UNCHANGED <<tree, page, at, returns, combinedRoot, pages, originalCount, restarts>>

InWritePageTree == pc = "write"

WriteLeafParent ==
    /\ InWritePageTree /\ nodes[Top.node].isLeafParent
    /\ WriteNode(Len(nodes[Top.node].kids))

VisitKid ==
    /\ InWritePageTree /\ ~nodes[Top.node].isLeafParent
    /\ Top.kid <= Len(nodes[Top.node].kids)
    /\ frames' = Append(frames, Frame(nodes[Top.node].kids[Top.kid]))
    /\ UNCHANGED <<tree, pc, page, at, returns, combinedRoot, written, pages,
                   originalCount, restarts>>

WriteInner ==
    /\ InWritePageTree /\ ~nodes[Top.node].isLeafParent
    /\ Top.kid > Len(nodes[Top.node].kids)
    /\ WriteNode(Top.total)

\* The original root again, with a parent now, then the root of both.
NewPagesRoot == Last(written).id
NewPagesCount == Last(written).count

CombinedNodes_NewPagesFirst ==
    <<WrittenNode(OriginalRoot, combinedRoot, OriginalKids, originalCount),
      WrittenNode(combinedRoot, NoNode, <<NewPagesRoot, OriginalRoot>>,
                  originalCount + NewPagesCount)>>
CombinedNodes ==
    <<WrittenNode(OriginalRoot, combinedRoot, OriginalKids, originalCount),
      WrittenNode(combinedRoot, NoNode, <<OriginalRoot, NewPagesRoot>>,
                  originalCount + NewPagesCount)>>

FinishCombined ==
    /\ pc = "combine"
    /\ nodes' = [nodes EXCEPT ![NewPagesRoot].parent = NoNode]
    /\ written' = written \o CombinedNodes
    /\ pc' = "written"
    /\ UNCHANGED <<nextID, current, page, at, returns, frames, combinedRoot, pages,
                   originalCount, restarts>>
-----------------------------------------------------------------------------
(***************************************************************************)
(* Shutdown saves the tree below the root, ContinuePDF builds it again by  *)
(* adding every saved kid to its node.                                     *)
(***************************************************************************)
Saved ==
    {n \in DOMAIN nodes : current # NoNode /\ Root \in Ancestors(n)}

ParentInState_NotSet(n) == NoNode
ParentInState(n) ==
    LET listing == {m \in Saved : ~nodes[m].isLeafParent /\ n \in ToSet(nodes[m].kids)}
    IN IF listing = {} THEN NoNode ELSE CHOOSE m \in listing : TRUE

Restored(n) ==
    [parent |-> ParentInState(n),
     isLeafParent |-> nodes[n].isLeafParent \/ nodes[n].kids = <<>>,
     kids |-> nodes[n].kids]

ShutdownAndContinue ==
    /\ pc = "idle" /\ restarts < MaxRestarts
    /\ nodes' = [n \in Saved |-> Restored(n)]
    /\ current' = IF current \in Saved THEN current ELSE NoNode
    /\ restarts' = restarts + 1
    /\ UNCHANGED <<nextID, pc, page, at, returns, writing, pages, originalCount>>

\* Nothing follows EndPDF.
Ended == pc = "written" /\ UNCHANGED vars

AddingPage == ClimbToParent \/ ClimbToNewParent \/ CreateBrother \/ CreateBrotherAndAddPage

WritingTree == WriteLeafParent \/ VisitKid \/ WriteInner \/ FinishCombined

Next ==
    \/ AddFirstPage \/ AddPageToCurrent \/ StartAddingPage
    \/ AddingPage
    \/ EndWithoutPages \/ StartWritingPagesTree \/ StartWritingCombined
    \/ WritingTree
    \/ ShutdownAndContinue
    \/ Ended

\* A call that was made runs to its end.
Spec == Init /\ [][Next]_vars /\ WF_vars(AddingPage) /\ WF_vars(WritingTree)
-----------------------------------------------------------------------------
(***************************************************************************)
(* Properties.                                                             *)
(***************************************************************************)
ObjectIDs == 1 .. nextID - 1

Node == [parent : ObjectIDs \cup {NoNode}, isLeafParent : BOOLEAN, kids : Seq(ObjectIDs)]

\* The nodes are allocated objects, no node has more kids than its array holds,
\* and the current node, once there is one, is a node.
TypeOK ==
    /\ nextID \in Nat \ {0}
    /\ DOMAIN nodes \subseteq ObjectIDs
    /\ \A n \in DOMAIN nodes : /\ nodes[n] \in Node
                               /\ Len(nodes[n].kids) <= PAGE_TREE_LEVEL_SIZE
    /\ current \in DOMAIN nodes \cup {NoNode}
    /\ pc \in {"idle", "climb", "write", "combine", "written"}
    /\ page \in ObjectIDs \cup {0}
    /\ at \in DOMAIN nodes \cup {NoNode} /\ returns \in Nat
    /\ frames \in Seq([node : DOMAIN nodes, kid : Nat, total : Nat])
    /\ combinedRoot \in ObjectIDs \cup {NoNode}
    /\ written \in Seq([id : ObjectIDs, parent : ObjectIDs \cup {NoNode},
                        kids : Seq(ObjectIDs), count : Nat])
    /\ pages \in Seq([id : ObjectIDs, parent : DOMAIN nodes])
    /\ restarts \in Nat

Inner == {n \in DOMAIN nodes : ~nodes[n].isLeafParent}

\* Between calls the kids of a node know it as their parent, and every node but the
\* root is the kid of exactly one, once: so AddNodeToTree and CreateBrotherOrCousin
\* leave the nodes, whatever new parents, brothers and cousins a page needed.
IsTree ==
    pc = "idle" =>
        /\ \A n \in Inner : \A k \in 1 .. Len(nodes[n].kids) :
              nodes[n].kids[k] \in DOMAIN nodes /\ nodes[nodes[n].kids[k]].parent = n
        /\ \A n \in DOMAIN nodes : IsInjective(nodes[n].kids)
        /\ \A n \in DOMAIN nodes : nodes[n].parent # NoNode =>
              nodes[n].parent \in Inner /\ n \in ToSet(nodes[nodes[n].parent].kids)

\* Between calls all the ways down from the root are of the same length: brothers
\* and cousins are put on the level of the node that was full.
LeavesOnOneLevel ==
    pc = "idle" => \A m, n \in DOMAIN nodes \ Inner :
                      Cardinality(Ancestors(m)) = Cardinality(Ancestors(n))

\* The Parent a page names is the node that lists it, whatever the tree grew into
\* since and however often the writing was interrupted.
PagesNameTheirParent ==
    \A k \in 1 .. Len(pages) :
        /\ pages[k].parent \in DOMAIN nodes \ Inner
        /\ pages[k].id \in ToSet(nodes[pages[k].parent].kids)

\* Looking down the left edge of the tree tells whether there are pages.
LeftEdgeTells == pc = "idle" => (DocumentHasNewPages <=> pages # <<>>)

\* A restart gives back the tree and the place where the next page goes.
RestartKeepsTree ==
    [][restarts' # restarts => nodes' = nodes /\ current' = current]_vars

\* The pages a reader finds below an object of the written tree, in order; what
\* is no tree node is a page.
WrittenIDs == {written[k].id : k \in 1 .. Len(written)}
Written(id) == written[CHOOSE k \in 1 .. Len(written) : written[k].id = id]

PagesBelow ==
    LET below[id \in ObjectIDs] ==
          IF id \in WrittenIDs
          THEN FlattenSeq([k \in 1 .. Len(Written(id).kids) |-> below[Written(id).kids[k]]])
          ELSE <<id>>
    IN below

\* In the file every node of the tree is written once, says how many pages a
\* reader finds below it, and its Parent is the node that lists it.
WrittenTreeIsRight ==
    pc = "written" =>
        /\ Cardinality(WrittenIDs) = Len(written)
        /\ \A k \in 1 .. Len(written) :
              /\ written[k].count = Len(PagesBelow[written[k].id])
              /\ \A j \in ToSet(written[k].kids) \cap WrittenIDs :
                    Written(j).parent = written[k].id
              /\ written[k].parent = NoNode \/
                    (/\ written[k].parent \in WrittenIDs
                     /\ written[k].id \in ToSet(Written(written[k].parent).kids))

\* Adding a page and writing the tree come to an end: the climb reaches an
\* ancestor with room, or a new one, and the way down the level it came from.
CallsEnd == pc \in {"climb", "write", "combine"} ~> pc \in {"idle", "written"}
-----------------------------------------------------------------------------
(***************************************************************************)
(* The tree implements the list of pages.                                  *)
(***************************************************************************)
PagesInTree ==
    LET below[n \in DOMAIN nodes] ==
          IF nodes[n].isLeafParent THEN nodes[n].kids
          ELSE FlattenSeq([k \in 1 .. Len(nodes[n].kids) |-> below[nodes[n].kids[k]]])
    IN IF current = NoNode THEN <<>> ELSE below[Root]

\* What a reader finds from the root the catalog names: the last node written,
\* or the original root when nothing was.
PagesInFile ==
    IF pc # "written" THEN <<0>>
    ELSE IF written = <<>> THEN OriginalKids
    ELSE PagesBelow[Last(written).id]

\* No tree of MaxPages pages has more nodes than pages, save for the root.
MaxObjectID == Max(OriginalCounts) + 2 * MaxPages + 3

PageListOfTree == INSTANCE PageList WITH
    Pages <- 1 .. MaxObjectID,
    OriginalPages <- {[k \in 1 .. n |-> OriginalRoot + k] : n \in OriginalCounts},
    NotEnded <- <<0>>,
    original <- OriginalKids,
    list <- PagesInTree,
    readers <- PagesInFile

\* The pages of the document are the pages added, in the order they were added in,
\* after those of the document being modified; nothing the tree goes through on
\* the way, and no restart, shows.
ImplementsPageList == PageListOfTree!Spec
=============================================================================
