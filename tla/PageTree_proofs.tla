---------------------------- MODULE PageTree_proofs ----------------------------
(***************************************************************************)
(* The page tree is well linked however it grows, all its pages are on one *)
(* level, the node a page was told to be its parent is the one that lists  *)
(* it, and a restart gives back the tree it saved.  What the tree goes     *)
(* through while a page is being added, several calls deep, is part of it. *)
(* Writing it, alone or below a new root with the original one, gives a    *)
(* file in which every node is once, names its parent and says how many    *)
(* pages a reader finds below it.                                          *)
(***************************************************************************)
EXTENDS PageTree, SequenceTheorems, FiniteSetTheorems, NaturalsInduction,
        WellFoundedInduction, TLAPS

NodeRecord == [parent : Nat, isLeafParent : BOOLEAN, kids : Seq(Nat)]

\* IDs are given once: no node and no kid has one that is still to come.  The current
\* node is one of pages.
NodeShape(n) ==
    /\ n \in 1 .. nextID - 1 /\ nodes[n] \in NodeRecord
    /\ \A k \in 1 .. Len(nodes[n].kids) : nodes[n].kids[k] \in 1 .. nextID - 1

Shape ==
    /\ nextID \in Nat \ {0}
    /\ \A n \in DOMAIN nodes : NodeShape(n)
    /\ current = NoNode \/ current \in DOMAIN nodes \ Inner
    /\ current = NoNode => pages = <<>>
    /\ pages \in Seq([id : Nat, parent : Nat])

\* Where a call climbs or descends there is no page: the node is full, or has nodes
\* below, or is as it was created.
Climb ==
    pc = "climb" => /\ at \in DOMAIN nodes /\ current # NoNode
                    /\ at = current \/ at \in Inner \/ nodes[at].kids = <<>>
                    /\ page \in 1 .. nextID - 1

\* IsTree, while pages are being added too.
KidsKnowParent(n) ==
    \A k \in 1 .. Len(nodes[n].kids) :
        nodes[n].kids[k] \in DOMAIN nodes /\ nodes[nodes[n].kids[k]].parent = n

ParentListsKid(n) ==
    nodes[n].parent # NoNode =>
        nodes[n].parent \in Inner /\ n \in ToSet(nodes[nodes[n].parent].kids)

Links == /\ \A n \in Inner : KidsKnowParent(n)
         /\ \A n \in DOMAIN nodes : IsInjective(nodes[n].kids)
         /\ \A n \in DOMAIN nodes : ParentListsKid(n)

Growing == pc \in {"idle", "climb"}

PInv == /\ Shape /\ Climb /\ (Growing => Links) /\ PagesNameTheirParent
        /\ restarts \in Nat

-----------------------------------------------------------------------------
(***************************************************************************)
(* Nodes.                                                                  *)
(***************************************************************************)

\* What a list of kids is when one is added that it did not have.
Grown(s, kid, t) ==
    /\ t \in Seq(Nat) /\ Len(s) \in Nat /\ Len(t) = Len(s) + 1 /\ t[Len(s) + 1] = kid
    /\ \A k \in 1 .. Len(s) : t[k] = s[k]
    /\ \A k \in 1 .. Len(t) : k \in 1 .. Len(s) \/ k = Len(s) + 1
    /\ ToSet(t) = ToSet(s) \cup {kid}
    /\ IsInjective(s) => IsInjective(t)

LEMMA KidAppended ==
    ASSUME NEW s \in Seq(Nat), NEW kid \in Nat, kid \notin ToSet(s),
           NEW t, t = Append(s, kid)
    PROVE  Grown(s, kid, t)
<1>1. /\ t \in Seq(Nat) /\ Len(s) \in Nat /\ Len(t) = Len(s) + 1 /\ t[Len(s) + 1] = kid
      /\ \A k \in 1 .. Len(s) : t[k] = s[k]
  BY AppendProperties, LenProperties
<1>2. \A k \in 1 .. Len(t) : k \in 1 .. Len(s) \/ k = Len(s) + 1
  BY <1>1
<1>3. DOMAIN s = 1 .. Len(s) /\ DOMAIN t = 1 .. Len(t)
  BY <1>1, LenProperties
<1>4. ToSet(t) = ToSet(s) \cup {kid}
  <2>1. Len(s) + 1 \in 1 .. Len(t) /\ \A k \in 1 .. Len(s) : k \in 1 .. Len(t)
    BY <1>1
  <2>. QED  BY <1>1, <1>2, <1>3, <2>1 DEF ToSet
<1>5. ASSUME IsInjective(s)
      PROVE  IsInjective(t)
  <2>1. \A k \in 1 .. Len(s) : s[k] # kid
    BY <1>3, <1>5 DEF ToSet
  <2>2. \A j, k \in 1 .. Len(s) : s[j] = s[k] => j = k
    BY <1>3, <1>5 DEF IsInjective
  <2>. QED  BY <1>1, <1>2, <1>3, <2>1, <2>2 DEF IsInjective
<1>. QED  BY <1>1, <1>2, <1>4, <1>5 DEF Grown

\* The list of one kid, and that of none.
LEMMA ShortLists ==
    /\ <<>> \in Seq(Nat) /\ Len(<<>>) = 0 /\ IsInjective(<<>>) /\ ToSet(<<>>) = {}
    /\ \A kid \in Nat : /\ <<kid>> \in Seq(Nat) /\ Len(<<kid>>) = 1 /\ <<kid>>[1] = kid
                        /\ IsInjective(<<kid>>) /\ kid \in ToSet(<<kid>>)
                        /\ Append(<<>>, kid) = <<kid>>
BY DEF IsInjective, ToSet

\* A list that has kids below a number has no other.
LEMMA FreshKid ==
    ASSUME NEW s \in Seq(Nat), NEW n \in Nat, \A k \in 1 .. Len(s) : s[k] \in 1 .. n - 1
    PROVE  \A kid \in Nat : kid >= n => kid \notin ToSet(s)
<1>1. DOMAIN s = 1 .. Len(s)
  BY LenProperties
<1>. QED  BY <1>1 DEF ToSet

\* An ID that was given stays one.
LEMMA MoreIDs ==
    ASSUME NEW m \in Nat, NEW n \in Nat, m <= n
    PROVE  \A i \in 1 .. m - 1 : i \in 1 .. n - 1
OBVIOUS

\* A page in the list of pages, and one more.
LEMMA PageListed ==
    ASSUME Shape, NEW id \in Nat, NEW parent \in Nat,
           pages' = Append(pages, [id |-> id, parent |-> parent])
    PROVE  /\ pages' \in Seq([id : Nat, parent : Nat])
           /\ \A k \in 1 .. Len(pages') :
                 \/ k \in 1 .. Len(pages) /\ pages'[k] = pages[k]
                 \/ pages'[k].id = id /\ pages'[k].parent = parent
<1>1. PICK new : new = [id |-> id, parent |-> parent]
  OBVIOUS
<1>2. new \in [id : Nat, parent : Nat] /\ new.id = id /\ new.parent = parent
  BY <1>1
<1>3. pages \in Seq([id : Nat, parent : Nat]) /\ Len(pages) \in Nat
  BY LenProperties DEF Shape
<1>4. /\ pages' \in Seq([id : Nat, parent : Nat]) /\ Len(pages') = Len(pages) + 1
      /\ pages'[Len(pages) + 1] = new
      /\ \A k \in 1 .. Len(pages) : pages'[k] = pages[k]
  BY <1>1, <1>2, <1>3, AppendProperties
<1>5. \A k \in 1 .. Len(pages') : k \in 1 .. Len(pages) \/ k = Len(pages) + 1
  BY <1>3, <1>4
<1>. QED  BY <1>2, <1>4, <1>5

-----------------------------------------------------------------------------
(***************************************************************************)
(* The ways in which the tree changes.                                     *)
(***************************************************************************)

\* The nodes keep their kids: pages go on being listed.
SameKids ==
    /\ DOMAIN nodes' = DOMAIN nodes
    /\ \A n \in DOMAIN nodes : /\ nodes'[n] \in NodeRecord
                               /\ nodes'[n].kids = nodes[n].kids
                               /\ nodes'[n].isLeafParent = nodes[n].isLeafParent

LEMMA SameKidsStep ==
    ASSUME Shape, PagesNameTheirParent, SameKids, UNCHANGED <<current, pages>>,
           nextID' \in Nat, nextID' >= nextID
    PROVE  Shape' /\ PagesNameTheirParent'
<1>1. Inner' = Inner
  BY DEF SameKids, Inner
<1>2. \A i \in 1 .. nextID - 1 : i \in 1 .. nextID' - 1
  <2>1. nextID \in Nat /\ nextID <= nextID'
    BY DEF Shape
  <2>. QED  BY <2>1, MoreIDs
<1>3. Shape'
  BY <1>1, <1>2 DEF Shape, NodeShape, SameKids
<1>4. PagesNameTheirParent'
  BY <1>1 DEF PagesNameTheirParent, SameKids
<1>. QED  BY <1>3, <1>4

\* A node gets a kid: a child of its own below it, which starts with a list of kids
\* that are no nodes.
ChildBelow(list) ==
    /\ DOMAIN nodes' = DOMAIN nodes \cup {nextID}
    /\ nodes'[nextID] \in NodeRecord
    /\ nodes'[nextID].parent = at /\ nodes'[nextID].isLeafParent = TRUE
    /\ nodes'[nextID].kids = list
    /\ nodes'[at] \in NodeRecord
    /\ nodes'[at].parent = nodes[at].parent /\ nodes'[at].isLeafParent = FALSE
    /\ nodes'[at].kids = Append(nodes[at].kids, nextID)
    /\ \A n \in DOMAIN nodes \ {at} : nodes'[n] = nodes[n]

LEMMA ChildBelowStep ==
    ASSUME Shape, Links, PagesNameTheirParent,
           at \in DOMAIN nodes, at \in Inner \/ nodes[at].kids = <<>>,
           NEW list \in Seq(Nat), IsInjective(list),
           \A k \in 1 .. Len(list) : list[k] \in 1 .. nextID - 1,
           nextID' = nextID + 1, ChildBelow(list)
    PROVE  /\ nextID' \in Nat \ {0} /\ \A n \in DOMAIN nodes' : NodeShape(n)'
           /\ Inner' = Inner \cup {at}
           /\ Links'
           /\ \A k \in 1 .. Len(pages) :
                 /\ pages[k].parent \in DOMAIN nodes' \ Inner'
                 /\ pages[k].id \in ToSet(nodes'[pages[k].parent].kids)
<1>1. /\ nextID \in Nat \ {0} /\ nextID \notin DOMAIN nodes /\ at # nextID
      /\ at \in Nat /\ at # NoNode /\ nodes[at].kids \in Seq(Nat)
      /\ \A k \in 1 .. Len(nodes[at].kids) : nodes[at].kids[k] \in 1 .. nextID - 1
  BY DEF Shape, NodeShape, NodeRecord, NoNode
<1>2. /\ nextID' \in Nat \ {0} /\ nextID \in 1 .. nextID' - 1
      /\ \A i \in 1 .. nextID - 1 : i \in 1 .. nextID' - 1
  <2>1. nextID \in Nat \ {0}
    BY <1>1
  <2>. QED  BY <2>1
<1>3. PICK kids \in Seq(Nat) : kids = nodes[at].kids
  BY <1>1
<1>4. PICK grown : grown = Append(kids, nextID) /\ grown = nodes'[at].kids
  BY <1>3 DEF ChildBelow
<1>5. nextID \notin ToSet(kids)
  <2>1. nextID \in Nat /\ nextID >= nextID
    BY <1>1
  <2>2. \A k \in 1 .. Len(kids) : kids[k] \in 1 .. nextID - 1
    BY <1>1, <1>3
  <2>. QED  BY <1>3, <2>1, <2>2, FreshKid
<1>6. Grown(kids, nextID, grown)
  <2>1. nextID \in Nat
    BY <1>1
  <2>. QED  BY <1>4, <1>5, <2>1, KidAppended
<1>7. ASSUME NEW n \in DOMAIN nodes'
      PROVE  NodeShape(n)'
  <2>1. CASE n = nextID
    BY <1>1, <1>2, <2>1 DEF ChildBelow, NodeShape
  <2>2. CASE n = at
    <3>1. \A k \in 1 .. Len(grown) : grown[k] \in 1 .. nextID' - 1
      BY <1>1, <1>2, <1>3, <1>6 DEF Grown
    <3>. QED  BY <1>1, <1>2, <1>4, <2>2, <3>1 DEF ChildBelow, NodeShape, Shape
  <2>3. CASE n \in DOMAIN nodes \ {at}
    BY <1>2, <2>3 DEF ChildBelow, NodeShape, Shape
  <2>. QED  BY <2>1, <2>2, <2>3 DEF ChildBelow
<1>8. Inner' = Inner \cup {at}
  BY <1>1 DEF ChildBelow, Inner
<1>9. ASSUME NEW n \in DOMAIN nodes, KidsKnowParent(n)
      PROVE  \A k \in 1 .. Len(nodes[n].kids) :
                nodes[n].kids[k] \in DOMAIN nodes' /\ nodes'[nodes[n].kids[k]].parent = n
  BY <1>9 DEF KidsKnowParent, ChildBelow
<1>10. ASSUME NEW n \in Inner'
       PROVE  KidsKnowParent(n)'
  <2>1. CASE n = at
    <3>1. \A k \in 1 .. Len(kids) : kids[k] \in DOMAIN nodes' /\ nodes'[kids[k]].parent = at
      <4>1. CASE at \in Inner
        BY <1>3, <1>9, <4>1 DEF Links
      <4>2. CASE kids = <<>>
        BY <4>2, ShortLists
      <4>. QED  BY <1>3, <4>1, <4>2
    <3>2. nextID \in DOMAIN nodes' /\ nodes'[nextID].parent = at
      BY DEF ChildBelow
    <3>3. \A k \in 1 .. Len(grown) :
             grown[k] \in DOMAIN nodes' /\ nodes'[grown[k]].parent = at
      BY <1>6, <3>1, <3>2 DEF Grown
    <3>. QED  BY <1>4, <2>1, <3>3 DEF KidsKnowParent
  <2>2. CASE n \in Inner \ {at}
    <3>1. n \in DOMAIN nodes /\ KidsKnowParent(n) /\ nodes'[n] = nodes[n]
      BY <2>2 DEF Links, Inner, ChildBelow
    <3>. QED  BY <1>9, <3>1 DEF KidsKnowParent
  <2>. QED  BY <1>8, <2>1, <2>2
<1>11. ASSUME NEW n \in DOMAIN nodes'
       PROVE  IsInjective(nodes'[n].kids)
  <2>1. \A m \in DOMAIN nodes : IsInjective(nodes[m].kids)
    BY DEF Links
  <2>2. IsInjective(nodes'[at].kids)
    BY <1>3, <1>4, <1>6, <2>1 DEF Grown
  <2>3. IsInjective(nodes'[nextID].kids)
    BY DEF ChildBelow
  <2>4. \A m \in DOMAIN nodes \ {at} : nodes'[m].kids = nodes[m].kids
    BY DEF ChildBelow
  <2>5. n = at \/ n = nextID \/ n \in DOMAIN nodes \ {at}
    BY DEF ChildBelow
  <2>6. CASE n \in DOMAIN nodes \ {at}
    BY <2>1, <2>4, <2>6
  <2>. QED  BY <2>2, <2>3, <2>5, <2>6
<1>12. \A n \in DOMAIN nodes : ToSet(nodes[n].kids) \subseteq ToSet(nodes'[n].kids)
  <2>1. ToSet(nodes[at].kids) \subseteq ToSet(nodes'[at].kids)
    BY <1>3, <1>4, <1>6 DEF Grown
  <2>2. \A m \in DOMAIN nodes \ {at} : nodes'[m].kids = nodes[m].kids
    BY DEF ChildBelow
  <2>. QED  BY <2>1, <2>2
<1>13. ASSUME NEW n \in DOMAIN nodes'
       PROVE  ParentListsKid(n)'
  <2>1. CASE n = nextID
    <3>1. nodes'[n].parent = at /\ at \in Inner' /\ n \in ToSet(nodes'[at].kids)
      BY <1>4, <1>6, <1>8, <2>1 DEF ChildBelow, Grown
    <3>. QED  BY <3>1 DEF ParentListsKid
  <2>2. CASE n \in DOMAIN nodes
    <3>1. nodes'[n].parent = nodes[n].parent /\ ParentListsKid(n)
      BY <2>2 DEF ChildBelow, Links
    <3>2. \A m \in Inner : m \in DOMAIN nodes /\ m \in Inner'
      BY <1>8 DEF Inner
    <3>. QED  BY <1>12, <3>1, <3>2 DEF ParentListsKid
  <2>. QED  BY <2>1, <2>2 DEF ChildBelow
<1>14. ASSUME NEW k \in 1 .. Len(pages)
       PROVE  /\ pages[k].parent \in DOMAIN nodes' \ Inner'
              /\ pages[k].id \in ToSet(nodes'[pages[k].parent].kids)
  <2>1. /\ pages[k].parent \in DOMAIN nodes \ Inner
        /\ pages[k].id \in ToSet(nodes[pages[k].parent].kids)
    BY DEF PagesNameTheirParent
  <2>2. pages[k].parent # at
    BY <2>1, ShortLists
  <2>. QED  BY <1>8, <1>12, <2>1, <2>2 DEF ChildBelow
<1>15. Links'
  BY <1>10, <1>11, <1>13 DEF Links
<1>. QED  BY <1>2, <1>7, <1>8, <1>14, <1>15

-----------------------------------------------------------------------------
(***************************************************************************)
(* Each action.                                                            *)
(***************************************************************************)
LEMMA PageAddedStep ==
    ASSUME Shape, NEW n \in Nat, NEW p \in Nat, n # NoNode, PageAdded(n, p),
           nextID' \in Nat \ {0}, \A m \in DOMAIN nodes' : NodeShape(m)',
           n \in DOMAIN nodes' \ Inner', p \in ToSet(nodes'[n].kids),
           \A k \in 1 .. Len(pages) :
              /\ pages[k].parent \in DOMAIN nodes' \ Inner'
              /\ pages[k].id \in ToSet(nodes'[pages[k].parent].kids)
    PROVE  Shape' /\ Climb' /\ PagesNameTheirParent'
<1>1. /\ current' = n /\ pc' = "idle"
      /\ pages' = Append(pages, [id |-> p, parent |-> n])
  BY DEF PageAdded
<1>2. /\ pages' \in Seq([id : Nat, parent : Nat])
      /\ \A k \in 1 .. Len(pages') :
            \/ k \in 1 .. Len(pages) /\ pages'[k] = pages[k]
            \/ pages'[k].id = p /\ pages'[k].parent = n
  BY <1>1, PageListed
<1>3. Shape' /\ Climb'
  BY <1>1, <1>2 DEF Shape, Climb
<1>4. ASSUME NEW k \in 1 .. Len(pages')
      PROVE  /\ pages'[k].parent \in DOMAIN nodes' \ Inner'
             /\ pages'[k].id \in ToSet(nodes'[pages'[k].parent].kids)
  <2>1. CASE k \in 1 .. Len(pages) /\ pages'[k] = pages[k]
    BY <2>1
  <2>2. CASE pages'[k].id = p /\ pages'[k].parent = n
    BY <2>2
  <2>. QED  BY <1>2, <2>1, <2>2
<1>5. PagesNameTheirParent'
  BY <1>4 DEF PagesNameTheirParent
<1>. QED  BY <1>3, <1>5

LEMMA AddFirstPageStep ==
    ASSUME PInv, AddFirstPage
    PROVE  PInv'
<1>1. /\ Shape /\ current = NoNode /\ nextID' = nextID + 2 /\ restarts' = restarts
      /\ restarts \in Nat
      /\ nodes' = AppendPage(nextID + 1, nextID, [m \in {nextID + 1} |-> NewNode(NoNode)])
      /\ PageAdded(nextID + 1, nextID)
  BY DEF AddFirstPage, PInv
<1>2. nextID \in Nat \ {0} /\ pages = <<>>
  BY <1>1 DEF Shape
<1>3. PICK n \in Nat : n = nextID + 1
  BY <1>2
<1>4. /\ n # NoNode /\ n \in 1 .. nextID' - 1 /\ nextID \in 1 .. nextID' - 1
      /\ nextID' \in Nat \ {0}
  <2>1. nextID' = nextID + 2
    BY <1>1
  <2>. QED  BY <1>2, <1>3, <2>1 DEF NoNode
<1>5. PICK kids \in Seq(Nat) : kids = <<nextID>> /\ kids = Append(<<>>, nextID)
  BY <1>2, ShortLists
<1>6. /\ DOMAIN nodes' = {n}
      /\ nodes'[n] = [parent |-> NoNode, isLeafParent |-> TRUE, kids |-> kids]
  BY <1>1, <1>3, <1>5 DEF AppendPage, NewNode
<1>7. /\ Len(kids) = 1 /\ kids[1] = nextID /\ IsInjective(kids) /\ nextID \in ToSet(kids)
  <2>1. /\ Len(<<nextID>>) = 1 /\ <<nextID>>[1] = nextID /\ IsInjective(<<nextID>>)
        /\ nextID \in ToSet(<<nextID>>)
    BY <1>2, ShortLists
  <2>. QED  BY <1>5, <2>1
<1>8. nodes'[n] \in NodeRecord /\ nodes'[n].kids = kids /\ nodes'[n].parent = NoNode
  <2>1. NoNode \in Nat /\ kids \in Seq(Nat)
    BY DEF NoNode
  <2>2. PICK node : node = [parent |-> NoNode, isLeafParent |-> TRUE, kids |-> kids]
    OBVIOUS
  <2>3. node \in NodeRecord /\ node.kids = kids /\ node.parent = NoNode
    BY <2>1, <2>2 DEF NodeRecord
  <2>. QED  BY <1>6, <2>2, <2>3
<1>9. \A k \in 1 .. Len(kids) : kids[k] \in 1 .. nextID' - 1
  <2>1. \A k \in 1 .. 1 : k = 1
    OBVIOUS
  <2>. QED  BY <1>4, <1>7, <2>1
<1>10. \A m \in DOMAIN nodes' : NodeShape(m)'
  BY <1>4, <1>6, <1>8, <1>9 DEF NodeShape
<1>11. Inner' = {}
  BY <1>6 DEF Inner
<1>12. Links'
  BY <1>6, <1>7, <1>8, <1>11 DEF Links, ParentListsKid
<1>13. \A k \in 1 .. Len(pages) : FALSE
  BY <1>2, ShortLists
<1>14. Shape' /\ Climb' /\ PagesNameTheirParent'
  BY <1>1, <1>2, <1>3, <1>4, <1>6, <1>7, <1>8, <1>10, <1>11, <1>13, PageAddedStep
<1>. QED  BY <1>1, <1>12, <1>14 DEF PInv

LEMMA AddPageToCurrentStep ==
    ASSUME PInv, AddPageToCurrent
    PROVE  PInv'
<1>1. /\ Shape /\ Links /\ PagesNameTheirParent /\ restarts' = restarts /\ restarts \in Nat
      /\ current # NoNode /\ nextID' = nextID + 1
      /\ nodes' = AppendPage(current, nextID, nodes) /\ PageAdded(current, nextID)
  BY DEF AddPageToCurrent, PInv, Growing
<1>2. /\ nextID \in Nat \ {0} /\ nextID' \in Nat \ {0} /\ nextID <= nextID'
      /\ nextID \in 1 .. nextID' - 1
  <2>1. nextID \in Nat \ {0}
    BY <1>1 DEF Shape
  <2>. QED  BY <1>1, <2>1
<1>3. PICK n \in Nat : n = current
  BY <1>1 DEF Shape, NodeShape
<1>4. /\ n \in DOMAIN nodes \ Inner /\ n # NoNode /\ NodeShape(n)
  BY <1>1, <1>3 DEF Shape
<1>5. PICK kids \in Seq(Nat) : kids = nodes[n].kids
  BY <1>4 DEF NodeShape, NodeRecord
<1>6. PICK grown : grown = Append(kids, nextID)
  OBVIOUS
<1>7. nextID \notin ToSet(kids)
  <2>1. nextID \in Nat /\ nextID >= nextID
    BY <1>2
  <2>2. \A k \in 1 .. Len(kids) : kids[k] \in 1 .. nextID - 1
    BY <1>4, <1>5 DEF NodeShape
  <2>. QED  BY <2>1, <2>2, FreshKid
<1>8. Grown(kids, nextID, grown)
  <2>1. nextID \in Nat
    BY <1>2
  <2>. QED  BY <1>6, <1>7, <2>1, KidAppended
<1>9. nodes[n].isLeafParent = TRUE /\ nodes[n] \in NodeRecord
  BY <1>4 DEF Inner, NodeShape, NodeRecord
<1>10. /\ DOMAIN nodes' = DOMAIN nodes
       /\ nodes'[n].parent = nodes[n].parent /\ nodes'[n].isLeafParent = TRUE
       /\ nodes'[n].kids = grown
       /\ \A m \in DOMAIN nodes \ {n} : nodes'[m] = nodes[m]
  BY <1>1, <1>3, <1>4, <1>5, <1>6, <1>9 DEF AppendPage, NodeRecord
<1>11. nodes'[n] \in NodeRecord
  BY <1>1, <1>3, <1>4, <1>5, <1>6, <1>8, <1>9 DEF AppendPage, NodeRecord, Grown
<1>12. \A i \in 1 .. nextID - 1 : i \in 1 .. nextID' - 1
  BY <1>2, MoreIDs
<1>13. ASSUME NEW m \in DOMAIN nodes'
       PROVE  NodeShape(m)'
  <2>1. CASE m = n
    <3>1. \A k \in 1 .. Len(grown) : grown[k] \in 1 .. nextID' - 1
      BY <1>2, <1>4, <1>5, <1>8, <1>12 DEF NodeShape, Grown
    <3>. QED  BY <1>4, <1>10, <1>11, <1>12, <2>1, <3>1 DEF NodeShape
  <2>2. CASE m \in DOMAIN nodes \ {n}
    BY <1>1, <1>10, <1>12, <2>2 DEF NodeShape, Shape
  <2>. QED  BY <1>10, <2>1, <2>2
<1>14. Inner' = Inner
  BY <1>4, <1>9, <1>10 DEF Inner
<1>15. \A m \in DOMAIN nodes : ToSet(nodes[m].kids) \subseteq ToSet(nodes'[m].kids)
  <2>1. ToSet(nodes[n].kids) \subseteq ToSet(nodes'[n].kids)
    BY <1>5, <1>8, <1>10 DEF Grown
  <2>2. ASSUME NEW m \in DOMAIN nodes
        PROVE  ToSet(nodes[m].kids) \subseteq ToSet(nodes'[m].kids)
    <3>1. CASE m = n
      BY <2>1, <3>1
    <3>2. CASE m # n
      <4>1. nodes'[m].kids = nodes[m].kids
        BY <1>10, <3>2
      <4>. QED  BY <4>1
    <3>. QED  BY <3>1, <3>2
  <2>. QED  BY <2>2
<1>16. \A m \in DOMAIN nodes : nodes'[m].parent = nodes[m].parent
  BY <1>10
<1>17. Links'
  <2>1. \A m \in Inner : m \in DOMAIN nodes \ {n} /\ nodes'[m] = nodes[m]
    BY <1>4, <1>10 DEF Inner
  <2>2. \A m \in Inner' : KidsKnowParent(m)'
    BY <1>1, <1>10, <1>14, <1>16, <2>1 DEF Links, KidsKnowParent
  <2>3. \A m \in DOMAIN nodes' : ParentListsKid(m)'
    <3>1. \A m \in Inner : m \in DOMAIN nodes
      BY DEF Inner
    <3>. QED  BY <1>1, <1>10, <1>14, <1>15, <1>16, <3>1 DEF Links, ParentListsKid
  <2>4. IsInjective(nodes'[n].kids)
    BY <1>1, <1>4, <1>5, <1>8, <1>10 DEF Links, Grown
  <2>5. \A m \in DOMAIN nodes' : IsInjective(nodes'[m].kids)
    <3>1. \A m \in DOMAIN nodes \ {n} : IsInjective(nodes'[m].kids)
      BY <1>1, <1>10 DEF Links
    <3>. QED  BY <1>10, <2>4, <3>1
  <2>. QED  BY <2>2, <2>3, <2>5 DEF Links
<1>18. \A k \in 1 .. Len(pages) :
          /\ pages[k].parent \in DOMAIN nodes' \ Inner'
          /\ pages[k].id \in ToSet(nodes'[pages[k].parent].kids)
  BY <1>1, <1>10, <1>14, <1>15 DEF PagesNameTheirParent
<1>19. nextID \in ToSet(nodes'[n].kids)
  BY <1>8, <1>10 DEF Grown
<1>20. Shape' /\ Climb' /\ PagesNameTheirParent'
  BY <1>1, <1>2, <1>3, <1>4, <1>10, <1>13, <1>14, <1>18, <1>19, PageAddedStep
<1>. QED  BY <1>1, <1>17, <1>20 DEF PInv

\* A step that leaves the nodes alone, and at most gives an ID.
LEMMA NodesUnchangedStep ==
    ASSUME PInv, UNCHANGED <<nodes, current, pages>>, restarts' \in Nat,
           Climb', Growing' => Growing, nextID' \in Nat, nextID' >= nextID
    PROVE  PInv'
<1>1. /\ Shape /\ PagesNameTheirParent /\ nodes' = nodes
      /\ current' = current /\ pages' = pages
  BY DEF PInv
<1>2. SameKids
  BY <1>1 DEF SameKids, Shape, NodeShape
<1>3. Shape' /\ PagesNameTheirParent'
  BY <1>1, <1>2, SameKidsStep
<1>4. Links => Links'
  BY <1>1 DEF Links, Inner, KidsKnowParent, ParentListsKid
<1>. QED  BY <1>1, <1>3, <1>4 DEF PInv

LEMMA StartAddingPageStep ==
    ASSUME PInv, StartAddingPage
    PROVE  PInv'
<1>1. /\ nextID \in Nat \ {0} /\ current # NoNode
      /\ current = NoNode \/ current \in DOMAIN nodes
  BY DEF StartAddingPage, PInv, Shape
<1>2. nextID' = nextID + 1 /\ page' = nextID
  BY DEF StartAddingPage
<1>3. /\ nextID' \in Nat /\ nextID' >= nextID /\ page' \in 1 .. nextID' - 1
  BY <1>1, <1>2
<1>4. /\ UNCHANGED <<nodes, current, pages>> /\ restarts' \in Nat
      /\ at' = current /\ pc = "idle"
  BY DEF StartAddingPage, PInv
<1>5. Climb'
  BY <1>1, <1>3, <1>4 DEF Climb
<1>6. Growing
  BY <1>4 DEF Growing
<1>. QED  BY <1>3, <1>4, <1>5, <1>6, NodesUnchangedStep

LEMMA ClimbToParentStep ==
    ASSUME PInv, ClimbToParent
    PROVE  PInv'
<1>1. /\ Links /\ at \in DOMAIN nodes /\ current # NoNode /\ page \in 1 .. nextID - 1
      /\ nextID \in Nat \ {0}
  BY DEF ClimbToParent, Climbing, PInv, Climb, Growing, Shape
<1>2. at' = nodes[at].parent /\ nodes[at].parent # NoNode
  BY DEF ClimbToParent, GetParent
<1>3. at' \in Inner
  BY <1>1, <1>2 DEF Links, ParentListsKid
<1>4. UNCHANGED <<nextID, page, nodes, current, pages, restarts, pc>> /\ pc = "climb"
  BY DEF ClimbToParent, Climbing, tree
<1>5. Climb'
  BY <1>1, <1>3, <1>4 DEF Climb, Inner
<1>6. nextID' \in Nat /\ nextID' >= nextID
  <2>1. nextID' = nextID
    BY <1>4
  <2>. QED  BY <1>1, <2>1
<1>7. Growing
  BY <1>4 DEF Growing
<1>8. UNCHANGED <<nodes, current, pages>> /\ restarts' \in Nat
  BY <1>4 DEF PInv
<1>. QED  BY <1>5, <1>6, <1>7, <1>8, NodesUnchangedStep

\* What creating a child makes of the nodes.
LEMMA WithChildIs ==
    ASSUME Shape, at \in DOMAIN nodes, nodes' = WithChild(nextID)
    PROVE  ChildBelow(<<>>)
<1>1. /\ nextID \in Nat \ {0} /\ nextID \notin DOMAIN nodes /\ at # nextID
      /\ at \in Nat /\ nodes[at] \in NodeRecord
  BY DEF Shape, NodeShape
<1>2. PICK child : child = [parent |-> at, isLeafParent |-> TRUE, kids |-> <<>>]
  OBVIOUS
<1>3. child \in NodeRecord /\ child.parent = at /\ child.isLeafParent = TRUE /\ child.kids = <<>>
  BY <1>1, <1>2, ShortLists DEF NodeRecord
<1>4. PICK kids : kids = Append(nodes[at].kids, nextID)
  OBVIOUS
<1>5. kids \in Seq(Nat)
  <2>1. nextID \in Nat /\ nodes[at].kids \in Seq(Nat)
    BY <1>1 DEF NodeRecord
  <2>. QED  BY <1>4, <2>1, AppendProperties
<1>6. PICK node : node = [nodes[at] EXCEPT !.isLeafParent = FALSE,
                                           !.kids = Append(@, nextID)]
  OBVIOUS
<1>7. /\ node \in NodeRecord /\ node.parent = nodes[at].parent /\ node.isLeafParent = FALSE
      /\ node.kids = kids
  BY <1>1, <1>4, <1>5, <1>6 DEF NodeRecord
<1>8. /\ DOMAIN nodes' = DOMAIN nodes \cup {nextID}
      /\ nodes'[nextID] = child
      /\ nodes'[at] = node
      /\ \A n \in DOMAIN nodes \ {at} : nodes'[n] = nodes[n]
  BY <1>1, <1>2, <1>6 DEF WithChild, NewNode
<1>. QED  BY <1>3, <1>4, <1>7, <1>8 DEF ChildBelow

LEMMA CreateBrotherStep ==
    ASSUME PInv, CreateBrother
    PROVE  PInv'
<1>1. /\ Shape /\ Links /\ PagesNameTheirParent /\ restarts \in Nat
      /\ at \in DOMAIN nodes /\ current # NoNode
      /\ at \in Inner \/ nodes[at].kids = <<>>
      /\ page \in 1 .. nextID - 1
  BY DEF CreateBrother, CanCreateChild, PInv, Climb, Growing
<1>2. /\ nextID' = nextID + 1 /\ at' = nextID /\ at # current
      /\ nodes' = WithChild(nextID)
      /\ UNCHANGED <<current, pages, restarts, page, pc>>
  BY DEF CreateBrother, CanCreateChild
<1>3. /\ <<>> \in Seq(Nat) /\ IsInjective(<<>>)
      /\ \A k \in 1 .. Len(<<>>) : <<>>[k] \in 1 .. nextID - 1
  BY ShortLists
<1>4. ChildBelow(<<>>)
  BY <1>1, <1>2, WithChildIs
<1>5. /\ nextID' \in Nat \ {0} /\ \A n \in DOMAIN nodes' : NodeShape(n)'
      /\ Inner' = Inner \cup {at}
      /\ Links'
      /\ \A k \in 1 .. Len(pages) :
            /\ pages[k].parent \in DOMAIN nodes' \ Inner'
            /\ pages[k].id \in ToSet(nodes'[pages[k].parent].kids)
  BY <1>1, <1>2, <1>3, <1>4, ChildBelowStep
<1>6. PagesNameTheirParent'
  BY <1>2, <1>5 DEF PagesNameTheirParent
<1>7. Shape'
  BY <1>1, <1>2, <1>4, <1>5 DEF Shape, ChildBelow
<1>8. Climb'
  <2>1. at' \in DOMAIN nodes' /\ nodes'[at'].kids = <<>>
    BY <1>2, <1>4 DEF ChildBelow
  <2>2. page' \in 1 .. nextID' - 1
    <3>1. nextID \in Nat /\ nextID' = nextID + 1
      BY <1>1, <1>2 DEF Shape
    <3>2. page \in 1 .. nextID - 1 /\ page' = page
      BY <1>1, <1>2
    <3>. QED  BY <3>1, <3>2
  <2>. QED  BY <1>1, <1>2, <2>1, <2>2 DEF Climb
<1>. QED  BY <1>1, <1>2, <1>5, <1>6, <1>7, <1>8 DEF PInv

\* What creating a child makes of the nodes when it takes the page.
LEMMA ChildTakesPage ==
    ASSUME Shape, at \in DOMAIN nodes, page \in Nat,
           nodes' = AppendPage(nextID, page, WithChild(nextID))
    PROVE  ChildBelow(<<page>>)
<1>1. /\ nextID \in Nat \ {0} /\ nextID \notin DOMAIN nodes /\ at # nextID
      /\ at \in Nat /\ nodes[at] \in NodeRecord
  BY DEF Shape, NodeShape
<1>2. PICK list \in Seq(Nat) : list = <<page>> /\ list = Append(<<>>, page)
  BY ShortLists
<1>3. PICK none \in Seq(Nat) : none = <<>>
  BY ShortLists
<1>4. PICK leaf : leaf = [parent |-> at, isLeafParent |-> TRUE, kids |-> none]
  OBVIOUS
<1>5. PICK child : child = [leaf EXCEPT !.kids = Append(@, page), !.isLeafParent = TRUE]
  OBVIOUS
<1>6. leaf \in NodeRecord /\ leaf.parent = at /\ leaf.kids = none
  BY <1>1, <1>4 DEF NodeRecord
<1>7. Append(leaf.kids, page) = list
  BY <1>2, <1>3, <1>6
<1>8. /\ child \in NodeRecord /\ child.parent = at /\ child.isLeafParent = TRUE
      /\ child.kids = list
  BY <1>5, <1>6, <1>7 DEF NodeRecord
<1>9. PICK kids : kids = Append(nodes[at].kids, nextID)
  OBVIOUS
<1>10. kids \in Seq(Nat)
  <2>1. nextID \in Nat /\ nodes[at].kids \in Seq(Nat)
    BY <1>1 DEF NodeRecord
  <2>. QED  BY <1>9, <2>1, AppendProperties
<1>11. PICK node : node = [nodes[at] EXCEPT !.isLeafParent = FALSE,
                                            !.kids = Append(@, nextID)]
  OBVIOUS
<1>12. /\ node \in NodeRecord /\ node.parent = nodes[at].parent /\ node.isLeafParent = FALSE
       /\ node.kids = kids
  BY <1>1, <1>9, <1>10, <1>11 DEF NodeRecord
<1>13. PICK with : with = WithChild(nextID)
  OBVIOUS
<1>14. /\ DOMAIN with = DOMAIN nodes \cup {nextID}
       /\ with[nextID] = leaf
       /\ with[at] = node
       /\ \A n \in DOMAIN nodes \ {at} : with[n] = nodes[n]
  BY <1>1, <1>3, <1>4, <1>11, <1>13 DEF WithChild, NewNode
<1>15. /\ DOMAIN nodes' = DOMAIN with
       /\ nodes'[nextID] = [with[nextID] EXCEPT !.kids = Append(@, page),
                                               !.isLeafParent = TRUE]
       /\ \A n \in DOMAIN with \ {nextID} : nodes'[n] = with[n]
  BY <1>13, <1>14 DEF AppendPage
<1>16. nodes'[nextID] = child
  BY <1>5, <1>14, <1>15
<1>. QED  BY <1>1, <1>2, <1>8, <1>9, <1>12, <1>14, <1>15, <1>16 DEF ChildBelow

LEMMA CreateBrotherAndAddPageStep ==
    ASSUME PInv, CreateBrotherAndAddPage
    PROVE  PInv'
<1>1. /\ Shape /\ Links /\ PagesNameTheirParent /\ restarts \in Nat
      /\ at \in DOMAIN nodes /\ current # NoNode
      /\ at \in Inner \/ nodes[at].kids = <<>>
      /\ page \in 1 .. nextID - 1 /\ nextID \in Nat \ {0}
  BY DEF CreateBrotherAndAddPage, CanCreateChild, PInv, Climb, Growing, Shape
<1>2. /\ nextID' = nextID + 1 /\ at # current
      /\ nodes' = AppendPage(nextID, page, WithChild(nextID))
      /\ PageAdded(nextID, page) /\ restarts' = restarts
  BY DEF CreateBrotherAndAddPage, CanCreateChild
<1>3. page \in Nat /\ nextID \in Nat /\ nextID # NoNode
  BY <1>1 DEF NoNode
<1>4. /\ <<page>> \in Seq(Nat) /\ IsInjective(<<page>>) /\ page \in ToSet(<<page>>)
      /\ Len(<<page>>) = 1 /\ <<page>>[1] = page
  BY <1>3, ShortLists
<1>5. \A k \in 1 .. Len(<<page>>) : <<page>>[k] \in 1 .. nextID - 1
  <2>1. \A k \in 1 .. 1 : k = 1
    OBVIOUS
  <2>. QED  BY <1>1, <1>4, <2>1
<1>6. ChildBelow(<<page>>)
  BY <1>1, <1>2, <1>3, ChildTakesPage
<1>7. /\ nextID' \in Nat \ {0} /\ \A n \in DOMAIN nodes' : NodeShape(n)'
      /\ Inner' = Inner \cup {at}
      /\ Links'
      /\ \A k \in 1 .. Len(pages) :
            /\ pages[k].parent \in DOMAIN nodes' \ Inner'
            /\ pages[k].id \in ToSet(nodes'[pages[k].parent].kids)
  BY <1>1, <1>2, <1>4, <1>5, <1>6, ChildBelowStep
<1>8. nextID \in DOMAIN nodes' \ Inner' /\ page \in ToSet(nodes'[nextID].kids)
  BY <1>4, <1>6 DEF ChildBelow, Inner
<1>9. Shape' /\ Climb' /\ PagesNameTheirParent'
  BY <1>1, <1>2, <1>3, <1>7, <1>8, PageAddedStep
<1>. QED  BY <1>1, <1>2, <1>7, <1>9 DEF PInv

\* A parent above a node that had none.
LEMMA ClimbToNewParentStep ==
    ASSUME PInv, ClimbToNewParent
    PROVE  PInv'
<1>1. /\ Shape /\ Links /\ PagesNameTheirParent /\ restarts \in Nat
      /\ at \in DOMAIN nodes /\ current # NoNode
      /\ page \in 1 .. nextID - 1 /\ nextID \in Nat \ {0} /\ pc = "climb"
  BY DEF ClimbToNewParent, Climbing, PInv, Climb, Growing, Shape
<1>2. /\ nextID' = nextID + 1 /\ at' = nextID /\ nodes[at].parent = NoNode
      /\ UNCHANGED <<current, pages, restarts, page, pc>>
  BY DEF ClimbToNewParent, GetParent
<1>3. /\ nextID' \in Nat \ {0} /\ nextID <= nextID' /\ nextID \in 1 .. nextID' - 1
      /\ \A i \in 1 .. nextID - 1 : i \in 1 .. nextID' - 1
  <2>1. nextID \in Nat \ {0} /\ nextID' = nextID + 1
    BY <1>1, <1>2
  <2>2. nextID' \in Nat \ {0} /\ nextID <= nextID' /\ nextID \in 1 .. nextID' - 1
    BY <2>1
  <2>. QED  BY <2>1, <2>2, MoreIDs
<1>4. /\ nextID \notin DOMAIN nodes /\ at # nextID /\ at \in Nat /\ at # NoNode
      /\ at \in 1 .. nextID - 1 /\ nodes[at] \in NodeRecord
  BY <1>1 DEF Shape, NodeShape, NoNode
<1>5. PICK list \in Seq(Nat) : list = <<at>>
  BY <1>4, ShortLists
<1>6. Len(list) = 1 /\ list[1] = at /\ IsInjective(list) /\ at \in ToSet(list)
  <2>1. /\ Len(<<at>>) = 1 /\ <<at>>[1] = at /\ IsInjective(<<at>>) /\ at \in ToSet(<<at>>)
    BY <1>4, ShortLists
  <2>. QED  BY <1>5, <2>1
<1>7. PICK parent : parent = [NewNode(NoNode) EXCEPT !.isLeafParent = FALSE, !.kids = <<at>>]
  OBVIOUS
<1>8. /\ parent \in NodeRecord /\ parent.parent = NoNode /\ parent.isLeafParent = FALSE
      /\ parent.kids = list
  BY <1>5, <1>7 DEF NewNode, NodeRecord, NoNode
<1>9. PICK node : node = [nodes[at] EXCEPT !.parent = nextID]
  OBVIOUS
<1>10. /\ node \in NodeRecord /\ node.parent = nextID
       /\ node.isLeafParent = nodes[at].isLeafParent /\ node.kids = nodes[at].kids
  BY <1>1, <1>4, <1>9 DEF NodeRecord
<1>11. /\ DOMAIN nodes' = DOMAIN nodes \cup {nextID}
       /\ nodes'[nextID] = parent /\ nodes'[at] = node
       /\ \A n \in DOMAIN nodes \ {at} : nodes'[n] = nodes[n]
  BY <1>1, <1>4, <1>7, <1>9 DEF ClimbToNewParent
<1>12. \A n \in DOMAIN nodes : /\ nodes'[n].kids = nodes[n].kids
                               /\ nodes'[n].isLeafParent = nodes[n].isLeafParent
                               /\ nodes'[n] \in NodeRecord
  <2>1. \A n \in DOMAIN nodes \ {at} : nodes'[n] = nodes[n] /\ nodes[n] \in NodeRecord
    BY <1>1, <1>11 DEF Shape, NodeShape
  <2>. QED  BY <1>10, <1>11, <2>1
<1>13. ASSUME NEW n \in DOMAIN nodes'
       PROVE  NodeShape(n)'
  <2>1. CASE n = nextID
    <3>1. \A k \in 1 .. 1 : k = 1
      OBVIOUS
    <3>2. \A k \in 1 .. Len(list) : list[k] \in 1 .. nextID' - 1
      BY <1>3, <1>4, <1>6, <3>1
    <3>. QED  BY <1>3, <1>8, <1>11, <2>1, <3>2 DEF NodeShape
  <2>2. CASE n \in DOMAIN nodes
    BY <1>1, <1>3, <1>12, <2>2 DEF NodeShape, Shape
  <2>. QED  BY <1>11, <2>1, <2>2
<1>14. Inner' = Inner \cup {nextID}
  BY <1>4, <1>8, <1>11, <1>12 DEF Inner
<1>15. \A n \in DOMAIN nodes \ {at} : nodes'[n].parent = nodes[n].parent
  BY <1>11
<1>16. ASSUME NEW n \in Inner'
       PROVE  KidsKnowParent(n)'
  <2>1. CASE n = nextID
    <3>1. \A k \in 1 .. 1 : k = 1
      OBVIOUS
    <3>2. at \in DOMAIN nodes' /\ nodes'[at].parent = nextID
      BY <1>1, <1>10, <1>11
    <3>3. nodes'[nextID].kids = list
      BY <1>8, <1>11
    <3>. QED  BY <1>6, <2>1, <3>1, <3>2, <3>3 DEF KidsKnowParent
  <2>2. CASE n \in Inner
    <3>1. n \in DOMAIN nodes /\ KidsKnowParent(n) /\ n # NoNode
      BY <1>1, <2>2 DEF Links, Inner, Shape, NodeShape, NoNode
    <3>2. \A k \in 1 .. Len(nodes[n].kids) : nodes[n].kids[k] # at
      BY <1>2, <3>1 DEF KidsKnowParent
    <3>. QED  BY <1>11, <1>12, <1>15, <3>1, <3>2 DEF KidsKnowParent
  <2>. QED  BY <1>14, <2>1, <2>2
<1>17. \A n \in DOMAIN nodes' : IsInjective(nodes'[n].kids)
  <2>1. \A n \in DOMAIN nodes : IsInjective(nodes'[n].kids)
    BY <1>1, <1>12 DEF Links
  <2>2. IsInjective(nodes'[nextID].kids)
    BY <1>6, <1>8, <1>11
  <2>. QED  BY <1>11, <2>1, <2>2
<1>18. ASSUME NEW n \in DOMAIN nodes'
       PROVE  ParentListsKid(n)'
  <2>1. CASE n = nextID
    BY <1>8, <1>11, <2>1 DEF ParentListsKid
  <2>2. CASE n = at
    <3>1. /\ nodes'[at].parent = nextID /\ nextID \in Inner'
          /\ at \in ToSet(nodes'[nextID].kids)
      BY <1>6, <1>8, <1>10, <1>11, <1>14
    <3>. QED  BY <2>2, <3>1 DEF ParentListsKid
  <2>3. CASE n \in DOMAIN nodes \ {at}
    <3>1. nodes'[n].parent = nodes[n].parent /\ ParentListsKid(n)
      BY <1>1, <1>15, <2>3 DEF Links
    <3>2. \A m \in Inner : m \in Inner' /\ nodes'[m].kids = nodes[m].kids
      BY <1>12, <1>14 DEF Inner
    <3>. QED  BY <3>1, <3>2 DEF ParentListsKid
  <2>. QED  BY <1>11, <2>1, <2>2, <2>3
<1>19. Links'
  BY <1>16, <1>17, <1>18 DEF Links
<1>20. PagesNameTheirParent'
  <2>1. \A n \in DOMAIN nodes \ Inner : /\ n \in DOMAIN nodes' \ Inner'
                                       /\ nodes'[n].kids = nodes[n].kids
    BY <1>4, <1>11, <1>12, <1>14
  <2>. QED  BY <1>1, <1>2, <2>1 DEF PagesNameTheirParent
<1>21. Shape'
  BY <1>1, <1>2, <1>3, <1>4, <1>11, <1>13, <1>14 DEF Shape
<1>22. Climb'
  <2>1. at' \in Inner' /\ at' \in DOMAIN nodes' /\ current' # NoNode
    BY <1>1, <1>2, <1>11, <1>14
  <2>2. page' \in 1 .. nextID' - 1
    BY <1>1, <1>2, <1>3
  <2>. QED  BY <2>1, <2>2 DEF Climb
<1>. QED  BY <1>1, <1>2, <1>19, <1>20, <1>21, <1>22 DEF PInv

\* Writing gives the root a parent for its time, and takes it back.
LEMMA StartWritingCombinedStep ==
    ASSUME PInv, StartWritingCombined
    PROVE  PInv'
<1>1. /\ Shape /\ PagesNameTheirParent /\ restarts \in Nat /\ nextID \in Nat \ {0}
      /\ \A n \in DOMAIN nodes : nodes[n] \in NodeRecord
  BY DEF PInv, Shape, NodeShape
<1>2. /\ nextID' = nextID + 1 /\ nodes' = [nodes EXCEPT ![Root].parent = nextID]
      /\ UNCHANGED <<current, pages>> /\ restarts' = restarts /\ pc' = "write"
  BY DEF StartWritingCombined
<1>3. SameKids
  BY <1>1, <1>2 DEF SameKids, NodeRecord
<1>4. nextID' \in Nat /\ nextID' >= nextID
  <2>1. nextID \in Nat /\ nextID' = nextID + 1
    BY <1>1, <1>2
  <2>. QED  BY <2>1
<1>5. Shape' /\ PagesNameTheirParent'
  BY <1>1, <1>2, <1>3, <1>4, SameKidsStep
<1>6. Climb' /\ ~Growing'
  BY <1>2 DEF Climb, Growing
<1>. QED  BY <1>1, <1>2, <1>5, <1>6 DEF PInv

LEMMA FinishCombinedStep ==
    ASSUME PInv, FinishCombined
    PROVE  PInv'
<1>1. /\ Shape /\ PagesNameTheirParent /\ restarts \in Nat /\ nextID \in Nat \ {0}
      /\ \A n \in DOMAIN nodes : nodes[n] \in NodeRecord
  BY DEF PInv, Shape, NodeShape
<1>2. /\ nextID' = nextID /\ nodes' = [nodes EXCEPT ![NewPagesRoot].parent = NoNode]
      /\ UNCHANGED <<current, pages>> /\ restarts' = restarts /\ pc' = "written"
  BY DEF FinishCombined
<1>3. SameKids
  BY <1>1, <1>2 DEF SameKids, NodeRecord, NoNode
<1>4. nextID' \in Nat /\ nextID' >= nextID
  <2>1. nextID \in Nat /\ nextID' = nextID
    BY <1>1, <1>2
  <2>. QED  BY <2>1
<1>5. Shape' /\ PagesNameTheirParent'
  BY <1>1, <1>2, <1>3, <1>4, SameKidsStep
<1>6. Climb' /\ ~Growing'
  BY <1>2 DEF Climb, Growing
<1>. QED  BY <1>1, <1>2, <1>5, <1>6 DEF PInv

\* The rest of the writing reads the tree.
LEMMA WritingStep ==
    ASSUME PInv, UNCHANGED <<tree, pages, restarts>>, pc' \in {"write", "combine", "written"}
    PROVE  PInv'
<1>1. /\ UNCHANGED <<nodes, current, pages>> /\ restarts' \in Nat
      /\ nextID' = nextID /\ nextID \in Nat
  BY DEF tree, PInv, Shape
<1>2. nextID' \in Nat /\ nextID' >= nextID
  <2>1. nextID \in Nat /\ nextID' = nextID
    BY <1>1
  <2>. QED  BY <2>1
<1>3. Climb' /\ ~Growing'
  BY DEF Climb, Growing
<1>. QED  BY <1>1, <1>2, <1>3, NodesUnchangedStep

\* A step that changes nothing, or a restart that gives back the tree.
LEMMA TreeKeptStep ==
    ASSUME PInv, UNCHANGED <<tree, pages, pc, at, page>>, restarts' \in Nat
    PROVE  PInv'
<1>1. /\ UNCHANGED <<nodes, current, pages, pc, at, page>> /\ nextID' = nextID
      /\ nextID \in Nat /\ Climb
  BY DEF tree, PInv, Shape
<1>2. nextID' \in Nat /\ nextID' >= nextID
  <2>1. nextID \in Nat /\ nextID' = nextID
    BY <1>1
  <2>. QED  BY <2>1
<1>3. Climb' /\ (Growing' => Growing)
  BY <1>1 DEF Climb, Growing, Inner
<1>4. UNCHANGED <<nodes, current, pages>>
  BY <1>1
<1>. QED  BY <1>2, <1>3, <1>4, NodesUnchangedStep

LEMMA InitPInv == Init => PInv
<1>. SUFFICES ASSUME Init PROVE PInv
  OBVIOUS
<1>1. /\ originalCount \in Nat /\ nextID = originalCount + 2
      /\ nodes = <<>> /\ current = NoNode /\ pc = "idle" /\ pages = <<>> /\ restarts = 0
  BY PageTreeAssumption DEF Init
<1>2. nextID \in Nat \ {0}
  <2>1. originalCount \in Nat /\ nextID = originalCount + 2
    BY <1>1
  <2>. QED  BY <2>1
<1>3. DOMAIN nodes = {} /\ Inner = {}
  BY <1>1 DEF Inner
<1>4. pages \in Seq([id : Nat, parent : Nat]) /\ Len(pages) = 0
  BY <1>1
<1>5. \A k \in 1 .. 0 : FALSE
  OBVIOUS
<1>6. Shape /\ Climb
  BY <1>1, <1>2, <1>3, <1>4 DEF Shape, Climb
<1>7. Links /\ PagesNameTheirParent
  BY <1>3, <1>4, <1>5 DEF Links, PagesNameTheirParent
<1>8. restarts \in Nat
  BY <1>1
<1>. QED  BY <1>6, <1>7, <1>8 DEF PInv

\* Every step keeps the tree well linked, a restart if it gives back the tree.
KeepsTree == restarts' # restarts => nodes' = nodes /\ current' = current

LEMMA StepPInv == PInv /\ [Next]_vars /\ [KeepsTree]_vars => PInv'
<1>. SUFFICES ASSUME PInv, [Next]_vars, [KeepsTree]_vars PROVE PInv'
  OBVIOUS
<1>1. CASE AddFirstPage
  BY <1>1, AddFirstPageStep
<1>2. CASE AddPageToCurrent
  BY <1>2, AddPageToCurrentStep
<1>3. CASE StartAddingPage
  BY <1>3, StartAddingPageStep
<1>4. CASE AddingPage
  BY <1>4, ClimbToParentStep, ClimbToNewParentStep, CreateBrotherStep,
     CreateBrotherAndAddPageStep DEF AddingPage
<1>5. CASE EndWithoutPages \/ StartWritingPagesTree
  <2>1. UNCHANGED <<tree, pages, restarts>> /\ pc' \in {"write", "combine", "written"}
    BY <1>5 DEF EndWithoutPages, StartWritingPagesTree
  <2>. QED  BY <2>1, WritingStep
<1>6. CASE StartWritingCombined
  BY <1>6, StartWritingCombinedStep
<1>7. CASE WritingTree
  <2>1. CASE WriteLeafParent \/ WriteInner
    <3>1. /\ UNCHANGED <<tree, pages, restarts>>
          /\ pc' \in {"write", "combine", "written"}
      BY <2>1 DEF WriteLeafParent, WriteInner, WriteNode
    <3>. QED  BY <3>1, WritingStep
  <2>2. CASE VisitKid
    <3>1. /\ UNCHANGED <<tree, pages, restarts>>
          /\ pc' \in {"write", "combine", "written"}
      BY <2>2 DEF VisitKid, InWritePageTree
    <3>. QED  BY <3>1, WritingStep
  <2>. QED  BY <1>7, <2>1, <2>2, FinishCombinedStep DEF WritingTree
<1>8. CASE ShutdownAndContinue
  <2>1. restarts \in Nat /\ restarts' = restarts + 1
    BY <1>8 DEF PInv, ShutdownAndContinue
  <2>2. restarts' \in Nat /\ restarts' # restarts
    BY <2>1
  <2>3. nodes' = nodes /\ current' = current
    BY <2>2 DEF KeepsTree, vars
  <2>4. UNCHANGED <<nextID, pages, pc, at, page>>
    BY <1>8 DEF ShutdownAndContinue
  <2>. QED  BY <2>2, <2>3, <2>4, TreeKeptStep DEF tree
<1>9. CASE Ended \/ UNCHANGED vars
  <2>1. UNCHANGED <<tree, pages, pc, at, page>> /\ restarts' \in Nat
    BY <1>9 DEF Ended, vars, PInv
  <2>. QED  BY <2>1, TreeKeptStep
<1>. QED  BY <1>1, <1>2, <1>3, <1>4, <1>5, <1>6, <1>7, <1>8, <1>9 DEF Next

-----------------------------------------------------------------------------
(***************************************************************************)
(* Levels.  h[n] is how far the pages' nodes are below n.                  *)
(***************************************************************************)

\* All the ways down from a node are of the same length; a new node is put where the
\* ways it is going to get will have that length, as many calls as are to return.
Descends(h) ==
    /\ \A n \in Inner : /\ Len(nodes[n].kids) # 0
                        /\ \A k \in 1 .. Len(nodes[n].kids) : h[nodes[n].kids[k]] + 1 = h[n]
    /\ \A n \in DOMAIN nodes \ Inner : h[n] = 0 \/ (pc = "climb" /\ n = at)
    /\ pc = "climb" => /\ returns \in Nat
                       /\ at = current => h[at] = 0 /\ returns = 0
                       /\ at # current => h[at] = returns + 1

\* A node more is at most a level more.
Bounded(h) ==
    /\ IsFiniteSet(DOMAIN nodes) /\ h \in [DOMAIN nodes -> Nat]
    /\ \A n \in DOMAIN nodes : h[n] < Cardinality(DOMAIN nodes)

OneRoot ==
    /\ \A m, n \in DOMAIN nodes : nodes[m].parent = NoNode /\ nodes[n].parent = NoNode => m = n
    /\ DOMAIN nodes # {} => \E n \in DOMAIN nodes : nodes[n].parent = NoNode

IsMap(f) == f = [n \in DOMAIN f |-> f[n]]

\* There is a tree when there is a page.
Begun ==
    /\ IsMap(nodes)
    /\ current = NoNode => DOMAIN nodes = {}
    /\ current # NoNode => pages # <<>>

Levels(h) == Bounded(h) /\ Descends(h) /\ OneRoot /\ Begun

TInv == PInv /\ (Growing => \E h : Levels(h))

\* A new node on some level below what a node more allows.
LEMMA NodeMore ==
    ASSUME NEW h, Bounded(h), nextID \notin DOMAIN nodes,
           DOMAIN nodes' = DOMAIN nodes \cup {nextID},
           NEW level \in Nat, level <= Cardinality(DOMAIN nodes),
           NEW g, g = [n \in DOMAIN nodes' |-> IF n = nextID THEN level ELSE h[n]]
    PROVE  Bounded(g)' /\ g[nextID] = level /\ \A n \in DOMAIN nodes : g[n] = h[n]
<1>1. PICK S, T : S = DOMAIN nodes /\ T = DOMAIN nodes'
  OBVIOUS
<1>2. IsFiniteSet(S) /\ h \in [S -> Nat] /\ T = S \cup {nextID} /\ nextID \notin S
  BY <1>1 DEF Bounded
<1>3. /\ IsFiniteSet(T) /\ Cardinality(S) \in Nat /\ Cardinality(T) = Cardinality(S) + 1
  BY <1>2, FS_AddElement, FS_CardinalityType
<1>4. g \in [T -> Nat] /\ g[nextID] = level /\ \A n \in S : g[n] = h[n]
  BY <1>1, <1>2
<1>5. \A n \in S : h[n] < Cardinality(S)
  BY <1>1 DEF Bounded
<1>6. ASSUME NEW n \in T
      PROVE  g[n] < Cardinality(T)
  <2>1. CASE n = nextID
    <3>1. level <= Cardinality(S)
      BY <1>1
    <3>. QED  BY <1>3, <1>4, <2>1, <3>1
  <2>2. CASE n \in S
    <3>1. h[n] \in Nat /\ g[n] = h[n] /\ h[n] < Cardinality(S)
      BY <1>2, <1>4, <1>5, <2>2
    <3>. QED  BY <1>3, <3>1
  <2>. QED  BY <1>2, <2>1, <2>2
<1>. QED  BY <1>1, <1>3, <1>4, <1>6 DEF Bounded

\* A call goes up from nodes that have kids, and the level it is to come back to stays
\* the same.
LEMMA ClimbingUp ==
    ASSUME PInv, NEW h, Levels(h), Climbing
    PROVE  /\ Links /\ pc = "climb" /\ at \in DOMAIN nodes /\ current \in DOMAIN nodes \ Inner
           /\ h[at] \in Nat /\ returns \in Nat
           /\ h[at] = IF at = current THEN returns ELSE returns + 1
           /\ ReturnsAfterClimb = h[at]
           /\ \A n \in DOMAIN nodes \ Inner : h[n] = 0
           /\ h[current] = 0
<1>1. /\ pc = "climb" /\ at \in DOMAIN nodes /\ current \in DOMAIN nodes \ Inner /\ Links
      /\ at = current \/ at \in Inner \/ nodes[at].kids = <<>>
  BY DEF Climbing, PInv, Climb, Growing, Shape
<1>2. at = current \/ at \in Inner
  <2>1. nodes[at].kids # <<>> \/ HasRoom(at)
    <3>1. 0 < PAGE_TREE_LEVEL_SIZE
      BY PageTreeAssumption
    <3>. QED  BY <3>1, ShortLists DEF HasRoom
  <2>. QED  BY <1>1, <2>1 DEF Climbing
<1>3. /\ returns \in Nat /\ h[at] \in Nat
      /\ at = current => h[at] = 0 /\ returns = 0
      /\ at # current => h[at] = returns + 1
      /\ \A n \in DOMAIN nodes \ Inner : h[n] = 0 \/ n = at
  BY <1>1 DEF Levels, Descends, Bounded
<1>4. \A n \in DOMAIN nodes \ Inner : h[n] = 0
  BY <1>1, <1>2, <1>3
<1>5. ReturnsAfterClimb = h[at]
  BY <1>3 DEF ReturnsAfterClimb
<1>. QED  BY <1>1, <1>3, <1>4, <1>5

LEMMA ClimbToParentLevels ==
    ASSUME PInv, NEW h, Levels(h), ClimbToParent
    PROVE  Levels(h)'
<1>1. /\ pc' = pc /\ nodes[at].parent # NoNode /\ at' = nodes[at].parent
      /\ returns' = ReturnsAfterClimb
      /\ UNCHANGED <<nodes, current, pages>>
  BY DEF ClimbToParent, GetParent, tree
<1>2. /\ Links /\ at \in DOMAIN nodes /\ current \in DOMAIN nodes \ Inner
      /\ h[at] \in Nat /\ returns' = h[at]
      /\ \A n \in DOMAIN nodes \ Inner : h[n] = 0
  BY <1>1, ClimbingUp DEF ClimbToParent
<1>3. at' \in Inner /\ at \in ToSet(nodes[at'].kids)
  BY <1>1, <1>2 DEF Links, ParentListsKid
<1>4. PICK k \in 1 .. Len(nodes[at'].kids) : nodes[at'].kids[k] = at
  <2>1. nodes[at'].kids \in Seq(Nat)
    BY <1>3 DEF PInv, Shape, NodeShape, NodeRecord, Inner
  <2>. QED  BY <1>3, <2>1, LenProperties DEF ToSet
<1>5. h[at] + 1 = h[at'] /\ at' # current
  BY <1>2, <1>3, <1>4 DEF Levels, Descends
<1>6. Inner' = Inner
  BY <1>1 DEF Inner
<1>7. Descends(h)'
  BY <1>1, <1>2, <1>5, <1>6 DEF Levels, Descends
<1>. QED  BY <1>1, <1>7 DEF Levels, Bounded, OneRoot, Begun

LEMMA ClimbToNewParentLevels ==
    ASSUME PInv, NEW h, Levels(h), ClimbToNewParent
    PROVE  \E g : Levels(g)'
<1>1. /\ pc' = pc /\ nodes[at].parent = NoNode /\ at' = nextID
      /\ returns' = ReturnsAfterClimb
      /\ UNCHANGED <<current, pages>>
  BY DEF ClimbToNewParent, GetParent
<1>2. /\ at \in DOMAIN nodes /\ current \in DOMAIN nodes \ Inner
      /\ h[at] \in Nat /\ returns' = h[at]
      /\ \A n \in DOMAIN nodes \ Inner : h[n] = 0
  BY ClimbingUp DEF ClimbToNewParent
<1>3. /\ nextID \in Nat \ {0} /\ nextID \notin DOMAIN nodes /\ at # nextID
      /\ nextID # NoNode /\ nodes[at] \in NodeRecord
  BY <1>2 DEF PInv, Shape, NodeShape, NoNode
<1>4. PICK parent, node :
         /\ parent = [NewNode(NoNode) EXCEPT !.isLeafParent = FALSE, !.kids = <<at>>]
         /\ node = [nodes[at] EXCEPT !.parent = nextID]
  OBVIOUS
<1>5. /\ parent.parent = NoNode /\ parent.isLeafParent = FALSE /\ parent.kids = <<at>>
      /\ node.parent = nextID /\ node.isLeafParent = nodes[at].isLeafParent
      /\ node.kids = nodes[at].kids
  BY <1>3, <1>4 DEF NewNode, NodeRecord
<1>6. /\ DOMAIN nodes' = DOMAIN nodes \cup {nextID}
      /\ nodes'[nextID] = parent /\ nodes'[at] = node
      /\ \A n \in DOMAIN nodes \ {at} : nodes'[n] = nodes[n]
      /\ IsMap(nodes')
  BY <1>2, <1>3, <1>4 DEF ClimbToNewParent, IsMap
<1>7. \A n \in DOMAIN nodes : /\ nodes'[n].kids = nodes[n].kids
                              /\ nodes'[n].isLeafParent = nodes[n].isLeafParent
  BY <1>5, <1>6
<1>8. Inner' = Inner \cup {nextID}
  BY <1>3, <1>5, <1>6, <1>7 DEF Inner
<1>9. PICK level \in Nat : level = h[at] + 1 /\ level <= Cardinality(DOMAIN nodes)
  <2>1. PICK a \in Nat, c \in Nat : a = h[at] /\ c = Cardinality(DOMAIN nodes) /\ a < c
    BY <1>2, FS_CardinalityType DEF Levels, Bounded
  <2>. QED  BY <2>1
<1>10. PICK g : g = [n \in DOMAIN nodes' |-> IF n = nextID THEN level ELSE h[n]]
  OBVIOUS
<1>11. Bounded(g)' /\ g[nextID] = level /\ \A n \in DOMAIN nodes : g[n] = h[n]
  BY <1>3, <1>6, <1>9, <1>10, NodeMore DEF Levels
<1>12. ASSUME NEW n \in Inner'
       PROVE  /\ Len(nodes'[n].kids) # 0
              /\ \A k \in 1 .. Len(nodes'[n].kids) : g[nodes'[n].kids[k]] + 1 = g[n]
  <2>1. CASE n = nextID
    <3>1. nodes'[n].kids = <<at>> /\ Len(<<at>>) = 1 /\ <<at>>[1] = at
      BY <1>5, <1>6, <2>1
    <3>2. \A k \in 1 .. 1 : k = 1
      OBVIOUS
    <3>3. g[at] + 1 = g[n]
      BY <1>2, <1>9, <1>11, <2>1
    <3>. QED  BY <3>1, <3>2, <3>3
  <2>2. CASE n \in Inner
    <3>1. n \in DOMAIN nodes /\ nodes'[n].kids = nodes[n].kids
      BY <1>7, <2>2 DEF Inner
    <3>2. \A k \in 1 .. Len(nodes[n].kids) : nodes[n].kids[k] \in DOMAIN nodes
      BY <2>2, ClimbingUp DEF Links, KidsKnowParent, ClimbToNewParent
    <3>3. /\ Len(nodes[n].kids) # 0
          /\ \A k \in 1 .. Len(nodes[n].kids) : h[nodes[n].kids[k]] + 1 = h[n]
      BY <2>2 DEF Levels, Descends
    <3>. QED  BY <1>11, <3>1, <3>2, <3>3
  <2>. QED  BY <1>8, <2>1, <2>2
<1>13. Descends(g)'
  <2>1. \A n \in DOMAIN nodes' \ Inner' : n \in DOMAIN nodes \ Inner
    BY <1>6, <1>8
  <2>2. \A n \in DOMAIN nodes' \ Inner' : g[n] = 0
    BY <1>2, <1>11, <2>1
  <2>3. returns' \in Nat /\ at' # current' /\ g[at'] = returns' + 1
    BY <1>1, <1>2, <1>3, <1>9, <1>11
  <2>. QED  BY <1>12, <2>2, <2>3 DEF Descends
<1>14. OneRoot'
  <2>1. ASSUME NEW n \in DOMAIN nodes', nodes'[n].parent = NoNode
        PROVE  n = nextID
    <3>1. n # at
      BY <1>3, <1>5, <1>6, <2>1
    <3>2. n \in DOMAIN nodes \ {at} => nodes[n].parent = NoNode
      BY <1>6, <2>1
    <3>3. n \notin DOMAIN nodes \ {at}
      BY <1>1, <1>2, <3>1, <3>2 DEF Levels, OneRoot
    <3>. QED  BY <1>6, <3>1, <3>3
  <2>. QED  BY <1>5, <1>6, <2>1 DEF OneRoot
<1>15. Begun'
  BY <1>1, <1>2, <1>6 DEF Levels, Begun
<1>. QED  BY <1>11, <1>13, <1>14, <1>15 DEF Levels

\* A call goes down: the child is one level below, and has no kids but a page.
LEMMA ChildLevels ==
    ASSUME PInv, NEW h, Levels(h), CanCreateChild, NEW list, ChildBelow(list),
           IsMap(nodes'), current' # NoNode, pages' # <<>>,
           \/ pc' = "climb" /\ at' = nextID /\ returns > 0 /\ returns' = returns - 1
              /\ current' = current
           \/ pc' = "idle" /\ returns = 0
    PROVE  \E g : Levels(g)'
<1>1. /\ pc = "climb" /\ at \in DOMAIN nodes /\ at # current /\ Links
      /\ current \in DOMAIN nodes \ Inner
      /\ at \in Inner \/ nodes[at].kids = <<>>
      /\ nextID \in Nat \ {0} /\ nextID \notin DOMAIN nodes /\ at # nextID /\ at # NoNode
      /\ nodes[at].kids \in Seq(Nat)
  BY DEF CanCreateChild, PInv, Climb, Growing, Shape, NodeShape, NodeRecord, NoNode
<1>2. /\ returns \in Nat /\ h[at] = returns + 1
      /\ \A n \in DOMAIN nodes \ Inner : h[n] = 0 \/ n = at
  BY <1>1 DEF Levels, Descends
<1>3. returns <= Cardinality(DOMAIN nodes)
  <2>1. PICK a \in Nat, c \in Nat : a = h[at] /\ c = Cardinality(DOMAIN nodes) /\ a < c
    BY <1>1, FS_CardinalityType DEF Levels, Bounded
  <2>. QED  BY <1>2, <2>1
<1>4. PICK g : g = [n \in DOMAIN nodes' |-> IF n = nextID THEN returns ELSE h[n]]
  OBVIOUS
<1>5. Bounded(g)' /\ g[nextID] = returns /\ \A n \in DOMAIN nodes : g[n] = h[n]
  <2>1. PICK level \in Nat : level = returns
    BY <1>2
  <2>2. Bounded(h)
    BY DEF Levels
  <2>3. DOMAIN nodes' = DOMAIN nodes \cup {nextID} /\ nextID \notin DOMAIN nodes
    BY <1>1 DEF ChildBelow
  <2>4. level <= Cardinality(DOMAIN nodes)
    BY <1>3, <2>1
  <2>5. g = [n \in DOMAIN nodes' |-> IF n = nextID THEN level ELSE h[n]]
    BY <1>4, <2>1
  <2>6. Bounded(g)' /\ g[nextID] = level /\ \A n \in DOMAIN nodes : g[n] = h[n]
    BY <2>2, <2>3, <2>4, <2>5, NodeMore
  <2>. QED  BY <2>1, <2>6
<1>6. Inner' = Inner \cup {at}
  BY <1>1 DEF ChildBelow, Inner
<1>7. PICK kids : kids = nodes'[at].kids
  OBVIOUS
<1>8. /\ Len(kids) = Len(nodes[at].kids) + 1 /\ Len(nodes[at].kids) \in Nat
      /\ \A k \in 1 .. Len(kids) : \/ k \in 1 .. Len(nodes[at].kids) /\ kids[k] = nodes[at].kids[k]
                                   \/ kids[k] = nextID
  <2>1. PICK s \in Seq(Nat), new \in Nat : s = nodes[at].kids /\ new = nextID
    BY <1>1
  <2>2. kids = Append(s, new)
    BY <1>7, <2>1 DEF ChildBelow
  <2>3. /\ Len(kids) = Len(s) + 1 /\ kids[Len(s) + 1] = new
        /\ \A k \in 1 .. Len(s) : kids[k] = s[k]
    BY <2>2, AppendProperties
  <2>4. Len(s) \in Nat
    BY LenProperties
  <2>5. \A k \in 1 .. Len(kids) : k \in 1 .. Len(s) \/ k = Len(s) + 1
    BY <2>3, <2>4
  <2>. QED  BY <2>1, <2>3, <2>4, <2>5
<1>9. \A n \in Inner : \A k \in 1 .. Len(nodes[n].kids) :
         /\ nodes[n].kids[k] \in DOMAIN nodes
         /\ g[nodes[n].kids[k]] + 1 = h[n]
  BY <1>1, <1>5 DEF Levels, Descends, Links, KidsKnowParent
<1>10. ASSUME NEW n \in Inner'
       PROVE  /\ Len(nodes'[n].kids) # 0
              /\ \A k \in 1 .. Len(nodes'[n].kids) : g[nodes'[n].kids[k]] + 1 = g[n]
  <2>1. CASE n = at
    <3>1. Len(kids) # 0
      BY <1>8
    <3>2. ASSUME NEW k \in 1 .. Len(kids)
          PROVE  g[kids[k]] + 1 = g[at]
      <4>1. CASE kids[k] = nextID
        BY <1>1, <1>2, <1>5, <4>1
      <4>2. CASE k \in 1 .. Len(nodes[at].kids) /\ kids[k] = nodes[at].kids[k]
        <5>1. at \in Inner
          BY <1>1, <4>2, ShortLists
        <5>. QED  BY <1>1, <1>5, <1>9, <4>2, <5>1
      <4>. QED  BY <1>8, <4>1, <4>2
    <3>. QED  BY <1>7, <2>1, <3>1, <3>2
  <2>2. CASE n \in Inner \ {at}
    <3>1. n \in DOMAIN nodes /\ nodes'[n] = nodes[n]
      BY <2>2 DEF Inner, ChildBelow
    <3>2. Len(nodes[n].kids) # 0
      BY <2>2 DEF Levels, Descends
    <3>. QED  BY <1>5, <1>9, <2>2, <3>1, <3>2
  <2>. QED  BY <1>6, <2>1, <2>2
<1>11. \A n \in DOMAIN nodes' \ Inner' : g[n] = 0 \/ n = nextID
  <2>1. \A n \in DOMAIN nodes' \ Inner' : n = nextID \/ n \in DOMAIN nodes \ (Inner \cup {at})
    BY <1>6 DEF ChildBelow
  <2>. QED  BY <1>2, <1>5, <2>1
<1>12. Descends(g)'
  <2>1. CASE pc' = "climb"
    <3>1. at' = nextID /\ returns > 0 /\ returns' = returns - 1 /\ current' = current
      BY <2>1
    <3>2. returns' \in Nat /\ g[at'] = returns' + 1 /\ at' # current'
      BY <1>1, <1>2, <1>5, <3>1
    <3>. QED  BY <1>10, <1>11, <2>1, <3>1, <3>2 DEF Descends
  <2>2. CASE pc' # "climb"
    <3>1. g[nextID] = 0
      BY <1>5, <2>2
    <3>. QED  BY <1>10, <1>11, <2>2, <3>1 DEF Descends
  <2>. QED  BY <2>1, <2>2
<1>13. OneRoot'
  <2>1. \A n \in DOMAIN nodes : nodes'[n].parent = nodes[n].parent
    BY <1>1 DEF ChildBelow
  <2>2. nodes'[nextID].parent # NoNode
    BY <1>1 DEF ChildBelow
  <2>3. DOMAIN nodes' = DOMAIN nodes \cup {nextID}
    BY DEF ChildBelow
  <2>. QED  BY <1>1, <2>1, <2>2, <2>3 DEF Levels, OneRoot
<1>14. Begun'
  BY DEF Begun
<1>. QED  BY <1>5, <1>12, <1>13, <1>14 DEF Levels

LEMMA CreateBrotherLevels ==
    ASSUME PInv, NEW h, Levels(h), CreateBrother
    PROVE  \E g : Levels(g)'
<1>1. /\ CanCreateChild /\ nodes' = WithChild(nextID)
      /\ returns > 0 /\ returns' = returns - 1 /\ at' = nextID
      /\ UNCHANGED <<current, pages, pc>>
  BY DEF CreateBrother
<1>2. pc = "climb" /\ at \in DOMAIN nodes /\ current # NoNode /\ pages # <<>> /\ Shape
  BY <1>1 DEF CanCreateChild, PInv, Climb, Levels, Begun
<1>3. ChildBelow(<<>>)
  BY <1>1, <1>2, WithChildIs
<1>4. IsMap(nodes')
  BY <1>1 DEF WithChild, IsMap
<1>. QED  BY <1>1, <1>2, <1>3, <1>4, ChildLevels

LEMMA CreateBrotherAndAddPageLevels ==
    ASSUME PInv, NEW h, Levels(h), CreateBrotherAndAddPage
    PROVE  \E g : Levels(g)'
<1>1. /\ CanCreateChild /\ nodes' = AppendPage(nextID, page, WithChild(nextID))
      /\ returns = 0 /\ PageAdded(nextID, page)
  BY DEF CreateBrotherAndAddPage
<1>2. /\ at \in DOMAIN nodes /\ Shape /\ page \in Nat /\ nextID \in Nat \ {0}
  <2>1. page \in 1 .. nextID - 1 /\ nextID \in Nat \ {0}
    BY <1>1 DEF CanCreateChild, PInv, Climb, Shape
  <2>. QED  BY <1>1, <2>1 DEF CanCreateChild, PInv, Climb
<1>3. ChildBelow(<<page>>)
  BY <1>1, <1>2, ChildTakesPage
<1>4. IsMap(nodes')
  <2>1. PICK with : with = WithChild(nextID)
    OBVIOUS
  <2>2. IsMap(with)
    BY <2>1 DEF WithChild, IsMap
  <2>. QED  BY <1>1, <2>1, <2>2 DEF AppendPage, IsMap
<1>5. pc' = "idle" /\ current' = nextID /\ current' # NoNode
  BY <1>1, <1>2 DEF PageAdded, NoNode
<1>6. pages' # <<>>
  <2>1. pages \in Seq([id : Nat, parent : Nat])
    BY <1>2 DEF Shape
  <2>. QED  BY <1>1, <2>1, AppendProperties DEF PageAdded
<1>. QED  BY <1>1, <1>3, <1>4, <1>5, <1>6, ChildLevels

LEMMA AddFirstPageLevels ==
    ASSUME PInv, NEW h, Levels(h), AddFirstPage
    PROVE  \E g : Levels(g)'
<1>1. /\ pc' = "idle" /\ current' = nextID + 1
      /\ pages' = Append(pages, [id |-> nextID, parent |-> nextID + 1])
      /\ nodes' = AppendPage(nextID + 1, nextID, [m \in {nextID + 1} |-> NewNode(NoNode)])
      /\ Shape
  BY DEF AddFirstPage, PageAdded, PInv
<1>2. PICK n \in Nat : n = nextID + 1 /\ n # NoNode
  BY <1>1 DEF Shape, NoNode
<1>3. /\ DOMAIN nodes' = {n} /\ IsMap(nodes')
      /\ nodes'[n].parent = NoNode /\ nodes'[n].isLeafParent = TRUE
  BY <1>1, <1>2 DEF AppendPage, NewNode, IsMap
<1>4. pages' # <<>>
  <2>1. pages \in Seq([id : Nat, parent : Nat])
    BY <1>1 DEF Shape
  <2>. QED  BY <1>1, <2>1, AppendProperties
<1>5. PICK g : g = [m \in {n} |-> 0]
  OBVIOUS
<1>6. Inner' = {}
  BY <1>3 DEF Inner
<1>7. Bounded(g)'
  <2>1. IsFiniteSet({n}) /\ Cardinality({n}) = 1
    BY FS_Singleton
  <2>2. g \in [{n} -> Nat] /\ g[n] < 1
    BY <1>5
  <2>. QED  BY <1>3, <2>1, <2>2 DEF Bounded
<1>8. Descends(g)'
  BY <1>1, <1>3, <1>5, <1>6 DEF Descends
<1>9. OneRoot'
  BY <1>3 DEF OneRoot
<1>10. Begun'
  BY <1>1, <1>2, <1>3, <1>4 DEF Begun
<1>. QED  BY <1>7, <1>8, <1>9, <1>10 DEF Levels

LEMMA AddPageToCurrentLevels ==
    ASSUME PInv, NEW h, Levels(h), AddPageToCurrent
    PROVE  Levels(h)'
<1>1. /\ pc = "idle" /\ pc' = "idle" /\ current \in DOMAIN nodes \ Inner /\ current # NoNode
      /\ current' = current
      /\ pages' = Append(pages, [id |-> nextID, parent |-> current])
      /\ nodes' = AppendPage(current, nextID, nodes)
      /\ Shape
  BY DEF AddPageToCurrent, PageAdded, PInv, Shape
<1>2. nodes[current] \in NodeRecord /\ nodes[current].isLeafParent = TRUE
  BY <1>1 DEF Shape, NodeShape, Inner, NodeRecord
<1>3. /\ DOMAIN nodes' = DOMAIN nodes /\ IsMap(nodes')
      /\ nodes'[current].parent = nodes[current].parent /\ nodes'[current].isLeafParent = TRUE
      /\ \A n \in DOMAIN nodes \ {current} : nodes'[n] = nodes[n]
  BY <1>1, <1>2 DEF AppendPage, NodeRecord, Levels, Begun, IsMap
<1>4. pages' # <<>>
  <2>1. pages \in Seq([id : Nat, parent : Nat])
    BY <1>1 DEF Shape
  <2>. QED  BY <1>1, <2>1, AppendProperties
<1>5. Inner' = Inner /\ \A n \in Inner : nodes'[n] = nodes[n]
  BY <1>1, <1>2, <1>3 DEF Inner
<1>6. Bounded(h)'
  BY <1>3 DEF Levels, Bounded
<1>7. Descends(h)'
  BY <1>1, <1>3, <1>5 DEF Levels, Descends
<1>8. OneRoot'
  <2>1. \A n \in DOMAIN nodes : nodes'[n].parent = nodes[n].parent
    BY <1>3
  <2>. QED  BY <1>3, <2>1 DEF Levels, OneRoot
<1>9. Begun'
  BY <1>1, <1>3, <1>4 DEF Begun
<1>. QED  BY <1>6, <1>7, <1>8, <1>9 DEF Levels

\* A page is to be added, or nothing happens to the tree.
LEMMA SameTreeLevels ==
    ASSUME PInv, NEW h, Levels(h), UNCHANGED <<nodes, current, pages>>,
           \/ pc = "idle" /\ pc' = "climb" /\ at' = current /\ returns' = 0 /\ current # NoNode
           \/ UNCHANGED <<pc, at, returns>>
    PROVE  Levels(h)'
<1>1. Inner' = Inner
  BY DEF Inner
<1>2. Descends(h)'
  <2>1. CASE UNCHANGED <<pc, at, returns>>
    BY <1>1, <2>1 DEF Levels, Descends
  <2>2. CASE pc = "idle" /\ pc' = "climb" /\ at' = current /\ returns' = 0 /\ current # NoNode
    <3>1. current \in DOMAIN nodes \ Inner
      BY <2>2 DEF PInv, Shape
    <3>2. \A n \in DOMAIN nodes \ Inner : h[n] = 0
      BY <2>2 DEF Levels, Descends
    <3>. QED  BY <1>1, <2>2, <3>1, <3>2 DEF Levels, Descends
  <2>. QED  BY <2>1, <2>2
<1>. QED  BY <1>2 DEF Levels, Bounded, OneRoot, Begun

-----------------------------------------------------------------------------
(***************************************************************************)
(* What is above a node: one node on every level up to the root.           *)
(***************************************************************************)

\* Induction over the numbers up to n.
LEMMA PrefixInduction ==
    ASSUME NEW n \in Nat, NEW S, 0 \in S, \A k \in 1 .. n : k - 1 \in S => k \in S
    PROVE  \A k \in 0 .. n : k \in S
<1>1. DEFINE T == {k \in 0 .. n : k \notin S}
<1>2. SUFFICES ASSUME T # {}
               PROVE  FALSE
  OBVIOUS
<1>3. DEFINE R == {ss \in Nat \X Nat : ss[1] < ss[2]}
<1>4. IsWellFoundedOn(R, Nat)
  BY NatLessThanWellFounded DEF OpToRel
<1>5. PICK x \in T : \A y \in T : ~(y < x)
  <2>1. T \subseteq Nat
    OBVIOUS
  <2>. HIDE DEF T, R
  <2>2. PICK x \in T : \A y \in T : <<y, x>> \notin R
    BY <1>2, <1>4, <2>1, WFMin
  <2>. QED  BY <2>1, <2>2 DEF R
<1>6. x \in 1 .. n /\ x - 1 \in 0 .. n
  OBVIOUS
<1>7. x - 1 \notin T
  BY <1>5, <1>6
<1>. QED  BY <1>6, <1>7

Above(S) == S \cup {nodes[m].parent : m \in S \cap DOMAIN nodes}

\* up[k] is what k steps up from n reach.
IsUp(up, n, c) == up = [k \in 0 .. c |-> IF k = 0 THEN {n} ELSE Above(up[k - 1])]

LEMMA UpSteps ==
    ASSUME NEW up, NEW n, NEW c \in Nat, IsUp(up, n, c)
    PROVE  up[0] = {n} /\ \A k \in 1 .. c : up[k] = Above(up[k - 1])
<1>1. \A k \in 0 .. c : up[k] = IF k = 0 THEN {n} ELSE Above(up[k - 1])
  BY DEF IsUp
<1>2. 0 \in 0 .. c /\ \A k \in 1 .. c : k \in 0 .. c /\ k # 0
  OBVIOUS
<1>. QED  BY <1>1, <1>2

LEMMA UpExists ==
    ASSUME NEW n, NEW c \in Nat
    PROVE  \E up : IsUp(up, n, c)
<1>1. DEFINE S == {m \in 0 .. c : \E up : IsUp(up, n, m)}
<1>2. 0 \in S
  <2>1. DEFINE up == [k \in 0 .. 0 |-> {n}]
  <2>2. IsUp(up, n, 0)
    BY DEF IsUp
  <2>. QED  BY <2>2
<1>3. ASSUME NEW m \in 1 .. c, m - 1 \in S
      PROVE  m \in S
  <2>1. PICK up : IsUp(up, n, m - 1)
    BY <1>3
  <2>2. \A k \in 0 .. m - 1 : up[k] = IF k = 0 THEN {n} ELSE Above(up[k - 1])
    BY <2>1 DEF IsUp
  <2>3. DEFINE more == [k \in 0 .. m |-> IF k = m THEN Above(up[m - 1]) ELSE up[k]]
  <2>4. ASSUME NEW k \in 0 .. m
        PROVE  more[k] = IF k = 0 THEN {n} ELSE Above(more[k - 1])
    <3>1. CASE k = m
      <4>1. k # 0 /\ k - 1 \in 0 .. m /\ k - 1 # m
        BY <3>1
      <4>2. more[k - 1] = up[k - 1] /\ more[k] = Above(up[m - 1])
        BY <3>1, <4>1
      <4>. QED  BY <3>1, <4>1, <4>2
    <3>2. CASE k # m
      <4>1. k \in 0 .. m - 1 /\ (k # 0 => k - 1 \in 0 .. m /\ k - 1 # m)
        BY <3>2
      <4>2. more[k] = up[k] /\ (k # 0 => more[k - 1] = up[k - 1])
        BY <3>2, <4>1
      <4>. HIDE DEF more
      <4>. QED  BY <2>2, <4>1, <4>2
    <3>. QED  BY <3>1, <3>2
  <2>5. more = [k \in 0 .. m |-> more[k]]
    OBVIOUS
  <2>6. IsUp(more, n, m)
    <3>. HIDE DEF more
    <3>. QED  BY <2>4, <2>5 DEF IsUp
  <2>. QED  BY <2>6
<1>4. c \in S
  <2>. HIDE DEF S
  <2>. QED  BY <1>2, <1>3, PrefixInduction
<1>. QED  BY <1>4

LEMMA AncestorsAre ==
    ASSUME NEW n, NEW c \in Nat, c = Cardinality(DOMAIN nodes)
    PROVE  \E up : IsUp(up, n, c) /\ Ancestors(n) = up[c] \ {NoNode}
<1>1. PICK up : IsUp(up, n, c)
  BY UpExists
<1>. DEFINE some == CHOOSE u : IsUp(u, n, c)
<1>2. IsUp(some, n, c)
  BY <1>1
<1>3. Ancestors(n) = some[c] \ {NoNode}
  BY DEF Ancestors, IsUp, Above
<1>. QED  BY <1>2, <1>3

\* U is what k steps up reach: one node on each of k + 1 levels, or as many as there are.
Rises(U, n, h, k) ==
    /\ U \subseteq DOMAIN nodes /\ n \in U
    /\ \A x \in U : h[n] <= h[x] /\ (x = n \/ \E z \in U : nodes[z].parent = x)
    /\ \A x, y \in U : h[x] = h[y] => x = y
    /\ \A i \in Nat : h[n] <= i /\ i <= h[n] + k =>
          \/ \E r \in U : nodes[r].parent = NoNode /\ h[r] < i
          \/ \E x \in U : h[x] = i

LEMMA ParentAbove ==
    ASSUME PInv, Growing, NEW h, Levels(h), NEW n \in DOMAIN nodes, nodes[n].parent # NoNode
    PROVE  nodes[n].parent \in DOMAIN nodes /\ h[nodes[n].parent] = h[n] + 1
<1>1. PICK p : p = nodes[n].parent
  OBVIOUS
<1>2. p \in Inner /\ n \in ToSet(nodes[p].kids)
  BY <1>1 DEF PInv, Links, ParentListsKid
<1>3. PICK k \in 1 .. Len(nodes[p].kids) : nodes[p].kids[k] = n
  <2>1. nodes[p].kids \in Seq(Nat)
    BY <1>2 DEF PInv, Shape, NodeShape, NodeRecord, Inner
  <2>. QED  BY <1>2, <2>1, LenProperties DEF ToSet
<1>4. h[n] + 1 = h[p]
  BY <1>2, <1>3 DEF Levels, Descends
<1>. QED  BY <1>1, <1>2, <1>4 DEF Inner

LEMMA RisesOn ==
    ASSUME PInv, Growing, NEW h, Levels(h), NEW n \in DOMAIN nodes, NEW k \in Nat, NEW F,
           Rises(F \ {NoNode}, n, h, k)
    PROVE  Rises(Above(F) \ {NoNode}, n, h, k + 1)
<1>1. PICK U, V : U = F \ {NoNode} /\ V = Above(F) \ {NoNode}
  OBVIOUS
<1>2. NoNode \notin DOMAIN nodes /\ U \subseteq DOMAIN nodes /\ Rises(U, n, h, k)
  BY <1>1 DEF Rises, PInv, Shape, NodeShape, NoNode
<1>3. U = F \cap DOMAIN nodes
  BY <1>1, <1>2
<1>4. /\ U \subseteq V
      /\ \A x \in V : x \in U \/ \E z \in U : nodes[z].parent = x /\ x # NoNode
      /\ \A z \in U : nodes[z].parent # NoNode => nodes[z].parent \in V
  BY <1>1, <1>3 DEF Above
<1>5. \A z \in U : nodes[z].parent # NoNode =>
                      nodes[z].parent \in DOMAIN nodes /\ h[nodes[z].parent] = h[z] + 1
  BY <1>2, ParentAbove
<1>6. \A x \in DOMAIN nodes : h[x] \in Nat
  BY DEF Levels, Bounded
<1>7. V \subseteq DOMAIN nodes /\ n \in V
  BY <1>2, <1>4, <1>5 DEF Rises
<1>8. ASSUME NEW x \in V
      PROVE  x = n \/ \E z \in U : nodes[z].parent = x /\ h[x] = h[z] + 1
  <2>1. PICK z : x = n \/ (z \in U /\ nodes[z].parent = x)
    BY <1>2, <1>4 DEF Rises
  <2>2. x # NoNode
    BY <1>1
  <2>. QED  BY <1>5, <2>1, <2>2
<1>9. ASSUME NEW x \in V
      PROVE  h[n] <= h[x] /\ (x = n \/ \E z \in V : nodes[z].parent = x)
  <2>1. CASE x = n
    BY <1>6, <2>1
  <2>2. CASE x # n
    <3>1. PICK z \in U : nodes[z].parent = x /\ h[x] = h[z] + 1
      BY <1>8, <2>2
    <3>2. h[n] <= h[z] /\ h[z] \in Nat /\ h[n] \in Nat
      BY <1>2, <1>6 DEF Rises
    <3>. QED  BY <1>4, <3>1, <3>2
  <2>. QED  BY <2>1, <2>2
<1>10. ASSUME NEW x \in V, NEW y \in V, h[x] = h[y]
       PROVE  x = y
  <2>1. ASSUME NEW v \in V, v # n
        PROVE  h[v] # h[n]
    <3>1. PICK z \in U : h[v] = h[z] + 1
      BY <1>8, <2>1
    <3>2. h[n] <= h[z] /\ h[z] \in Nat /\ h[n] \in Nat
      BY <1>2, <1>6 DEF Rises
    <3>. QED  BY <3>1, <3>2
  <2>2. CASE x = n \/ y = n
    BY <1>10, <2>1, <2>2
  <2>3. CASE x # n /\ y # n
    <3>1. PICK z \in U : nodes[z].parent = x /\ h[x] = h[z] + 1
      BY <1>8, <2>3
    <3>2. PICK w \in U : nodes[w].parent = y /\ h[y] = h[w] + 1
      BY <1>8, <2>3
    <3>3. h[z] \in Nat /\ h[w] \in Nat
      BY <1>2, <1>6
    <3>4. h[z] = h[w]
      <4>1. PICK a, b \in Nat : a = h[z] /\ b = h[w]
        BY <3>3
      <4>2. a + 1 = b + 1
        BY <1>10, <3>1, <3>2, <4>1
      <4>. QED  BY <4>1, <4>2
    <3>5. z = w
      BY <1>2, <3>4 DEF Rises
    <3>. QED  BY <3>1, <3>2, <3>5
  <2>. QED  BY <2>2, <2>3
<1>11. ASSUME NEW i \in Nat, h[n] <= i, i <= h[n] + (k + 1)
       PROVE  \/ \E r \in V : nodes[r].parent = NoNode /\ h[r] < i
              \/ \E x \in V : h[x] = i
  <2>1. h[n] \in Nat
    BY <1>6
  <2>2. CASE i <= h[n] + k
    BY <1>2, <1>4, <1>11, <2>2 DEF Rises
  <2>3. CASE ~(i <= h[n] + k)
    <3>1. PICK j \in Nat : j + 1 = i /\ h[n] <= j /\ j <= h[n] + k
      <4>1. PICK a \in Nat : a = h[n]
        BY <2>1
      <4>2. i = a + k + 1 /\ i - 1 \in Nat
        BY <1>11, <2>3, <4>1
      <4>3. i - 1 + 1 = i /\ a <= i - 1 /\ i - 1 <= a + k
        BY <4>2
      <4>. QED  BY <4>1, <4>2, <4>3
    <3>2. CASE \E r \in U : nodes[r].parent = NoNode /\ h[r] < j
      <4>1. PICK r \in U : nodes[r].parent = NoNode /\ h[r] < j
        BY <3>2
      <4>2. h[r] \in Nat
        BY <1>2, <1>6
      <4>3. h[r] < i
        BY <3>1, <4>1, <4>2
      <4>. QED  BY <1>4, <4>1, <4>3
    <3>3. CASE \E x \in U : h[x] = j
      <4>1. PICK x \in U : h[x] = j
        BY <3>3
      <4>2. CASE nodes[x].parent = NoNode
        <5>1. h[x] < i
          BY <3>1, <4>1
        <5>. QED  BY <1>4, <4>2, <5>1
      <4>3. CASE nodes[x].parent # NoNode
        BY <1>4, <1>5, <3>1, <4>1, <4>3
      <4>. QED  BY <4>2, <4>3
    <3>. QED  BY <1>2, <3>1, <3>2, <3>3 DEF Rises
  <2>. QED  BY <2>2, <2>3
<1>12. Rises(V, n, h, k + 1)
  BY <1>7, <1>9, <1>10, <1>11 DEF Rises
<1>. QED  BY <1>1, <1>12

LEMMA AncestorsRise ==
    ASSUME PInv, Growing, NEW h, Levels(h), NEW n \in DOMAIN nodes
    PROVE  Rises(Ancestors(n), n, h, Cardinality(DOMAIN nodes))
<1>1. PICK c \in Nat : c = Cardinality(DOMAIN nodes)
  BY FS_CardinalityType DEF Levels, Bounded
<1>2. PICK up : IsUp(up, n, c) /\ Ancestors(n) = up[c] \ {NoNode}
  BY <1>1, AncestorsAre
<1>3. up[0] = {n} /\ \A k \in 1 .. c : up[k] = Above(up[k - 1])
  BY <1>2, UpSteps
<1>. DEFINE S == {k \in 0 .. c : Rises(up[k] \ {NoNode}, n, h, k)}
<1>4. 0 \in S
  <2>1. n # NoNode /\ h[n] \in Nat
    BY DEF PInv, Shape, NodeShape, NoNode, Levels, Bounded
  <2>2. up[0] \ {NoNode} = {n}
    BY <1>3, <2>1
  <2>3. \A i \in Nat : h[n] <= i /\ i <= h[n] + 0 => h[n] = i
    BY <2>1
  <2>4. Rises({n}, n, h, 0)
    BY <2>1, <2>3 DEF Rises
  <2>. QED  BY <2>2, <2>4
<1>5. ASSUME NEW k \in 1 .. c, k - 1 \in S
      PROVE  k \in S
  <2>1. k - 1 \in Nat /\ k - 1 + 1 = k /\ k \in 0 .. c
    OBVIOUS
  <2>2. Rises(up[k - 1] \ {NoNode}, n, h, k - 1)
    BY <1>5
  <2>3. PICK j, F : j = k - 1 /\ F = up[k - 1]
    OBVIOUS
  <2>4. Rises(Above(F) \ {NoNode}, n, h, j + 1)
    BY <2>1, <2>2, <2>3, RisesOn
  <2>. QED  BY <1>3, <2>1, <2>3, <2>4
<1>6. c \in S
  <2>. HIDE DEF S
  <2>1. \A k \in 0 .. c : k \in S
    BY <1>4, <1>5, PrefixInduction
  <2>. QED  BY <2>1
<1>. QED  BY <1>1, <1>2, <1>6

\* The root is above every node, and between them is one node on each level.
IsRoot(r, h) ==
    /\ r \in DOMAIN nodes /\ nodes[r].parent = NoNode
    /\ \A n \in DOMAIN nodes :
          /\ nodes[n].parent = NoNode => n = r
          /\ r \in Ancestors(n) /\ Ancestors(n) \subseteq DOMAIN nodes
          /\ h[n] \in Nat /\ h[n] <= h[r]
          /\ \A x \in Ancestors(n) : h[x] \in h[n] .. h[r]
          /\ \A x, y \in Ancestors(n) : h[x] = h[y] => x = y
          /\ \A i \in h[n] .. h[r] : \E x \in Ancestors(n) : h[x] = i

LEMMA RootOfTree ==
    ASSUME PInv, Growing, NEW h, Levels(h), DOMAIN nodes # {}
    PROVE  \E r : IsRoot(r, h)
<1>1. PICK r \in DOMAIN nodes : nodes[r].parent = NoNode
  BY DEF Levels, OneRoot
<1>2. \A n \in DOMAIN nodes : nodes[n].parent = NoNode => n = r
  BY <1>1 DEF Levels, OneRoot
<1>3. PICK c \in Nat : c = Cardinality(DOMAIN nodes)
  BY FS_CardinalityType DEF Levels, Bounded
<1>4. \A n \in DOMAIN nodes : h[n] \in Nat /\ h[n] < c
  BY <1>3 DEF Levels, Bounded
<1>5. \A n \in DOMAIN nodes : Rises(Ancestors(n), n, h, c)
  BY <1>3, AncestorsRise
<1>6. ASSUME NEW n \in DOMAIN nodes
      PROVE  /\ r \in Ancestors(n) /\ Ancestors(n) \subseteq DOMAIN nodes
             /\ h[n] <= h[r]
  <2>1. Rises(Ancestors(n), n, h, c)
    BY <1>5
  <2>2. PICK a \in Nat : a = h[n]
    BY <1>4
  <2>3. PICK i \in Nat : i = a + c
    BY <1>3
  <2>4. a <= i /\ i <= a + c
    BY <2>3
  <2>5. ~ \E x \in Ancestors(n) : h[x] = i
    <3>1. ASSUME NEW x \in DOMAIN nodes
          PROVE  h[x] # i
      <4>1. h[x] \in Nat /\ h[x] < c
        BY <1>4
      <4>. QED  BY <2>3, <4>1
    <3>. QED  BY <2>1, <3>1 DEF Rises
  <2>6. PICK s \in Ancestors(n) : nodes[s].parent = NoNode
    BY <2>1, <2>2, <2>3, <2>4, <2>5 DEF Rises
  <2>7. s = r
    BY <1>2, <2>1, <2>6 DEF Rises
  <2>. QED  BY <2>1, <2>6, <2>7 DEF Rises
<1>7. ASSUME NEW n \in DOMAIN nodes
      PROVE  \A x \in Ancestors(n) : h[x] \in h[n] .. h[r]
  <2>1. TAKE x \in Ancestors(n)
  <2>2. x \in DOMAIN nodes /\ h[n] <= h[x]
    BY <1>5, <1>6, <2>1 DEF Rises
  <2>3. h[x] \in Nat /\ h[r] \in Nat /\ h[n] \in Nat /\ h[x] <= h[r]
    BY <1>1, <1>4, <1>6, <2>2
  <2>. QED  BY <2>2, <2>3
<1>8. ASSUME NEW n \in DOMAIN nodes, NEW i \in h[n] .. h[r]
      PROVE  \E x \in Ancestors(n) : h[x] = i
  <2>1. Rises(Ancestors(n), n, h, c)
    BY <1>5
  <2>2. PICK a, b \in Nat : a = h[n] /\ b = h[r] /\ b < c
    BY <1>1, <1>4
  <2>3. i \in Nat /\ a <= i /\ i <= b /\ i <= a + c
    BY <1>8, <2>2
  <2>4. ASSUME NEW s \in Ancestors(n), nodes[s].parent = NoNode
        PROVE  ~(h[s] < i)
    <3>1. s = r
      BY <1>2, <1>6, <2>4
    <3>. QED  BY <2>2, <2>3, <3>1
  <2>. QED  BY <2>1, <2>2, <2>3, <2>4 DEF Rises
<1>9. \A n \in DOMAIN nodes : \A x, y \in Ancestors(n) : h[x] = h[y] => x = y
  BY <1>5 DEF Rises
<1>10. IsRoot(r, h)
  BY <1>1, <1>2, <1>4, <1>6, <1>7, <1>8, <1>9 DEF IsRoot
<1>. QED  BY <1>10

LEMMA RootIs ==
    ASSUME PInv, Growing, NEW h, Levels(h), NEW r, IsRoot(r, h), current # NoNode
    PROVE  Root = r
<1>1. current \in DOMAIN nodes
  BY DEF PInv, Shape
<1>2. r \in Ancestors(current) /\ Ancestors(current) \subseteq DOMAIN nodes
  BY <1>1 DEF IsRoot
<1>3. NoNode \notin DOMAIN nodes
  BY DEF PInv, Shape, NodeShape, NoNode
<1>4. nodes[r].parent \notin DOMAIN nodes
  BY <1>3 DEF IsRoot
<1>5. ASSUME NEW n \in Ancestors(current), nodes[n].parent \notin DOMAIN nodes
      PROVE  n = r
  <2>1. n \in DOMAIN nodes
    BY <1>2
  <2>2. nodes[n].parent = NoNode
    BY <1>5, <2>1, ParentAbove
  <2>. QED  BY <2>1, <2>2 DEF IsRoot
<1>. QED  BY <1>2, <1>4, <1>5 DEF Root

-----------------------------------------------------------------------------
(***************************************************************************)
(* Restarts.                                                               *)
(***************************************************************************)

\* The parent found in the saved state is the node's.
LEMMA ParentFound ==
    ASSUME PInv, Growing, Saved = DOMAIN nodes, NEW n \in DOMAIN nodes
    PROVE  ParentInState(n) = nodes[n].parent
<1>1. PICK p : p = nodes[n].parent
  OBVIOUS
<1>2. PICK listing : listing = {m \in Inner : n \in ToSet(nodes[m].kids)}
  OBVIOUS
<1>3. ParentInState(n) = IF listing = {} THEN NoNode ELSE CHOOSE m \in listing : TRUE
  BY <1>2 DEF ParentInState, Inner
<1>4. NoNode \notin DOMAIN nodes
  BY DEF PInv, Shape, NodeShape, NoNode
<1>5. ASSUME NEW m \in listing
      PROVE  m = p /\ p # NoNode
  <2>1. m \in Inner /\ n \in ToSet(nodes[m].kids)
    BY <1>2
  <2>2. nodes[m].kids \in Seq(Nat) /\ m \in DOMAIN nodes
    BY <2>1 DEF PInv, Shape, NodeShape, NodeRecord, Inner
  <2>3. PICK k \in 1 .. Len(nodes[m].kids) : nodes[m].kids[k] = n
    BY <2>1, <2>2, LenProperties DEF ToSet
  <2>4. p = m
    BY <1>1, <2>1, <2>3 DEF PInv, Links, KidsKnowParent
  <2>. QED  BY <1>4, <2>2, <2>4
<1>6. p # NoNode => p \in listing
  BY <1>1, <1>2 DEF PInv, Links, ParentListsKid
<1>7. CASE p = NoNode
  BY <1>1, <1>3, <1>5, <1>7
<1>8. CASE p # NoNode
  <2>1. listing = {p}
    BY <1>5, <1>6, <1>8
  <2>. QED  BY <1>1, <1>3, <2>1
<1>. QED  BY <1>7, <1>8

LEMMA RestoredSame ==
    ASSUME PInv, Growing, NEW h, Levels(h), Saved = DOMAIN nodes, NEW n \in DOMAIN nodes
    PROVE  Restored(n) = nodes[n]
<1>1. nodes[n] \in NodeRecord
  BY DEF PInv, Shape, NodeShape
<1>2. PICK node : node = nodes[n]
  OBVIOUS
<1>3. node = [parent |-> node.parent, isLeafParent |-> node.isLeafParent, kids |-> node.kids]
      /\ node.isLeafParent \in BOOLEAN
  BY <1>1, <1>2 DEF NodeRecord
<1>4. node.kids = <<>> => node.isLeafParent
  <2>1. n \in Inner => Len(nodes[n].kids) # 0
    BY DEF Levels, Descends
  <2>. QED  BY <1>2, <2>1, ShortLists DEF Inner
<1>5. (node.isLeafParent \/ node.kids = <<>>) = node.isLeafParent
  BY <1>3, <1>4
<1>. QED  BY <1>2, <1>3, <1>5, ParentFound DEF Restored

LEMMA RestartStep ==
    ASSUME PInv, NEW h, Levels(h), ShutdownAndContinue
    PROVE  nodes' = nodes /\ current' = current
<1>1. Growing /\ nodes' = [n \in Saved |-> Restored(n)]
      /\ current' = IF current \in Saved THEN current ELSE NoNode
  BY DEF ShutdownAndContinue, Growing
<1>2. IsMap(nodes) /\ (current = NoNode => DOMAIN nodes = {})
  BY DEF Levels, Begun
<1>3. Saved = DOMAIN nodes /\ (current # NoNode => current \in DOMAIN nodes)
  <2>1. CASE current = NoNode
    BY <1>2, <2>1 DEF Saved
  <2>2. CASE current # NoNode
    <3>1. current \in DOMAIN nodes
      BY <2>2 DEF PInv, Shape
    <3>2. PICK r : IsRoot(r, h)
      BY <1>1, <3>1, RootOfTree
    <3>3. Root = r
      BY <1>1, <2>2, <3>2, RootIs
    <3>4. \A n \in DOMAIN nodes : r \in Ancestors(n)
      BY <3>2 DEF IsRoot
    <3>. QED  BY <2>2, <3>1, <3>3, <3>4 DEF Saved
  <2>. QED  BY <2>1, <2>2
<1>4. \A n \in DOMAIN nodes : Restored(n) = nodes[n]
  BY <1>1, <1>3, RestoredSame
<1>5. nodes' = [n \in DOMAIN nodes |-> nodes[n]]
  BY <1>1, <1>3, <1>4
<1>. QED  BY <1>1, <1>2, <1>3, <1>5 DEF IsMap

\* The levels are where they should be in every state that is reached, as every step of
\* a call keeps them so, and the tree then comes back as it was.
LEMMA InitTInv == Init => TInv
<1>. SUFFICES ASSUME Init PROVE TInv
  OBVIOUS
<1>1. nodes = <<>> /\ current = NoNode /\ pc = "idle"
  BY DEF Init
<1>2. DOMAIN nodes = {} /\ Inner = {} /\ IsMap(nodes)
  BY <1>1 DEF Inner, IsMap
<1>. DEFINE h == [n \in {} |-> 0]
<1>3. Bounded(h)
  BY <1>2, FS_EmptySet DEF Bounded
<1>4. Descends(h) /\ OneRoot /\ Begun
  BY <1>1, <1>2 DEF Descends, OneRoot, Begun
<1>5. \E g : Levels(g)
  BY <1>3, <1>4 DEF Levels
<1>. QED  BY <1>5, InitPInv DEF TInv

LEMMA RestartsOnly ==
    ASSUME PInv, [Next]_vars, restarts' # restarts
    PROVE  ShutdownAndContinue
BY DEF Next, vars, AddFirstPage, AddPageToCurrent, StartAddingPage, AddingPage, ClimbToParent,
    ClimbToNewParent, CreateBrother, CreateBrotherAndAddPage, EndWithoutPages,
    StartWritingPagesTree, StartWritingCombined, WritingTree, WriteLeafParent, VisitKid,
    WriteInner, WriteNode, FinishCombined, Ended

LEMMA StepKeepsTree == TInv /\ [Next]_vars => [KeepsTree]_vars
<1>. SUFFICES ASSUME TInv, [Next]_vars, restarts' # restarts
              PROVE  nodes' = nodes /\ current' = current
  BY DEF KeepsTree
<1>1. ShutdownAndContinue
  BY RestartsOnly DEF TInv
<1>2. Growing
  BY <1>1 DEF ShutdownAndContinue, Growing
<1>3. PICK h : Levels(h)
  BY <1>2 DEF TInv
<1>. QED  BY <1>1, <1>3, RestartStep DEF TInv

LEMMA StepTInv == TInv /\ [Next]_vars => TInv'
<1>. SUFFICES ASSUME TInv, [Next]_vars PROVE TInv'
  OBVIOUS
<1>1. PInv /\ PInv'
  BY StepPInv, StepKeepsTree DEF TInv
<1>2. SUFFICES ASSUME Growing' PROVE \E h : Levels(h)'
  BY <1>1 DEF TInv
<1>3. Growing
  BY <1>2 DEF Growing, Next, vars, AddFirstPage, AddPageToCurrent, StartAddingPage, AddingPage,
     ClimbToParent, ClimbToNewParent, CreateBrother, CreateBrotherAndAddPage, Climbing,
     CanCreateChild, EndWithoutPages, StartWritingPagesTree, StartWritingCombined, WritingTree,
     WriteLeafParent, VisitKid, WriteInner, WriteNode, FinishCombined, InWritePageTree,
     ShutdownAndContinue, Ended
<1>4. PICK h : Levels(h)
  BY <1>3 DEF TInv
<1>5. CASE AddFirstPage
  BY <1>1, <1>4, <1>5, AddFirstPageLevels
<1>6. CASE AddPageToCurrent
  BY <1>1, <1>4, <1>6, AddPageToCurrentLevels
<1>7. CASE StartAddingPage
  <2>1. UNCHANGED <<nodes, current, pages>> /\ pc = "idle" /\ pc' = "climb" /\ at' = current
        /\ returns' = 0 /\ current # NoNode
    BY <1>7 DEF StartAddingPage
  <2>. QED  BY <1>1, <1>4, <2>1, SameTreeLevels
<1>8. CASE ClimbToParent
  BY <1>1, <1>4, <1>8, ClimbToParentLevels
<1>9. CASE ClimbToNewParent
  BY <1>1, <1>4, <1>9, ClimbToNewParentLevels
<1>10. CASE CreateBrother
  BY <1>1, <1>4, <1>10, CreateBrotherLevels
<1>11. CASE CreateBrotherAndAddPage
  BY <1>1, <1>4, <1>11, CreateBrotherAndAddPageLevels
<1>12. CASE EndWithoutPages \/ StartWritingPagesTree \/ StartWritingCombined \/ FinishCombined
  BY <1>2, <1>12 DEF Growing, EndWithoutPages, StartWritingPagesTree, StartWritingCombined,
     FinishCombined
<1>13. CASE WriteLeafParent \/ VisitKid \/ WriteInner
  BY <1>3, <1>13 DEF Growing, WriteLeafParent, VisitKid, WriteInner, InWritePageTree
<1>14. CASE ShutdownAndContinue
  <2>1. nodes' = nodes /\ current' = current
    BY <1>1, <1>4, <1>14, RestartStep
  <2>2. UNCHANGED <<pages, pc, at, returns>>
    BY <1>14 DEF ShutdownAndContinue
  <2>. QED  BY <1>1, <1>4, <2>1, <2>2, SameTreeLevels
<1>15. CASE Ended \/ UNCHANGED vars
  <2>1. UNCHANGED <<nodes, current, pages, pc, at, returns>>
    BY <1>15 DEF Ended, vars, tree
  <2>. QED  BY <1>1, <1>4, <2>1, SameTreeLevels
<1>. QED  BY <1>5, <1>6, <1>7, <1>8, <1>9, <1>10, <1>11, <1>12, <1>13, <1>14, <1>15
          DEF Next, AddingPage, WritingTree

-----------------------------------------------------------------------------
(***************************************************************************)
(* The levels of the pages, and the left edge.                             *)
(***************************************************************************)

\* As many nodes are above one as there are levels above it.
LEMMA LevelsAbove ==
    ASSUME PInv, NEW h, NEW r, IsRoot(r, h), NEW m \in DOMAIN nodes, NEW n \in DOMAIN nodes,
           h[m] = h[n], IsFiniteSet(DOMAIN nodes)
    PROVE  Cardinality(Ancestors(m)) = Cardinality(Ancestors(n))
<1>1. PICK S, T : S = Ancestors(m) /\ T = Ancestors(n)
  OBVIOUS
<1>2. S \subseteq DOMAIN nodes /\ T \subseteq DOMAIN nodes
  BY <1>1 DEF IsRoot
<1>3. /\ \A x \in S : \E y \in T : h[y] = h[x]
      /\ \A y \in T : \E x \in S : h[x] = h[y]
  BY <1>1 DEF IsRoot
<1>4. /\ \A x, y \in S : h[x] = h[y] => x = y
      /\ \A x, y \in T : h[x] = h[y] => x = y
  BY <1>1 DEF IsRoot
<1>. DEFINE f == [x \in S |-> CHOOSE y \in T : h[y] = h[x]]
<1>5. \A x \in S : f[x] \in T /\ h[f[x]] = h[x]
  BY <1>3
<1>. HIDE DEF f
<1>6. \A x, y \in S : f[x] = f[y] => x = y
  BY <1>4, <1>5
<1>7. \A y \in T : \E x \in S : f[x] = y
  BY <1>3, <1>4, <1>5
<1>8. f \in [S -> T]
  BY <1>5 DEF f
<1>9. f \in Bijection(S, T)
  BY <1>6, <1>7, <1>8 DEF Bijection, Injection, Surjection, IsInjective
<1>10. ExistsBijection(S, T)
  BY <1>9 DEF ExistsBijection
<1>11. IsFiniteSet(S)
  BY <1>2, FS_Subset
<1>. QED  BY <1>1, <1>10, <1>11, FS_Bijection

LEMMA OneLevel == TInv => LeavesOnOneLevel
<1>. SUFFICES ASSUME TInv, pc = "idle", NEW m \in DOMAIN nodes \ Inner,
                     NEW n \in DOMAIN nodes \ Inner
              PROVE  Cardinality(Ancestors(m)) = Cardinality(Ancestors(n))
  BY DEF LeavesOnOneLevel
<1>1. PInv /\ Growing
  BY DEF TInv, Growing
<1>2. PICK h : Levels(h)
  BY <1>1 DEF TInv
<1>3. h[m] = 0 /\ h[n] = 0 /\ IsFiniteSet(DOMAIN nodes)
  BY <1>2 DEF Levels, Descends, Bounded
<1>4. PICK r : IsRoot(r, h)
  BY <1>1, <1>2, RootOfTree
<1>. QED  BY <1>1, <1>3, <1>4, LevelsAbove

\* The first kid of a node, as HasLeaf goes down.
FirstKid(m) == IF m = NoNode \/ nodes[m].isLeafParent THEN NoNode ELSE nodes[m].kids[1]

IsDown(down, n, c) == down = [k \in 0 .. c |-> IF k = 0 THEN n ELSE FirstKid(down[k - 1])]

LEMMA DownSteps ==
    ASSUME NEW down, NEW n, NEW c \in Nat, IsDown(down, n, c)
    PROVE  /\ DOMAIN down = 0 .. c /\ down[0] = n
           /\ \A k \in 1 .. c : down[k] = FirstKid(down[k - 1])
<1>1. /\ DOMAIN down = 0 .. c
      /\ \A k \in 0 .. c : down[k] = IF k = 0 THEN n ELSE FirstKid(down[k - 1])
  BY DEF IsDown
<1>2. 0 \in 0 .. c /\ \A k \in 1 .. c : k \in 0 .. c /\ k # 0
  OBVIOUS
<1>. QED  BY <1>1, <1>2

LEMMA DownExists ==
    ASSUME NEW n, NEW c \in Nat
    PROVE  \E down : IsDown(down, n, c)
<1>1. DEFINE S == {m \in 0 .. c : \E down : IsDown(down, n, m)}
<1>2. 0 \in S
  <2>1. DEFINE down == [k \in 0 .. 0 |-> n]
  <2>2. IsDown(down, n, 0)
    BY DEF IsDown
  <2>. QED  BY <2>2
<1>3. ASSUME NEW m \in 1 .. c, m - 1 \in S
      PROVE  m \in S
  <2>1. PICK down : IsDown(down, n, m - 1)
    BY <1>3
  <2>2. \A k \in 0 .. m - 1 : down[k] = IF k = 0 THEN n ELSE FirstKid(down[k - 1])
    BY <2>1 DEF IsDown
  <2>3. DEFINE more == [k \in 0 .. m |-> IF k = m THEN FirstKid(down[m - 1]) ELSE down[k]]
  <2>4. ASSUME NEW k \in 0 .. m
        PROVE  more[k] = IF k = 0 THEN n ELSE FirstKid(more[k - 1])
    <3>1. CASE k = m
      <4>1. k # 0 /\ k - 1 \in 0 .. m /\ k - 1 # m
        BY <3>1
      <4>2. more[k - 1] = down[k - 1] /\ more[k] = FirstKid(down[m - 1])
        BY <3>1, <4>1
      <4>. QED  BY <3>1, <4>1, <4>2
    <3>2. CASE k # m
      <4>1. k \in 0 .. m - 1 /\ (k # 0 => k - 1 \in 0 .. m /\ k - 1 # m)
        BY <3>2
      <4>2. more[k] = down[k] /\ (k # 0 => more[k - 1] = down[k - 1])
        BY <3>2, <4>1
      <4>. HIDE DEF more
      <4>. QED  BY <2>2, <4>1, <4>2
    <3>. QED  BY <3>1, <3>2
  <2>5. more = [k \in 0 .. m |-> more[k]]
    OBVIOUS
  <2>6. IsDown(more, n, m)
    <3>. HIDE DEF more
    <3>. QED  BY <2>4, <2>5 DEF IsDown
  <2>. QED  BY <2>6
<1>4. c \in S
  <2>. HIDE DEF S
  <2>. QED  BY <1>2, <1>3, PrefixInduction
<1>. QED  BY <1>4

LEMMA HasLeafIs ==
    ASSUME NEW n, NEW c \in Nat, c = Cardinality(DOMAIN nodes)
    PROVE  \E down : /\ IsDown(down, n, c)
                     /\ HasLeaf(n) = \E k \in DOMAIN down :
                                        down[k] # NoNode /\ nodes[down[k]].isLeafParent
<1>1. PICK down : IsDown(down, n, c)
  BY DownExists
<1>. DEFINE some == CHOOSE d : IsDown(d, n, c)
<1>2. IsDown(some, n, c)
  BY <1>1
<1>3. HasLeaf(n) = \E k \in DOMAIN some : some[k] # NoNode /\ nodes[some[k]].isLeafParent
  BY DEF HasLeaf, IsDown, FirstKid
<1>. QED  BY <1>2, <1>3

\* The first kid of a node is one level below it, and on the lowest are the pages' nodes.
LEMMA OneDown ==
    ASSUME PInv, pc = "idle", NEW h, Levels(h), NEW m \in DOMAIN nodes
    PROVE  /\ h[m] \in Nat /\ m # NoNode
           /\ h[m] = 0 => nodes[m].isLeafParent
           /\ h[m] # 0 => FirstKid(m) \in DOMAIN nodes /\ h[FirstKid(m)] + 1 = h[m]
<1>1. Links
  BY DEF PInv, Growing
<1>2. m # NoNode /\ nodes[m] \in NodeRecord
  BY DEF PInv, Shape, NodeShape, NoNode
<1>3. \A n \in DOMAIN nodes : h[n] \in Nat
  BY DEF Levels, Bounded
<1>4. CASE m \in Inner
  <2>1. nodes[m].kids \in Seq(Nat)
    BY <1>2 DEF NodeRecord
  <2>2. Len(nodes[m].kids) # 0
    BY <1>4 DEF Levels, Descends
  <2>3. 1 \in 1 .. Len(nodes[m].kids)
    BY <2>1, <2>2, LenProperties
  <2>4. FirstKid(m) = nodes[m].kids[1]
    BY <1>2, <1>4 DEF FirstKid, Inner
  <2>5. FirstKid(m) \in DOMAIN nodes /\ h[FirstKid(m)] + 1 = h[m]
    BY <1>1, <1>4, <2>3, <2>4 DEF Links, KidsKnowParent, Levels, Descends
  <2>6. h[m] # 0
    <3>1. PICK a \in Nat : a = h[FirstKid(m)]
      BY <1>3, <2>5
    <3>2. a + 1 # 0
      OBVIOUS
    <3>. QED  BY <2>5, <3>1, <3>2
  <2>. QED  BY <1>2, <1>3, <2>5, <2>6
<1>5. CASE m \notin Inner
  <2>1. h[m] = 0 /\ nodes[m].isLeafParent
    BY <1>5 DEF Levels, Descends, Inner
  <2>. QED  BY <1>2, <1>3, <2>1
<1>. QED  BY <1>4, <1>5

LEMMA LeafDown ==
    ASSUME PInv, pc = "idle", NEW h, Levels(h), NEW r \in DOMAIN nodes
    PROVE  HasLeaf(r)
<1>1. PICK c \in Nat : c = Cardinality(DOMAIN nodes)
  BY FS_CardinalityType DEF Levels, Bounded
<1>2. PICK down : /\ IsDown(down, r, c)
                  /\ HasLeaf(r) = \E k \in DOMAIN down :
                                     down[k] # NoNode /\ nodes[down[k]].isLeafParent
  BY <1>1, HasLeafIs
<1>3. /\ DOMAIN down = 0 .. c /\ down[0] = r
      /\ \A k \in 1 .. c : down[k] = FirstKid(down[k - 1])
  BY <1>2, DownSteps
<1>4. PICK t \in Nat : t = h[r] /\ t < c
  BY <1>1 DEF Levels, Bounded
<1>. DEFINE S == {k \in 0 .. t : down[k] \in DOMAIN nodes /\ h[down[k]] + k = t}
<1>5. 0 \in S
  BY <1>3, <1>4
<1>6. ASSUME NEW k \in 1 .. t, k - 1 \in S
      PROVE  k \in S
  <2>1. PICK m \in DOMAIN nodes : m = down[k - 1] /\ h[m] + (k - 1) = t
    BY <1>6
  <2>2. PICK a \in Nat : a = h[m]
    BY <2>1, OneDown
  <2>3. a # 0
    BY <2>1, <2>2
  <2>4. FirstKid(m) \in DOMAIN nodes /\ h[FirstKid(m)] + 1 = a
    BY <2>1, <2>2, <2>3, OneDown
  <2>5. PICK b \in Nat : b = h[FirstKid(m)]
    BY <2>4, OneDown
  <2>6. b + 1 = a /\ a + (k - 1) = t
    BY <2>1, <2>2, <2>4, <2>5
  <2>7. b + k = t /\ k \in 0 .. t /\ k \in 1 .. c
    BY <1>4, <2>6
  <2>8. down[k] = FirstKid(m)
    BY <1>3, <2>1, <2>7
  <2>. QED  BY <2>4, <2>5, <2>7, <2>8
<1>7. t \in S
  <2>. HIDE DEF S
  <2>1. \A k \in 0 .. t : k \in S
    BY <1>5, <1>6, PrefixInduction
  <2>. QED  BY <2>1
<1>8. PICK a \in Nat : a = h[down[t]] /\ a + t = t
  BY <1>7, OneDown
<1>9. a = 0 /\ t \in 0 .. c
  BY <1>4, <1>8
<1>10. down[t] # NoNode /\ nodes[down[t]].isLeafParent
  BY <1>7, <1>8, <1>9, OneDown
<1>. QED  BY <1>2, <1>3, <1>9, <1>10

LEMMA LeftEdge == TInv => LeftEdgeTells
<1>. SUFFICES ASSUME TInv, pc = "idle"
              PROVE  DocumentHasNewPages <=> pages # <<>>
  BY DEF LeftEdgeTells
<1>1. PInv /\ Growing
  BY DEF TInv, Growing
<1>2. PICK h : Levels(h)
  BY <1>1 DEF TInv
<1>3. CASE current = NoNode
  BY <1>1, <1>3 DEF DocumentHasNewPages, PInv, Shape
<1>4. CASE current # NoNode
  <2>1. current \in DOMAIN nodes /\ pages # <<>>
    BY <1>1, <1>2, <1>4 DEF PInv, Shape, Levels, Begun
  <2>2. PICK r : IsRoot(r, h)
    BY <1>1, <1>2, <2>1, RootOfTree
  <2>3. r \in DOMAIN nodes /\ Root = r
    BY <1>1, <1>2, <1>4, <2>2, RootIs DEF IsRoot
  <2>. QED  BY <1>1, <1>2, <1>4, <2>1, <2>3, LeafDown DEF DocumentHasNewPages
<1>. QED  BY <1>3, <1>4

-----------------------------------------------------------------------------
(***************************************************************************)
(* The theorems.                                                           *)
(***************************************************************************)

\* The node WritePage names as the Parent of a page is the one that lists it, for every
\* number of pages and every size of a level: no brother, cousin or new parent that a
\* later page needs moves it, nor does the writing, nor a restart.
THEOREM ParentsCorrect == Spec => []PagesNameTheirParent
<1>1. TInv => PagesNameTheirParent
  BY DEF TInv, PInv
<1>. QED  BY <1>1, InitTInv, StepTInv, PTL DEF Spec

\* AddNodeToTree and CreateBrotherOrCousin leave a tree: every kid of a node knows it as
\* its parent, and every node that has a parent is its kid, once.
THEOREM TreeCorrect == Spec => []IsTree
<1>1. TInv => IsTree
  BY DEF TInv, PInv, Growing, Links, KidsKnowParent, ParentListsKid, IsTree
<1>. QED  BY <1>1, InitTInv, StepTInv, PTL DEF Spec

\* What Shutdown saves is the whole tree, and ContinuePDF builds the same one: every
\* node is found below the root, its parent is the one that lists it, and no node with
\* kids is empty.
THEOREM RestartsCorrect == Spec => RestartKeepsTree
<1>. QED  BY InitTInv, StepTInv, StepKeepsTree, PTL DEF Spec, RestartKeepsTree, KeepsTree

\* CreateBrotherOrCousin comes down as many levels as it went up: all the pages are as
\* far from the root, for every size of a level.
THEOREM LevelsCorrect == Spec => []LeavesOnOneLevel
<1>. QED  BY OneLevel, InitTInv, StepTInv, PTL DEF Spec

\* DocumentHasNewPages may go down the left edge only: it ends at a node of pages.
THEOREM LeftEdgeCorrect == Spec => []LeftEdgeTells
<1>. QED  BY LeftEdge, InitTInv, StepTInv, PTL DEF Spec

-----------------------------------------------------------------------------
(***************************************************************************)
(* The tree in the file.                                                   *)
(***************************************************************************)

\* A node has an ID that is no object's of the modified document, and so have its kids,
\* which are no nodes when they are pages.
KidsFit(n) ==
    /\ Len(nodes[n].kids) <= PAGE_TREE_LEVEL_SIZE
    /\ n > originalCount + 1
    /\ \A k \in 1 .. Len(nodes[n].kids) :
          /\ nodes[n].kids[k] > originalCount + 1
          /\ nodes[n].isLeafParent => nodes[n].kids[k] \notin DOMAIN nodes

Numbered ==
    \A n \in DOMAIN nodes : KidsFit(n) /\ nodes[n].parent \in ObjectIDs \cup {NoNode}

FrameRecord == [node : DOMAIN nodes, kid : Nat, total : Nat]
WrittenRecord(I) == [id : I, parent : I \cup {NoNode}, kids : Seq(I), count : Nat]

\* The call that is made; nothing is written while the tree grows.
CallFits ==
    /\ pc \in {"idle", "climb", "write", "combine", "written"}
    /\ originalCount \in Nat /\ originalCount + 2 <= nextID
    /\ page \in ObjectIDs \cup {0}
    /\ at \in DOMAIN nodes \cup {NoNode} /\ returns \in Nat
    /\ pc = "climb" => page > originalCount + 1 /\ page \notin DOMAIN nodes
    /\ Growing => frames = <<>> /\ combinedRoot = NoNode /\ written = <<>>

WritingTyped ==
    /\ frames \in Seq(FrameRecord)
    /\ combinedRoot \in ObjectIDs \cup {NoNode}
    /\ written \in Seq(WrittenRecord(ObjectIDs))

\* What is written is the tree below r, whose parent for the time is no node of it.
Grounded(r) ==
    /\ r \in DOMAIN nodes /\ nodes[r].parent = combinedRoot /\ combinedRoot \notin DOMAIN nodes
    /\ \A n \in Inner : KidsKnowParent(n)
    /\ \A n \in DOMAIN nodes : IsInjective(nodes[n].kids)
    /\ combinedRoot # NoNode =>
          /\ combinedRoot > originalCount + 1
          /\ \A n \in DOMAIN nodes : \A k \in 1 .. Len(nodes[n].kids) :
                nodes[n].kids[k] # combinedRoot

FrameNodes == {frames[i].node : i \in 1 .. Len(frames)}

\* A call is at a node that is not written yet; its kids before the one it is at are, and
\* the next call is at that one.
FrameFits(i) ==
    /\ frames[i].node \notin WrittenIDs
    /\ frames[i].kid >= 1
    /\ frames[i].node \in Inner =>
          /\ frames[i].kid <= Len(nodes[frames[i].node].kids) + 1
          /\ \A k \in 1 .. Len(nodes[frames[i].node].kids) :
                nodes[frames[i].node].kids[k] \in WrittenIDs <=> k < frames[i].kid
    /\ i + 1 \in 1 .. Len(frames) =>
          /\ frames[i].node \in Inner
          /\ frames[i].kid <= Len(nodes[frames[i].node].kids)
          /\ frames[i + 1].node = nodes[frames[i].node].kids[frames[i].kid]

Stacked(r) ==
    /\ pc = "write" => Len(frames) # 0 /\ frames[1].node = r
    /\ pc = "combine" => Len(frames) = 0
    /\ \A i, j \in 1 .. Len(frames) : frames[i].node = frames[j].node => i = j
    /\ \A i \in 1 .. Len(frames) : FrameFits(i)

ItemFits(k) ==
    /\ written[k].id \in DOMAIN nodes
    /\ written[k].parent = nodes[written[k].id].parent
    /\ written[k].kids = nodes[written[k].id].kids

\* The nodes are written as they are, after their kids and before their parents.
WrittenFits(r) ==
    /\ \A k \in 1 .. Len(written) : ItemFits(k)
    /\ \A n \in WrittenIDs \cap Inner : \A k \in 1 .. Len(nodes[n].kids) :
          nodes[n].kids[k] \in WrittenIDs
    /\ \A m \in WrittenIDs \ {r} : \E p \in Inner \cap (WrittenIDs \cup FrameNodes) :
          m \in ToSet(nodes[p].kids)
    /\ pc = "combine" => /\ combinedRoot # NoNode
                         /\ Len(written) # 0 /\ written[Len(written)].id = r

\* The first pages of the kids of a node, as f has them.
PagesUpTo(f, kids, j) == FlattenSeq([k \in 1 .. j |-> f[kids[k]]])

Totalled(f) ==
    \A i \in 1 .. Len(frames) :
        frames[i].node \in Inner =>
            frames[i].total = Len(PagesUpTo(f, nodes[frames[i].node].kids, frames[i].kid - 1))

-----------------------------------------------------------------------------
(***************************************************************************)
(* The pages a reader finds below a node.                                  *)
(***************************************************************************)
IsFlat(f, p, n) == f = [i \in 1 .. n |-> IF i = 1 THEN p[i] ELSE f[i - 1] \o p[i]]

InARow(f, p, n) ==
    n # 0 => f[1] = p[1] /\ \A i \in 1 .. n : i + 1 \in 1 .. n => f[i + 1] = f[i] \o p[i + 1]

LEMMA FlatSteps ==
    ASSUME NEW f, NEW p, NEW n \in Nat, IsFlat(f, p, n)
    PROVE  InARow(f, p, n)
<1>. SUFFICES ASSUME n # 0
              PROVE  /\ f[1] = p[1]
                     /\ \A i \in 1 .. n : i + 1 \in 1 .. n => f[i + 1] = f[i] \o p[i + 1]
  BY DEF InARow
<1>1. \A i \in 1 .. n : f[i] = IF i = 1 THEN p[i] ELSE f[i - 1] \o p[i]
  BY DEF IsFlat
<1>2. 1 \in 1 .. n
  OBVIOUS
<1>3. ASSUME NEW i \in 1 .. n, i + 1 \in 1 .. n
      PROVE  f[i + 1] = f[i] \o p[i + 1]
  <2>1. i + 1 # 1 /\ (i + 1) - 1 = i
    OBVIOUS
  <2>. QED  BY <1>1, <1>3, <2>1
<1>. QED  BY <1>1, <1>2, <1>3

LEMMA FlatExists ==
    ASSUME NEW n \in Nat, NEW p
    PROVE  \E f : IsFlat(f, p, n)
<1>1. DEFINE S == {m \in 0 .. n : \E f : IsFlat(f, p, m)}
<1>2. 0 \in S
  <2>1. DEFINE f == [i \in 1 .. 0 |-> p]
  <2>2. IsFlat(f, p, 0)
    BY DEF IsFlat
  <2>. QED  BY <2>2
<1>3. ASSUME NEW m \in 1 .. n, m - 1 \in S
      PROVE  m \in S
  <2>1. PICK f : IsFlat(f, p, m - 1)
    BY <1>3
  <2>2. DEFINE g == [i \in 1 .. m |-> IF i = m THEN IF m = 1 THEN p[1] ELSE f[m - 1] \o p[m]
                                      ELSE f[i]]
  <2>3. ASSUME NEW i \in 1 .. m
        PROVE  g[i] = IF i = 1 THEN p[i] ELSE g[i - 1] \o p[i]
    <3>1. CASE i = 1
      <4>1. i = m \/ i \in 1 .. m - 1
        OBVIOUS
      <4>2. i \in 1 .. m - 1 => f[i] = p[i]
        BY <2>1, <3>1 DEF IsFlat
      <4>. QED  BY <3>1, <4>1, <4>2
    <3>2. CASE i # 1
      <4>1. i - 1 \in 1 .. m /\ i - 1 # m /\ (i = m \/ i \in 1 .. m - 1) /\ (i = m => m # 1)
        BY <3>2
      <4>2. g[i - 1] = f[i - 1]
        BY <4>1
      <4>3. i \in 1 .. m - 1 => f[i] = f[i - 1] \o p[i]
        BY <2>1, <3>2 DEF IsFlat
      <4>4. g[i] = f[i - 1] \o p[i]
        BY <4>1, <4>3
      <4>. QED  BY <3>2, <4>2, <4>4
    <3>. QED  BY <3>1, <3>2
  <2>4. g = [i \in 1 .. m |-> IF i = 1 THEN p[i] ELSE g[i - 1] \o p[i]]
    <3>1. g = [i \in 1 .. m |-> g[i]]
      OBVIOUS
    <3>. HIDE DEF g
    <3>. QED  BY <2>3, <3>1
  <2>5. IsFlat(g, p, m)
    <3>. HIDE DEF g
    <3>. QED  BY <2>4 DEF IsFlat
  <2>. QED  BY <2>5
<1>4. n \in S
  <2>. HIDE DEF S
  <2>. QED  BY <1>2, <1>3, PrefixInduction
<1>. QED  BY <1>4

LEMMA FlatIs ==
    ASSUME NEW p, NEW n \in Nat \ {0}, n = Len(p)
    PROVE  \E f : IsFlat(f, p, n) /\ FlattenSeq(p) = f[n]
<1>2. PICK f : IsFlat(f, p, n)
  BY FlatExists
<1>. DEFINE g == CHOOSE h : IsFlat(h, p, n)
<1>3. IsFlat(g, p, n)
  BY <1>2
<1>4. FlattenSeq(p) = g[n]
  BY DEF FlattenSeq, IsFlat
<1>. QED  BY <1>3, <1>4

\* No kid has no page, and one kid more its pages.
LEMMA NoPages == ASSUME NEW f, NEW kids PROVE PagesUpTo(f, kids, 0) = <<>>
<1>1. PICK p : p = [k \in 1 .. 0 |-> f[kids[k]]]
  OBVIOUS
<1>2. p = <<>> /\ Len(p) = 0
  BY <1>1
<1>. QED  BY <1>1, <1>2 DEF PagesUpTo, FlattenSeq

LEMMA MorePages ==
    ASSUME NEW f, NEW kids, NEW j \in Nat, \A k \in 1 .. j + 1 : f[kids[k]] \in Seq(Nat)
    PROVE  PagesUpTo(f, kids, j + 1) = PagesUpTo(f, kids, j) \o f[kids[j + 1]]
<1>1. PICK n \in Nat \ {0} : n = j + 1
  OBVIOUS
<1>2. PICK p : p = [k \in 1 .. n |-> f[kids[k]]]
  OBVIOUS
<1>3. p \in Seq(Seq(Nat)) /\ Len(p) = n /\ n \in 1 .. n /\ p[n] = f[kids[n]]
      /\ FlattenSeq(p) = PagesUpTo(f, kids, j + 1)
  BY <1>1, <1>2 DEF PagesUpTo
<1>4. PICK F : IsFlat(F, p, n) /\ FlattenSeq(p) = F[n]
  BY <1>3, FlatIs
<1>5. F[1] = p[1] /\ \A i \in 1 .. n : i + 1 \in 1 .. n => F[i + 1] = F[i] \o p[i + 1]
  BY <1>4, FlatSteps DEF InARow
<1>6. CASE j = 0
  <2>1. PICK s \in Seq(Nat) : s = f[kids[1]]
    BY <1>6
  <2>2. FlattenSeq(p) = s
    BY <1>1, <1>3, <1>4, <1>5, <1>6, <2>1
  <2>3. <<>> \o s = s
    BY <2>1
  <2>4. PagesUpTo(f, kids, j + 1) = s
    BY <1>3, <2>2
  <2>5. PagesUpTo(f, kids, j) = <<>>
    BY <1>6, NoPages
  <2>6. f[kids[j + 1]] = s
    BY <1>6, <2>1
  <2>. QED  BY <2>3, <2>4, <2>5, <2>6
<1>7. CASE j # 0
  <2>1. PICK q : q = [k \in 1 .. j |-> f[kids[k]]]
    OBVIOUS
  <2>2. q \in Seq(Seq(Nat)) /\ Len(q) = j /\ FlattenSeq(q) = PagesUpTo(f, kids, j)
        /\ \A i \in 1 .. j : q[i] = p[i]
    BY <1>1, <1>2, <2>1 DEF PagesUpTo
  <2>3. j \in Nat \ {0}
    BY <1>7
  <2>4. PICK G : IsFlat(G, q, j) /\ FlattenSeq(q) = G[j]
    BY <2>2, <2>3, FlatIs
  <2>5. G[1] = q[1] /\ \A i \in 1 .. j : i + 1 \in 1 .. j => G[i + 1] = G[i] \o q[i + 1]
    BY <1>7, <2>4, FlatSteps DEF InARow
  <2>6. DEFINE S == {i \in 0 .. j : i # 0 => F[i] = G[i]}
  <2>7. 0 \in S
    OBVIOUS
  <2>8. ASSUME NEW i \in 1 .. j, i - 1 \in S
        PROVE  i \in S
    <3>. SUFFICES F[i] = G[i]
      OBVIOUS
    <3>1. CASE i = 1
      BY <1>5, <2>2, <2>5, <3>1
    <3>2. CASE i # 1
      <4>1. PICK m \in 1 .. j : m = i - 1 /\ m + 1 = i /\ m \in 1 .. n /\ m + 1 \in 1 .. n
        BY <1>1, <3>2
      <4>2. F[m] = G[m]
        BY <2>8, <4>1
      <4>3. F[i] = F[m] \o p[i] /\ G[i] = G[m] \o q[i]
        BY <1>5, <2>5, <4>1
      <4>4. p[i] = q[i]
        BY <2>2
      <4>. QED  BY <4>2, <4>3, <4>4
    <3>. QED  BY <3>1, <3>2
  <2>9. \A i \in 0 .. j : i \in S
    <3>. HIDE DEF S
    <3>. QED  BY <2>7, <2>8, PrefixInduction
  <2>10. F[j] = G[j]
    BY <1>7, <2>9
  <2>11. F[n] = F[j] \o p[n]
    <3>1. j \in 1 .. n /\ j + 1 \in 1 .. n /\ n = j + 1
      BY <1>1, <1>7
    <3>. QED  BY <1>5, <3>1
  <2>. QED  BY <1>1, <1>3, <1>4, <2>2, <2>4, <2>10, <2>11
<1>. QED  BY <1>6, <1>7

\* What the pages of typed lists are; a page is found where it is listed.
LEMMA PagesTyped ==
    ASSUME NEW f, NEW kids, NEW n \in Nat, \A k \in 1 .. n : f[kids[k]] \in Seq(Nat)
    PROVE  \A j \in 0 .. n : PagesUpTo(f, kids, j) \in Seq(Nat)
<1>. DEFINE S == {j \in 0 .. n : PagesUpTo(f, kids, j) \in Seq(Nat)}
<1>1. 0 \in S
  <2>1. PICK none \in Seq(Nat) : none = <<>>
    BY ShortLists
  <2>2. PagesUpTo(f, kids, 0) = none
    BY <2>1, NoPages
  <2>3. 0 \in 0 .. n
    OBVIOUS
  <2>. QED  BY <2>1, <2>2, <2>3
<1>2. ASSUME NEW j \in 1 .. n, j - 1 \in S
      PROVE  j \in S
  <2>1. PICK m \in Nat : m = j - 1 /\ m + 1 = j
    OBVIOUS
  <2>2. \A k \in 1 .. m + 1 : f[kids[k]] \in Seq(Nat)
    BY <2>1
  <2>3. PagesUpTo(f, kids, m + 1) = PagesUpTo(f, kids, m) \o f[kids[m + 1]]
    BY <2>2, MorePages
  <2>4. PagesUpTo(f, kids, m) \in Seq(Nat) /\ f[kids[m + 1]] \in Seq(Nat)
    BY <1>2, <2>1
  <2>5. PagesUpTo(f, kids, m + 1) \in Seq(Nat)
    BY <2>3, <2>4, ConcatProperties
  <2>. QED  BY <2>1, <2>5
<1>3. \A j \in 0 .. n : j \in S
  <2>. HIDE DEF S
  <2>. QED  BY <1>1, <1>2, PrefixInduction
<1>. QED  BY <1>3

LEMMA SinglePages ==
    ASSUME NEW f, NEW kids, NEW n \in Nat,
           \A k \in 1 .. n : f[kids[k]] = <<kids[k]>> /\ kids[k] \in Nat
    PROVE  PagesUpTo(f, kids, n) \in Seq(Nat) /\ Len(PagesUpTo(f, kids, n)) = n
<1>1. \A k \in 1 .. n : f[kids[k]] \in Seq(Nat) /\ Len(f[kids[k]]) = 1
  BY ShortLists
<1>2. \A j \in 0 .. n : PagesUpTo(f, kids, j) \in Seq(Nat)
  BY <1>1, PagesTyped
<1>. DEFINE S == {j \in 0 .. n : Len(PagesUpTo(f, kids, j)) = j}
<1>3. 0 \in S
  BY NoPages, ShortLists
<1>4. ASSUME NEW j \in 1 .. n, j - 1 \in S
      PROVE  j \in S
  <2>1. PICK m \in Nat : m = j - 1 /\ m + 1 = j
    OBVIOUS
  <2>2. \A k \in 1 .. m + 1 : f[kids[k]] \in Seq(Nat)
    BY <1>1, <2>1
  <2>3. PagesUpTo(f, kids, m + 1) = PagesUpTo(f, kids, m) \o f[kids[m + 1]]
    BY <2>2, MorePages
  <2>4. PICK s, t \in Seq(Nat) : s = PagesUpTo(f, kids, m) /\ t = f[kids[m + 1]]
    BY <1>1, <1>2, <2>1
  <2>5. Len(s) = m /\ Len(t) = 1
    BY <1>1, <1>4, <2>1, <2>4
  <2>6. Len(s \o t) = Len(s) + Len(t)
    BY ConcatProperties
  <2>7. PagesUpTo(f, kids, j) = s \o t
    BY <2>1, <2>3, <2>4
  <2>8. Len(s \o t) = j
    BY <2>1, <2>5, <2>6
  <2>. QED  BY <2>7, <2>8
<1>5. \A j \in 0 .. n : j \in S
  <2>. HIDE DEF S
  <2>. QED  BY <1>3, <1>4, PrefixInduction
<1>. QED  BY <1>2, <1>5

LEMMA SamePages ==
    ASSUME NEW f, NEW g, NEW kids, NEW n, \A k \in 1 .. n : f[kids[k]] = g[kids[k]]
    PROVE  PagesUpTo(f, kids, n) = PagesUpTo(g, kids, n)
<1>1. [k \in 1 .. n |-> f[kids[k]]] = [k \in 1 .. n |-> g[kids[k]]]
  OBVIOUS
<1>. QED  BY <1>1 DEF PagesUpTo

-----------------------------------------------------------------------------
(***************************************************************************)
(* A file of nodes, w, which a reader reads as f.                          *)
(***************************************************************************)
IDsOf(w) == {w[k].id : k \in 1 .. Len(w)}
ItemOf(w, id) == w[CHOOSE k \in 1 .. Len(w) : w[k].id = id]

Reading(f, w, id) ==
    IF id \in IDsOf(w)
    THEN PagesUpTo(f, ItemOf(w, id).kids, Len(ItemOf(w, id).kids))
    ELSE <<id>>

Reads(f, w, I) == f = [id \in I |-> Reading(f, w, id)]

ReadsAt(f, w, I) ==
    f = [id \in I |-> f[id]] /\ \A id \in I : f[id] = Reading(f, w, id)

OneEach(w) == \A j, k \in 1 .. Len(w) : w[j].id = w[k].id => j = k

\* There is one way to read it, and the nodes say how many pages are read.
RightSoFar(f, w, I) ==
    /\ OneEach(w)
    /\ Reads(f, w, I) /\ f \in [I -> Seq(Nat)]
    /\ \A g : Reads(g, w, I) => g = f
    /\ \A k \in 1 .. Len(w) : w[k].count = Len(f[w[k].id])

LEMMA ReadsPointwise ==
    ASSUME NEW f, NEW w, NEW I
    PROVE  Reads(f, w, I) <=> ReadsAt(f, w, I)
<1>1. ASSUME Reads(f, w, I) PROVE ReadsAt(f, w, I)
  BY <1>1 DEF Reads, ReadsAt
<1>2. ASSUME ReadsAt(f, w, I) PROVE Reads(f, w, I)
  BY <1>2 DEF Reads, ReadsAt
<1>. QED  BY <1>1, <1>2

LEMMA ItemIs ==
    ASSUME NEW w, OneEach(w), NEW k \in 1 .. Len(w)
    PROVE  w[k].id \in IDsOf(w) /\ ItemOf(w, w[k].id) = w[k]
<1>1. (CHOOSE j \in 1 .. Len(w) : w[j].id = w[k].id) = k
  BY DEF OneEach
<1>. QED  BY <1>1 DEF IDsOf, ItemOf

\* An item at the end of the file.
Added(w, x, v, I) ==
    /\ v \in Seq(WrittenRecord(I)) /\ Len(v) = Len(w) + 1 /\ Len(w) \in Nat
    /\ v[Len(v)] = x /\ \A k \in 1 .. Len(w) : v[k] = w[k]
    /\ \A k \in 1 .. Len(v) : k \in 1 .. Len(w) \/ k = Len(v)
    /\ IDsOf(v) = IDsOf(w) \cup {x.id}
    /\ OneEach(v)
    /\ ItemOf(v, x.id) = x
    /\ \A id \in IDsOf(w) : ItemOf(v, id) = ItemOf(w, id)

LEMMA ItemAdded ==
    ASSUME NEW I, NEW w \in Seq(WrittenRecord(I)), NEW x \in WrittenRecord(I),
           OneEach(w), x.id \notin IDsOf(w), NEW v, v = Append(w, x)
    PROVE  Added(w, x, v, I)
<1>1. /\ v \in Seq(WrittenRecord(I)) /\ Len(v) = Len(w) + 1 /\ Len(w) \in Nat
      /\ v[Len(w) + 1] = x /\ \A k \in 1 .. Len(w) : v[k] = w[k]
  BY AppendProperties, LenProperties
<1>2. \A k \in 1 .. Len(v) : k \in 1 .. Len(w) \/ k = Len(v)
  BY <1>1
<1>3. /\ \A k \in 1 .. Len(w) : k \in 1 .. Len(v) /\ k # Len(v)
      /\ Len(v) \in 1 .. Len(v) /\ v[Len(v)] = x
  BY <1>1
<1>4. IDsOf(v) = IDsOf(w) \cup {x.id}
  BY <1>1, <1>2, <1>3 DEF IDsOf
<1>5. OneEach(v)
  <2>1. \A k \in 1 .. Len(w) : w[k].id # x.id
    BY DEF IDsOf
  <2>. QED  BY <1>1, <1>2, <1>3, <2>1 DEF OneEach
<1>6. ItemOf(v, x.id) = x
  BY <1>3, <1>5, ItemIs
<1>7. ASSUME NEW id \in IDsOf(w)
      PROVE  ItemOf(v, id) = ItemOf(w, id)
  <2>1. PICK k \in 1 .. Len(w) : w[k].id = id
    BY DEF IDsOf
  <2>2. ItemOf(w, id) = w[k]
    BY <2>1, ItemIs
  <2>3. v[k] = w[k] /\ k \in 1 .. Len(v)
    BY <1>1, <1>3
  <2>4. ItemOf(v, id) = v[k]
    BY <1>5, <2>1, <2>3, ItemIs
  <2>. QED  BY <2>2, <2>3, <2>4
<1>. QED  BY <1>1, <1>2, <1>3, <1>4, <1>5, <1>6, <1>7 DEF Added

\* What the file with an item more is read as: the pages below its kids.
LEMMA ItemRead ==
    ASSUME NEW I, I \subseteq Nat, NEW w \in Seq(WrittenRecord(I)), NEW f, RightSoFar(f, w, I),
           NEW x \in WrittenRecord(I), x.id \notin IDsOf(w),
           \A k \in 1 .. Len(w) : x.id \notin ToSet(w[k].kids), x.id \notin ToSet(x.kids),
           x.count = Len(PagesUpTo(f, x.kids, Len(x.kids))),
           NEW v, v = Append(w, x),
           NEW g, g = [id \in I |-> IF id = x.id THEN PagesUpTo(f, x.kids, Len(x.kids))
                                    ELSE f[id]]
    PROVE  RightSoFar(g, v, I)
<1>0. OneEach(w)
  BY DEF RightSoFar
<1>1. /\ v \in Seq(WrittenRecord(I)) /\ Len(v) = Len(w) + 1 /\ Len(w) \in Nat
      /\ v[Len(v)] = x /\ \A k \in 1 .. Len(w) : v[k] = w[k]
      /\ \A k \in 1 .. Len(v) : k \in 1 .. Len(w) \/ k = Len(v)
      /\ IDsOf(v) = IDsOf(w) \cup {x.id}
      /\ OneEach(v)
      /\ ItemOf(v, x.id) = x
      /\ \A id \in IDsOf(w) : ItemOf(v, id) = ItemOf(w, id)
  <2>1. Added(w, x, v, I)
    BY <1>0, ItemAdded
  <2>. QED  BY <2>1 DEF Added
<1>2. /\ f \in [I -> Seq(Nat)] /\ ReadsAt(f, w, I)
      /\ \A h : Reads(h, w, I) => h = f
      /\ \A k \in 1 .. Len(w) : w[k].count = Len(f[w[k].id])
  BY ReadsPointwise DEF RightSoFar
<1>3. x.id \in I /\ x.kids \in Seq(I)
  BY DEF WrittenRecord
<1>4. PICK n \in Nat : n = Len(x.kids) /\ DOMAIN x.kids = 1 .. n
  BY <1>3, LenProperties
<1>5. \A k \in 1 .. n : x.kids[k] \in I /\ x.kids[k] # x.id
  BY <1>3, <1>4, ElementOfSeq DEF ToSet
<1>6. ASSUME NEW id \in IDsOf(w)
      PROVE  \A k \in 1 .. Len(ItemOf(w, id).kids) :
                ItemOf(w, id).kids[k] \in I /\ ItemOf(w, id).kids[k] # x.id
  <2>1. PICK k \in 1 .. Len(w) : w[k].id = id
    BY DEF IDsOf
  <2>2. ItemOf(w, id) = w[k]
    BY <2>1, ItemIs DEF RightSoFar
  <2>3. w[k] \in WrittenRecord(I)
    BY ElementOfSeq
  <2>4. w[k].kids \in Seq(I)
    BY <2>3 DEF WrittenRecord
  <2>5. PICK s \in Seq(I) : s = w[k].kids
    BY <2>4
  <2>6. x.id \notin ToSet(s)
    BY <2>5
  <2>7. \A i \in 1 .. Len(s) : s[i] \in I /\ s[i] # x.id
    BY <2>6, LenProperties, ElementOfSeq DEF ToSet
  <2>. QED  BY <2>2, <2>5, <2>7
<1>7. PICK p : p = PagesUpTo(f, x.kids, n)
  OBVIOUS
<1>8. p \in Seq(Nat)
  <2>1. \A k \in 1 .. n : f[x.kids[k]] \in Seq(Nat)
    BY <1>2, <1>5
  <2>2. n \in 0 .. n
    OBVIOUS
  <2>. QED  BY <1>7, <2>1, <2>2, PagesTyped
<1>9. /\ g[x.id] = p /\ \A id \in I : id # x.id => g[id] = f[id]
      /\ g \in [I -> Seq(Nat)] /\ g = [id \in I |-> g[id]]
  BY <1>2, <1>3, <1>4, <1>7, <1>8
\* Who reads the file but for the item.
<1>10. ASSUME NEW h, NEW id \in I, NEW e, \A i \in I : i # x.id => h[i] = e[i], id # x.id
       PROVE  Reading(h, v, id) = Reading(e, w, id)
  <2>1. CASE id \in IDsOf(w)
    <3>1. PICK item : item = ItemOf(w, id) /\ item = ItemOf(v, id)
      BY <1>1, <2>1
    <3>2. \A k \in 1 .. Len(item.kids) : h[item.kids[k]] = e[item.kids[k]]
      BY <1>6, <1>10, <2>1, <3>1
    <3>3. PagesUpTo(h, item.kids, Len(item.kids)) = PagesUpTo(e, item.kids, Len(item.kids))
      BY <3>2, SamePages
    <3>. QED  BY <1>1, <2>1, <3>1, <3>3 DEF Reading
  <2>2. CASE id \notin IDsOf(w)
    BY <1>1, <1>10, <2>2 DEF Reading
  <2>. QED  BY <2>1, <2>2
<1>11. ASSUME NEW h, \A i \in I : i # x.id => h[i] = f[i]
       PROVE  Reading(h, v, x.id) = p
  <2>1. PagesUpTo(h, x.kids, n) = PagesUpTo(f, x.kids, n)
    <3>1. \A k \in 1 .. n : h[x.kids[k]] = f[x.kids[k]]
      BY <1>5, <1>11
    <3>. QED  BY <3>1, SamePages
  <2>. QED  BY <1>1, <1>4, <1>7, <2>1 DEF Reading
<1>12. ReadsAt(g, v, I)
  <2>1. ASSUME NEW id \in I
        PROVE  g[id] = Reading(g, v, id)
    <3>1. CASE id = x.id
      BY <1>9, <1>11, <3>1
    <3>2. CASE id # x.id
      <4>1. Reading(g, v, id) = Reading(f, w, id)
        BY <1>9, <1>10, <3>2
      <4>2. f[id] = Reading(f, w, id)
        BY <1>2 DEF ReadsAt
      <4>. QED  BY <1>9, <3>2, <4>1, <4>2
    <3>. QED  BY <3>1, <3>2
  <2>. QED  BY <1>9, <2>1 DEF ReadsAt
<1>13. ASSUME NEW h, Reads(h, v, I)
       PROVE  h = g
  <2>1. h = [id \in I |-> h[id]] /\ \A id \in I : h[id] = Reading(h, v, id)
    BY <1>13, ReadsPointwise DEF ReadsAt
  <2>2. PICK e : e = [id \in I |-> IF id = x.id THEN <<id>> ELSE h[id]]
    OBVIOUS
  <2>3. e = [id \in I |-> e[id]] /\ \A i \in I : i # x.id => h[i] = e[i]
    BY <2>2
  <2>4. ASSUME NEW id \in I
        PROVE  e[id] = Reading(e, w, id)
    <3>1. CASE id = x.id
      BY <2>2, <3>1 DEF Reading
    <3>2. CASE id # x.id
      <4>1. Reading(h, v, id) = Reading(e, w, id)
        BY <1>10, <2>3, <3>2
      <4>. QED  BY <2>1, <2>3, <3>2, <4>1
    <3>. QED  BY <3>1, <3>2
  <2>5. e = f
    <3>1. ReadsAt(e, w, I)
      BY <2>3, <2>4 DEF ReadsAt
    <3>2. Reads(e, w, I)
      BY <3>1, ReadsPointwise
    <3>. QED  BY <1>2, <3>2
  <2>6. \A i \in I : i # x.id => h[i] = f[i]
    BY <2>3, <2>5
  <2>7. h[x.id] = p
    BY <1>3, <1>11, <2>1, <2>6
  <2>8. \A id \in I : h[id] = g[id]
    BY <1>9, <2>6, <2>7
  <2>. QED  BY <1>9, <2>1, <2>8
<1>14. ASSUME NEW k \in 1 .. Len(v)
       PROVE  v[k].count = Len(g[v[k].id])
  <2>1. CASE k = Len(v)
    BY <1>1, <1>4, <1>7, <1>9, <2>1
  <2>2. CASE k \in 1 .. Len(w)
    <3>1. v[k] = w[k] /\ w[k].id # x.id
      BY <1>1, <2>2 DEF IDsOf
    <3>2. w[k] \in WrittenRecord(I)
      BY <2>2, ElementOfSeq
    <3>3. w[k].id \in I
      BY <3>2 DEF WrittenRecord
    <3>. QED  BY <1>2, <1>9, <2>2, <3>1, <3>3
  <2>. QED  BY <1>1, <2>1, <2>2
<1>15. Reads(g, v, I)
  BY <1>12, ReadsPointwise
<1>. QED  BY <1>1, <1>9, <1>13, <1>14, <1>15 DEF RightSoFar

\* An item more is read as the pages of its kids, the rest as before.
ReadOn(f, x, v, I) ==
    \E g : /\ RightSoFar(g, v, I)
           /\ g[x.id] = PagesUpTo(f, x.kids, Len(x.kids))
           /\ \A id \in I : id # x.id => g[id] = f[id]

LEMMA OneMore ==
    ASSUME NEW I, I \subseteq Nat, NEW w \in Seq(WrittenRecord(I)), NEW f, RightSoFar(f, w, I),
           NEW x \in WrittenRecord(I), x.id \notin IDsOf(w),
           \A k \in 1 .. Len(w) : x.id \notin ToSet(w[k].kids), x.id \notin ToSet(x.kids),
           x.count = Len(PagesUpTo(f, x.kids, Len(x.kids))),
           NEW v, v = Append(w, x)
    PROVE  ReadOn(f, x, v, I)
<1>1. PICK g : g = [id \in I |-> IF id = x.id THEN PagesUpTo(f, x.kids, Len(x.kids))
                                 ELSE f[id]]
  OBVIOUS
<1>2. RightSoFar(g, v, I)
  BY <1>1, ItemRead
<1>3. x.id \in I
  BY DEF WrittenRecord
<1>4. g[x.id] = PagesUpTo(f, x.kids, Len(x.kids)) /\ \A id \in I : id # x.id => g[id] = f[id]
  BY <1>1, <1>3
<1>. QED  BY <1>2, <1>4 DEF ReadOn

\* Nothing is written yet.
LEMMA NothingRead ==
    ASSUME NEW I, I \subseteq Nat, NEW w, w = <<>>
    PROVE  \E f : RightSoFar(f, w, I)
<1>1. PICK f : f = [id \in I |-> <<id>>]
  OBVIOUS
<1>2. Len(w) = 0 /\ (\A k \in 1 .. 0 : FALSE) /\ 1 .. Len(w) = {}
  OBVIOUS
<1>3. IDsOf(w) = {} /\ OneEach(w) /\ \A k \in 1 .. Len(w) : w[k].count = Len(f[w[k].id])
  BY <1>2 DEF IDsOf, OneEach
<1>4. \A h, id : Reading(h, w, id) = <<id>>
  BY <1>3 DEF Reading
<1>5. \A h : Reads(h, w, I) => h = f
  BY <1>1, <1>4 DEF Reads
<1>6. Reads(f, w, I)
  BY <1>1, <1>4 DEF Reads
<1>7. f \in [I -> Seq(Nat)]
  <2>1. \A id \in I : <<id>> \in Seq(Nat)
    BY ShortLists
  <2>. QED  BY <1>1, <2>1
<1>. QED  BY <1>3, <1>5, <1>6, <1>7 DEF RightSoFar

-----------------------------------------------------------------------------
(***************************************************************************)
(* The tree grows, and nothing is written.                                 *)
(***************************************************************************)
WritingFits(r, f) ==
    /\ Grounded(r) /\ Stacked(r) /\ WrittenFits(r)
    /\ RightSoFar(f, written, ObjectIDs) /\ Totalled(f)

WInv ==
    /\ TInv /\ Numbered /\ CallFits /\ WritingTyped
    /\ pc \in {"write", "combine"} => \E r, f : WritingFits(r, f)
    /\ WrittenTreeIsRight

\* The numbers a step meets.
NumbersFit ==
    /\ nextID \in Nat \ {0} /\ originalCount \in Nat /\ originalCount + 2 <= nextID
    /\ DOMAIN nodes \subseteq 1 .. nextID - 1
    /\ \A n \in DOMAIN nodes :
          /\ n > originalCount + 1 /\ nodes[n].kids \in Seq(Nat)
          /\ Len(nodes[n].kids) <= PAGE_TREE_LEVEL_SIZE
          /\ \A k \in 1 .. Len(nodes[n].kids) :
                /\ nodes[n].kids[k] \in 1 .. nextID - 1 /\ nodes[n].kids[k] > originalCount + 1
                /\ nodes[n].isLeafParent => nodes[n].kids[k] \notin DOMAIN nodes

LEMMA NumbersAre == ASSUME Shape, Numbered, CallFits PROVE NumbersFit
BY DEF Shape, NodeShape, NodeRecord, Numbered, KidsFit, CallFits, NumbersFit

\* What is left to show of a step after which pages may go on being added.
LEMMA GrowingStep ==
    ASSUME PInv', Growing', UNCHANGED <<frames, combinedRoot, written, originalCount>>,
           \A n \in DOMAIN nodes' : KidsFit(n)',
           CallFits, Growing, Shape, nextID <= nextID',
           page' \in ObjectIDs' \cup {0}, at' \in DOMAIN nodes' \cup {NoNode}, returns' \in Nat,
           pc' = "climb" => page' > originalCount + 1 /\ page' \notin DOMAIN nodes'
    PROVE  /\ Numbered' /\ CallFits' /\ WritingTyped'
           /\ pc' \notin {"write", "combine"}
           /\ WrittenTreeIsRight'
<1>1. Shape' /\ Links'
  BY DEF PInv
<1>2. ASSUME NEW n \in DOMAIN nodes'
      PROVE  nodes'[n].parent \in ObjectIDs' \cup {NoNode}
  <2>1. nodes'[n].parent = NoNode \/ nodes'[n].parent \in DOMAIN nodes'
    BY <1>1 DEF Links, ParentListsKid, Inner
  <2>. QED  BY <1>1, <2>1 DEF Shape, NodeShape, ObjectIDs
<1>3. Numbered'
  BY <1>2 DEF Numbered
<1>4. frames' = <<>> /\ combinedRoot' = NoNode /\ written' = <<>>
  BY DEF CallFits
<1>5. CallFits'
  <2>1. originalCount' \in Nat /\ originalCount' + 2 <= nextID'
    BY <1>1 DEF CallFits, Shape
  <2>2. pc' \in {"idle", "climb"}
    BY DEF Growing
  <2>. QED  BY <1>4, <2>1, <2>2 DEF CallFits
<1>6. WritingTyped'
  <2>1. \A S : <<>> \in Seq(S)
    OBVIOUS
  <2>. QED  BY <1>4, <2>1 DEF WritingTyped
<1>7. pc' \notin {"write", "combine"} /\ pc' # "written"
  BY DEF Growing
<1>. QED  BY <1>3, <1>5, <1>6, <1>7 DEF WrittenTreeIsRight

LEMMA AddFirstPageFits ==
    ASSUME WInv, TInv', AddFirstPage
    PROVE  WInv'
<1>1. /\ TInv /\ PInv /\ Shape /\ Numbered /\ CallFits /\ NumbersFit /\ PInv'
  <2>1. Shape /\ Numbered /\ CallFits /\ TInv /\ PInv /\ PInv'
    BY DEF WInv, TInv, PInv
  <2>. QED  BY <2>1, NumbersAre
<1>2. /\ pc = "idle" /\ pc' = "idle" /\ nextID' = nextID + 2
      /\ nodes' = AppendPage(nextID + 1, nextID, [m \in {nextID + 1} |-> NewNode(NoNode)])
      /\ UNCHANGED <<frames, combinedRoot, written, page, at, returns, originalCount>>
      /\ current = NoNode
  BY DEF AddFirstPage, PageAdded, writing
<1>3. PICK id \in Nat, n \in Nat : id = nextID /\ n = nextID + 1
  BY <1>1 DEF NumbersFit
<1>4. PICK kids \in Seq(Nat) : kids = <<id>> /\ kids = Append(<<>>, id)
  BY <1>3, ShortLists
<1>5. /\ DOMAIN nodes' = {n}
      /\ nodes'[n] = [parent |-> NoNode, isLeafParent |-> TRUE, kids |-> kids]
  BY <1>2, <1>3, <1>4 DEF AppendPage, NewNode
<1>6. Len(kids) = 1 /\ kids[1] = id
  BY <1>4
<1>7. /\ n > originalCount + 1 /\ id > originalCount + 1 /\ id # n
      /\ 1 <= PAGE_TREE_LEVEL_SIZE /\ nextID <= nextID'
  <2>1. /\ nextID \in Nat /\ originalCount \in Nat /\ originalCount + 2 <= nextID
        /\ PAGE_TREE_LEVEL_SIZE \in Nat \ {0, 1}
    BY <1>1, PageTreeAssumption DEF NumbersFit
  <2>. QED  BY <1>2, <1>3, <2>1
<1>8. \A m \in DOMAIN nodes' : KidsFit(m)'
  <2>1. \A k \in 1 .. 1 : k = 1
    OBVIOUS
  <2>2. originalCount' = originalCount
    BY <1>2
  <2>3. nodes'[n].kids = kids
    BY <1>5
  <2>4. \A k \in 1 .. Len(kids) : kids[k] = id
    BY <1>6, <2>1
  <2>5. id \notin DOMAIN nodes' /\ Len(kids) <= PAGE_TREE_LEVEL_SIZE
    BY <1>5, <1>6, <1>7
  <2>6. KidsFit(n)'
    BY <1>7, <2>2, <2>3, <2>4, <2>5 DEF KidsFit
  <2>. QED  BY <1>5, <2>6
<1>9. at' \in DOMAIN nodes' \cup {NoNode}
  <2>1. DOMAIN nodes = {}
    <3>1. PICK h : Levels(h)
      BY <1>1, <1>2 DEF TInv, Growing
    <3>. QED  BY <1>2, <3>1 DEF Levels, Begun
  <2>. QED  BY <1>1, <1>2, <2>1 DEF CallFits
<1>10. page' \in ObjectIDs' \cup {0} /\ returns' \in Nat
  <2>1. page \in 1 .. nextID - 1 \cup {0} /\ returns \in Nat /\ nextID \in Nat
    BY <1>1 DEF CallFits, ObjectIDs, NumbersFit
  <2>2. page' \in 1 .. nextID' - 1 \cup {0}
    BY <1>2, <2>1
  <2>. QED  BY <1>2, <2>1, <2>2 DEF ObjectIDs
<1>11. Growing /\ Growing' /\ pc' # "climb"
  BY <1>2 DEF Growing
<1>12. /\ Numbered' /\ CallFits' /\ WritingTyped'
       /\ pc' \notin {"write", "combine"}
       /\ WrittenTreeIsRight'
  <2>1. UNCHANGED <<frames, combinedRoot, written, originalCount>>
    BY <1>2
  <2>. QED  BY <1>1, <1>7, <1>8, <1>9, <1>10, <1>11, <2>1, GrowingStep
<1>. QED  BY <1>12 DEF WInv

LEMMA AddPageToCurrentFits ==
    ASSUME WInv, TInv', AddPageToCurrent
    PROVE  WInv'
<1>1. /\ TInv /\ PInv /\ Shape /\ Numbered /\ CallFits /\ NumbersFit /\ PInv'
  <2>1. Shape /\ Numbered /\ CallFits /\ TInv /\ PInv /\ PInv'
    BY DEF WInv, TInv, PInv
  <2>. QED  BY <2>1, NumbersAre
<1>2. /\ pc = "idle" /\ pc' = "idle" /\ nextID' = nextID + 1
      /\ nodes' = AppendPage(current, nextID, nodes)
      /\ UNCHANGED <<frames, combinedRoot, written, page, at, returns, originalCount>>
      /\ current # NoNode /\ HasRoom(current)
  BY DEF AddPageToCurrent, PageAdded, writing
<1>3. PICK c \in DOMAIN nodes \ Inner : c = current /\ nodes[c] \in NodeRecord
  BY <1>1, <1>2 DEF Shape, NodeShape
<1>4. PICK kids \in Seq(Nat) : kids = nodes[c].kids
  BY <1>3 DEF NodeRecord
<1>5. PICK id \in Nat : id = nextID
  BY <1>1 DEF NumbersFit
<1>6. PICK more : more = Append(kids, id)
  OBVIOUS
<1>60. /\ Len(more) = Len(kids) + 1 /\ more[Len(kids) + 1] = id
       /\ \A k \in 1 .. Len(kids) : more[k] = kids[k]
  BY <1>6, AppendProperties
<1>7. /\ DOMAIN nodes' = DOMAIN nodes
      /\ nodes'[c].kids = more
      /\ \A n \in DOMAIN nodes \ {c} : nodes'[n] = nodes[n]
  BY <1>2, <1>3, <1>4, <1>5, <1>6 DEF AppendPage, NodeRecord
<1>8. KidsFit(c)'
  <2>1. originalCount' = originalCount /\ c > originalCount + 1
    BY <1>1, <1>2, <1>3 DEF NumbersFit
  <2>2. /\ Len(kids) \in Nat /\ Len(kids) < PAGE_TREE_LEVEL_SIZE
        /\ PAGE_TREE_LEVEL_SIZE \in Nat
    BY <1>2, <1>3, <1>4, PageTreeAssumption, LenProperties DEF HasRoom
  <2>3. Len(more) <= PAGE_TREE_LEVEL_SIZE
    BY <1>60, <2>2
  <2>4. id > originalCount + 1 /\ id \notin DOMAIN nodes
    BY <1>1, <1>5 DEF NumbersFit
  <2>5. nodes[c].isLeafParent = TRUE
    BY <1>3 DEF Inner, NodeRecord
  <2>6. \A k \in 1 .. Len(kids) : kids[k] > originalCount + 1 /\ kids[k] \notin DOMAIN nodes
    BY <1>1, <1>3, <1>4, <2>5 DEF NumbersFit
  <2>7. \A k \in 1 .. Len(more) : k \in 1 .. Len(kids) \/ k = Len(kids) + 1
    BY <1>60, <2>2
  <2>8. \A k \in 1 .. Len(more) : more[k] > originalCount + 1 /\ more[k] \notin DOMAIN nodes
    BY <1>60, <2>4, <2>6, <2>7
  <2>. QED  BY <1>7, <2>1, <2>3, <2>8 DEF KidsFit
<1>9. \A m \in DOMAIN nodes' : KidsFit(m)'
  <2>1. ASSUME NEW m \in DOMAIN nodes \ {c}
        PROVE  KidsFit(m)'
    <3>1. KidsFit(m) /\ nodes'[m] = nodes[m] /\ originalCount' = originalCount
      BY <1>1, <1>2, <1>7 DEF Numbered
    <3>. QED  BY <1>7, <3>1 DEF KidsFit
  <2>. QED  BY <1>7, <1>8, <2>1
<1>10. /\ page' \in ObjectIDs' \cup {0} /\ returns' \in Nat /\ nextID <= nextID'
       /\ at' \in DOMAIN nodes' \cup {NoNode}
  <2>1. page \in 1 .. nextID - 1 \cup {0} /\ returns \in Nat /\ nextID \in Nat
    BY <1>1 DEF CallFits, ObjectIDs, NumbersFit
  <2>2. page' \in 1 .. nextID' - 1 \cup {0} /\ nextID <= nextID'
    BY <1>2, <2>1
  <2>. QED  BY <1>1, <1>2, <1>7, <2>1, <2>2 DEF ObjectIDs, CallFits
<1>11. Growing /\ Growing' /\ pc' # "climb"
  BY <1>2 DEF Growing
<1>12. /\ Numbered' /\ CallFits' /\ WritingTyped'
       /\ pc' \notin {"write", "combine"}
       /\ WrittenTreeIsRight'
  <2>1. UNCHANGED <<frames, combinedRoot, written, originalCount>>
    BY <1>2
  <2>. QED  BY <1>1, <1>9, <1>10, <1>11, <2>1, GrowingStep
<1>. QED  BY <1>12 DEF WInv

\* A step that leaves the nodes alone, and at most gives an ID.
LEMMA SameNodesFit ==
    ASSUME WInv, TInv', Growing, Growing', UNCHANGED <<nodes, writing, originalCount>>,
           nextID <= nextID',
           page' \in ObjectIDs' \cup {0}, at' \in DOMAIN nodes \cup {NoNode}, returns' \in Nat,
           pc' = "climb" => page' > originalCount + 1 /\ page' \notin DOMAIN nodes
    PROVE  WInv'
<1>1. Shape /\ Numbered /\ CallFits /\ PInv'
  BY DEF WInv, TInv, PInv
<1>2. UNCHANGED <<nodes, frames, combinedRoot, written, originalCount>>
  BY DEF writing
<1>3. \A n \in DOMAIN nodes' : KidsFit(n)'
  BY <1>1, <1>2 DEF Numbered, KidsFit
<1>4. /\ Numbered' /\ CallFits' /\ WritingTyped'
      /\ pc' \notin {"write", "combine"}
      /\ WrittenTreeIsRight'
  <2>1. at' \in DOMAIN nodes' \cup {NoNode}
        /\ (pc' = "climb" => page' > originalCount + 1 /\ page' \notin DOMAIN nodes')
    BY <1>2
  <2>2. UNCHANGED <<frames, combinedRoot, written, originalCount>>
    BY <1>2
  <2>. QED  BY <1>1, <1>3, <2>1, <2>2, GrowingStep
<1>. QED  BY <1>4 DEF WInv

LEMMA StartAddingPageFits ==
    ASSUME WInv, TInv', StartAddingPage
    PROVE  WInv'
<1>1. /\ TInv /\ PInv /\ Shape /\ Numbered /\ CallFits /\ NumbersFit
  <2>1. Shape /\ Numbered /\ CallFits /\ TInv /\ PInv
    BY DEF WInv, TInv, PInv
  <2>. QED  BY <2>1, NumbersAre
<1>2. /\ pc = "idle" /\ pc' = "climb" /\ nextID' = nextID + 1 /\ page' = nextID
      /\ at' = current /\ returns' = 0 /\ current # NoNode
      /\ UNCHANGED <<nodes, writing, originalCount>>
  BY DEF StartAddingPage
<1>3. Growing /\ Growing'
  BY <1>2 DEF Growing
<1>4. current \in DOMAIN nodes
  BY <1>1, <1>2 DEF Shape
<1>5. /\ nextID <= nextID' /\ page' \in ObjectIDs' \cup {0} /\ returns' \in Nat
      /\ page' > originalCount + 1 /\ page' \notin DOMAIN nodes
  <2>1. /\ nextID \in Nat \ {0} /\ originalCount \in Nat /\ originalCount + 2 <= nextID
        /\ nextID \notin DOMAIN nodes
    BY <1>1 DEF NumbersFit
  <2>2. nextID <= nextID' /\ nextID \in 1 .. nextID' - 1 /\ nextID > originalCount + 1
    BY <1>2, <2>1
  <2>. QED  BY <1>2, <2>1, <2>2 DEF ObjectIDs
<1>. QED  BY <1>2, <1>3, <1>4, <1>5, SameNodesFit

LEMMA ClimbToParentFits ==
    ASSUME WInv, TInv', ClimbToParent
    PROVE  WInv'
<1>1. /\ TInv /\ PInv /\ Shape /\ CallFits /\ Climb
  BY DEF WInv, TInv, PInv
<1>2. /\ pc = "climb" /\ pc' = "climb" /\ at' = nodes[at].parent /\ nodes[at].parent # NoNode
      /\ returns' = ReturnsAfterClimb
      /\ UNCHANGED <<nodes, nextID, page, writing, originalCount>>
  BY DEF ClimbToParent, Climbing, tree, GetParent
<1>3. Growing /\ Growing' /\ Links
  BY <1>1, <1>2 DEF Growing, PInv
<1>4. at \in DOMAIN nodes /\ nodes[at].parent \in DOMAIN nodes
  BY <1>1, <1>2, <1>3 DEF Climb, Links, ParentListsKid, Inner
<1>5. returns' \in Nat
  <2>1. returns \in Nat
    BY <1>1 DEF CallFits
  <2>. QED  BY <1>2, <2>1 DEF ReturnsAfterClimb
<1>6. /\ nextID <= nextID' /\ page' \in ObjectIDs' \cup {0}
      /\ page' > originalCount + 1 /\ page' \notin DOMAIN nodes
  <2>1. nextID \in Nat /\ nextID' = nextID
    BY <1>1, <1>2 DEF Shape
  <2>2. nextID <= nextID'
    BY <2>1
  <2>. QED  BY <1>1, <1>2, <2>2 DEF CallFits, ObjectIDs
<1>. QED  BY <1>2, <1>3, <1>4, <1>5, <1>6, SameNodesFit

LEMMA ClimbToNewParentFits ==
    ASSUME WInv, TInv', ClimbToNewParent
    PROVE  WInv'
<1>1. /\ TInv /\ PInv /\ Shape /\ Numbered /\ CallFits /\ NumbersFit /\ Climb /\ PInv'
  <2>1. Shape /\ Numbered /\ CallFits /\ TInv /\ PInv /\ Climb /\ PInv'
    BY DEF WInv, TInv, PInv
  <2>. QED  BY <2>1, NumbersAre
<1>2. /\ pc = "climb" /\ pc' = "climb" /\ nextID' = nextID + 1 /\ at' = nextID
      /\ returns' = ReturnsAfterClimb
      /\ UNCHANGED <<frames, combinedRoot, written, page, originalCount>>
  BY DEF ClimbToNewParent, Climbing, writing
<1>3. PICK a \in DOMAIN nodes : a = at
  BY <1>1, <1>2 DEF Climb
<1>4. PICK id \in Nat \ {0} : id = nextID
  BY <1>1 DEF NumbersFit
<1>5. nodes[a] \in NodeRecord /\ id \notin DOMAIN nodes /\ a \in 1 .. id - 1 /\ a \in Nat
      /\ a > originalCount + 1
  BY <1>1, <1>3, <1>4 DEF NumbersFit, Shape, NodeShape
<1>6. PICK list \in Seq(Nat) : list = <<a>>
  BY <1>5, ShortLists
<1>7. Len(list) = 1 /\ list[1] = a
  BY <1>6
<1>8. PICK parent : parent = [NewNode(NoNode) EXCEPT !.isLeafParent = FALSE, !.kids = <<at>>]
  OBVIOUS
<1>9. parent.isLeafParent = FALSE /\ parent.kids = list
  BY <1>3, <1>6, <1>8 DEF NewNode
<1>10. PICK node : node = [nodes[at] EXCEPT !.parent = nextID]
  OBVIOUS
<1>11. node.isLeafParent = nodes[a].isLeafParent /\ node.kids = nodes[a].kids
  BY <1>3, <1>5, <1>10 DEF NodeRecord
<1>12. /\ DOMAIN nodes' = DOMAIN nodes \cup {id}
       /\ nodes'[id] = parent /\ nodes'[a] = node
       /\ \A n \in DOMAIN nodes \ {a} : nodes'[n] = nodes[n]
  BY <1>3, <1>4, <1>5, <1>8, <1>10 DEF ClimbToNewParent
<1>13. \A n \in DOMAIN nodes : /\ nodes'[n].kids = nodes[n].kids
                               /\ nodes'[n].isLeafParent = nodes[n].isLeafParent
  BY <1>11, <1>12
<1>14. ASSUME NEW n \in DOMAIN nodes
       PROVE  KidsFit(n)'
  <2>1. /\ KidsFit(n) /\ originalCount' = originalCount
        /\ \A k \in 1 .. Len(nodes[n].kids) : nodes[n].kids[k] # id
    BY <1>1, <1>2, <1>4 DEF Numbered, NumbersFit
  <2>. QED  BY <1>12, <1>13, <2>1 DEF KidsFit
<1>15. KidsFit(id)'
  <2>1. originalCount' = originalCount /\ id > originalCount + 1
    BY <1>1, <1>2, <1>4 DEF NumbersFit
  <2>2. 1 <= PAGE_TREE_LEVEL_SIZE
    BY PageTreeAssumption
  <2>3. nodes'[id].kids = list /\ nodes'[id].isLeafParent = FALSE
    BY <1>9, <1>12
  <2>4. \A k \in 1 .. 1 : k = 1
    OBVIOUS
  <2>5. \A k \in 1 .. Len(list) : list[k] > originalCount + 1
    BY <1>5, <1>7, <2>4
  <2>. QED  BY <1>7, <2>1, <2>2, <2>3, <2>5 DEF KidsFit
<1>16. \A n \in DOMAIN nodes' : KidsFit(n)'
  BY <1>12, <1>14, <1>15
<1>17. /\ page' \in ObjectIDs' \cup {0} /\ nextID <= nextID'
       /\ at' \in DOMAIN nodes' \cup {NoNode}
       /\ page' > originalCount + 1 /\ page' \notin DOMAIN nodes'
  <2>1. /\ page \in 1 .. nextID - 1 /\ nextID \in Nat
        /\ page > originalCount + 1 /\ page \notin DOMAIN nodes
    BY <1>1, <1>2 DEF CallFits, Climb, NumbersFit
  <2>2. page' \in 1 .. nextID' - 1 /\ nextID <= nextID' /\ page # id
    BY <1>2, <1>4, <2>1
  <2>. QED  BY <1>2, <1>4, <1>12, <2>1, <2>2 DEF ObjectIDs
<1>18. returns' \in Nat
  <2>1. returns \in Nat
    BY <1>1 DEF CallFits
  <2>. QED  BY <1>2, <2>1 DEF ReturnsAfterClimb
<1>19. Growing /\ Growing'
  BY <1>2 DEF Growing
<1>20. /\ Numbered' /\ CallFits' /\ WritingTyped'
       /\ pc' \notin {"write", "combine"}
       /\ WrittenTreeIsRight'
  <2>1. UNCHANGED <<frames, combinedRoot, written, originalCount>>
    BY <1>2
  <2>. QED  BY <1>1, <1>16, <1>17, <1>18, <1>19, <2>1, GrowingStep
<1>. QED  BY <1>20 DEF WInv

\* The node that gets a child has room for it.
LEMMA ChildFits ==
    ASSUME NumbersFit, at \in DOMAIN nodes, HasRoom(at), NEW list \in Seq(Nat),
           Len(list) <= PAGE_TREE_LEVEL_SIZE,
           \A k \in 1 .. Len(list) : /\ list[k] \in 1 .. nextID - 1
                                     /\ list[k] > originalCount + 1
                                     /\ list[k] \notin DOMAIN nodes,
           nextID' = nextID + 1, originalCount' = originalCount, ChildBelow(list)
    PROVE  \A n \in DOMAIN nodes' : KidsFit(n)'
<1>1. PICK a \in DOMAIN nodes, id \in Nat \ {0} : a = at /\ id = nextID
  BY DEF NumbersFit
<1>2. id \notin DOMAIN nodes /\ id > originalCount + 1 /\ a > originalCount + 1
  BY <1>1 DEF NumbersFit
<1>3. PICK kids \in Seq(Nat) : kids = nodes[a].kids
  BY <1>1 DEF NumbersFit
<1>4. PICK more : more = Append(kids, id)
  OBVIOUS
<1>5. /\ Len(more) = Len(kids) + 1 /\ more[Len(kids) + 1] = id /\ Len(kids) \in Nat
      /\ \A k \in 1 .. Len(kids) : more[k] = kids[k]
  BY <1>4, AppendProperties, LenProperties
<1>6. /\ DOMAIN nodes' = DOMAIN nodes \cup {id}
      /\ nodes'[id].kids = list
      /\ nodes'[a].isLeafParent = FALSE /\ nodes'[a].kids = more
      /\ \A n \in DOMAIN nodes \ {a} : nodes'[n] = nodes[n]
  BY <1>1, <1>3, <1>4 DEF ChildBelow
<1>7. KidsFit(a)'
  <2>1. Len(more) <= PAGE_TREE_LEVEL_SIZE
    <3>1. Len(kids) < PAGE_TREE_LEVEL_SIZE /\ PAGE_TREE_LEVEL_SIZE \in Nat
      BY <1>1, <1>3, PageTreeAssumption DEF HasRoom
    <3>. QED  BY <1>5, <3>1
  <2>2. \A k \in 1 .. Len(more) : k \in 1 .. Len(kids) \/ k = Len(kids) + 1
    BY <1>5
  <2>3. \A k \in 1 .. Len(kids) : kids[k] > originalCount + 1
    BY <1>1, <1>3 DEF NumbersFit
  <2>4. \A k \in 1 .. Len(more) : more[k] > originalCount + 1
    BY <1>2, <1>5, <2>2, <2>3
  <2>. QED  BY <1>2, <1>6, <2>1, <2>4 DEF KidsFit
<1>8. KidsFit(id)'
  <2>1. \A k \in 1 .. Len(list) : list[k] > originalCount + 1 /\ list[k] \notin DOMAIN nodes'
    BY <1>1, <1>6
  <2>. QED  BY <1>2, <1>6, <2>1 DEF KidsFit
<1>9. ASSUME NEW n \in DOMAIN nodes \ {a}
      PROVE  KidsFit(n)'
  <2>1. /\ nodes'[n] = nodes[n] /\ Len(nodes[n].kids) <= PAGE_TREE_LEVEL_SIZE
        /\ n > originalCount + 1
        /\ \A k \in 1 .. Len(nodes[n].kids) :
              /\ nodes[n].kids[k] # id /\ nodes[n].kids[k] > originalCount + 1
              /\ nodes[n].isLeafParent => nodes[n].kids[k] \notin DOMAIN nodes
    BY <1>1, <1>6 DEF NumbersFit
  <2>. QED  BY <1>6, <2>1 DEF KidsFit
<1>. QED  BY <1>6, <1>7, <1>8, <1>9

LEMMA CreateBrotherFits ==
    ASSUME WInv, TInv', CreateBrother
    PROVE  WInv'
<1>1. /\ TInv /\ PInv /\ Shape /\ Numbered /\ CallFits /\ NumbersFit /\ Climb /\ PInv'
  <2>1. Shape /\ Numbered /\ CallFits /\ TInv /\ PInv /\ Climb /\ PInv'
    BY DEF WInv, TInv, PInv
  <2>. QED  BY <2>1, NumbersAre
<1>2. /\ pc = "climb" /\ pc' = "climb" /\ nextID' = nextID + 1 /\ at' = nextID
      /\ returns' = returns - 1 /\ returns > 0 /\ HasRoom(at) /\ nodes' = WithChild(nextID)
      /\ UNCHANGED <<frames, combinedRoot, written, page, originalCount>>
  BY DEF CreateBrother, CanCreateChild, writing
<1>3. at \in DOMAIN nodes
  BY <1>1, <1>2 DEF Climb
<1>4. ChildBelow(<<>>)
  BY <1>1, <1>2, <1>3, WithChildIs
<1>5. \A n \in DOMAIN nodes' : KidsFit(n)'
  <2>1. PICK none \in Seq(Nat) : none = <<>> /\ Len(none) = 0
    BY ShortLists
  <2>2. Len(none) <= PAGE_TREE_LEVEL_SIZE
    BY <2>1, PageTreeAssumption
  <2>3. \A k \in 1 .. Len(none) : FALSE
    BY <2>1
  <2>4. ChildBelow(none) /\ nextID' = nextID + 1 /\ originalCount' = originalCount /\ HasRoom(at)
    BY <1>2, <1>4, <2>1
  <2>. QED  BY <1>1, <1>3, <2>2, <2>3, <2>4, ChildFits
<1>6. DOMAIN nodes' = DOMAIN nodes \cup {nextID}
  BY <1>4 DEF ChildBelow
<1>7. /\ page' \in ObjectIDs' \cup {0} /\ nextID <= nextID'
      /\ at' \in DOMAIN nodes' \cup {NoNode}
      /\ page' > originalCount + 1 /\ page' \notin DOMAIN nodes'
  <2>1. /\ page \in 1 .. nextID - 1 /\ nextID \in Nat
        /\ page > originalCount + 1 /\ page \notin DOMAIN nodes
    BY <1>1, <1>2 DEF CallFits, Climb, NumbersFit
  <2>2. page' \in 1 .. nextID' - 1 /\ nextID <= nextID' /\ page # nextID
    BY <1>2, <2>1
  <2>. QED  BY <1>2, <1>6, <2>1, <2>2 DEF ObjectIDs
<1>8. returns' \in Nat
  <2>1. returns \in Nat
    BY <1>1 DEF CallFits
  <2>. QED  BY <1>2, <2>1
<1>9. Growing /\ Growing'
  BY <1>2 DEF Growing
<1>10. /\ Numbered' /\ CallFits' /\ WritingTyped'
       /\ pc' \notin {"write", "combine"}
       /\ WrittenTreeIsRight'
  <2>1. UNCHANGED <<frames, combinedRoot, written, originalCount>>
    BY <1>2
  <2>. QED  BY <1>1, <1>5, <1>7, <1>8, <1>9, <2>1, GrowingStep
<1>. QED  BY <1>10 DEF WInv

LEMMA CreateBrotherAndAddPageFits ==
    ASSUME WInv, TInv', CreateBrotherAndAddPage
    PROVE  WInv'
<1>1. /\ TInv /\ PInv /\ Shape /\ Numbered /\ CallFits /\ NumbersFit /\ Climb /\ PInv'
  <2>1. Shape /\ Numbered /\ CallFits /\ TInv /\ PInv /\ Climb /\ PInv'
    BY DEF WInv, TInv, PInv
  <2>. QED  BY <2>1, NumbersAre
<1>2. /\ pc = "climb" /\ pc' = "idle" /\ nextID' = nextID + 1 /\ HasRoom(at)
      /\ nodes' = AppendPage(nextID, page, WithChild(nextID))
      /\ UNCHANGED <<frames, combinedRoot, written, page, at, returns, originalCount>>
  BY DEF CreateBrotherAndAddPage, CanCreateChild, PageAdded, writing
<1>3. at \in DOMAIN nodes
  BY <1>1, <1>2 DEF Climb
<1>4. PICK p \in Nat : /\ p = page /\ p \in 1 .. nextID - 1
                       /\ p > originalCount + 1 /\ p \notin DOMAIN nodes
  BY <1>1, <1>2 DEF CallFits, Climb, NumbersFit
<1>5. ChildBelow(<<page>>)
  BY <1>1, <1>2, <1>3, <1>4, ChildTakesPage
<1>6. \A n \in DOMAIN nodes' : KidsFit(n)'
  <2>1. PICK list \in Seq(Nat) : list = <<p>>
    BY <1>4, ShortLists
  <2>2. Len(list) = 1 /\ list[1] = p
    BY <2>1
  <2>3. Len(list) <= PAGE_TREE_LEVEL_SIZE
    BY <2>2, PageTreeAssumption
  <2>4. \A k \in 1 .. Len(list) : list[k] = p
    <3>1. \A k \in 1 .. 1 : k = 1
      OBVIOUS
    <3>. QED  BY <2>2, <3>1
  <2>5. ChildBelow(list) /\ nextID' = nextID + 1 /\ originalCount' = originalCount /\ HasRoom(at)
    BY <1>2, <1>4, <1>5, <2>1
  <2>. QED  BY <1>1, <1>3, <1>4, <2>3, <2>4, <2>5, ChildFits
<1>7. DOMAIN nodes' = DOMAIN nodes \cup {nextID}
  BY <1>5 DEF ChildBelow
<1>8. /\ page' \in ObjectIDs' \cup {0} /\ nextID <= nextID'
      /\ at' \in DOMAIN nodes' \cup {NoNode} /\ returns' \in Nat
  <2>1. nextID \in Nat
    BY <1>1 DEF NumbersFit
  <2>2. page' \in 1 .. nextID' - 1 /\ nextID <= nextID'
    BY <1>2, <1>4, <2>1
  <2>. QED  BY <1>1, <1>2, <1>3, <1>7, <2>2 DEF ObjectIDs, CallFits
<1>9. Growing /\ Growing' /\ pc' # "climb"
  BY <1>2 DEF Growing
<1>10. /\ Numbered' /\ CallFits' /\ WritingTyped'
       /\ pc' \notin {"write", "combine"}
       /\ WrittenTreeIsRight'
  <2>1. UNCHANGED <<frames, combinedRoot, written, originalCount>>
    BY <1>2
  <2>. QED  BY <1>1, <1>6, <1>8, <1>9, <2>1, GrowingStep
<1>. QED  BY <1>10 DEF WInv

LEMMA ShutdownAndContinueFits ==
    ASSUME WInv, TInv', ShutdownAndContinue, nodes' = nodes
    PROVE  WInv'
<1>1. Shape /\ CallFits /\ NumbersFit
  <2>1. Shape /\ CallFits /\ Numbered
    BY DEF WInv, TInv, PInv
  <2>. QED  BY <2>1, NumbersAre
<1>2. /\ pc = "idle" /\ pc' = "idle"
      /\ UNCHANGED <<nodes, nextID, page, at, returns, writing, originalCount>>
  BY DEF ShutdownAndContinue
<1>3. Growing /\ Growing' /\ pc' # "climb"
  BY <1>2 DEF Growing
<1>4. nextID <= nextID'
  <2>1. nextID \in Nat /\ nextID' = nextID
    BY <1>1, <1>2 DEF Shape
  <2>. QED  BY <2>1
<1>5. page' \in ObjectIDs' \cup {0} /\ at' \in DOMAIN nodes \cup {NoNode} /\ returns' \in Nat
  BY <1>1, <1>2 DEF CallFits, ObjectIDs
<1>6. UNCHANGED <<nodes, writing, originalCount>>
  BY <1>2
<1>. QED  BY <1>3, <1>4, <1>5, <1>6, SameNodesFit

-----------------------------------------------------------------------------
(***************************************************************************)
(* Writing starts at the root.                                             *)
(***************************************************************************)
LEMMA InitWInv == Init => WInv
<1>. SUFFICES ASSUME Init PROVE WInv
  OBVIOUS
<1>1. /\ originalCount \in Nat /\ nextID = originalCount + 2
      /\ nodes = <<>> /\ pc = "idle" /\ page = 0 /\ at = NoNode /\ returns = 0
      /\ frames = <<>> /\ combinedRoot = NoNode /\ written = <<>>
  BY PageTreeAssumption DEF Init
<1>2. DOMAIN nodes = {}
  BY <1>1
<1>3. TInv
  BY InitTInv
<1>4. Numbered
  BY <1>2 DEF Numbered
<1>5. CallFits
  <2>1. originalCount + 2 <= nextID
    BY <1>1
  <2>. QED  BY <1>1, <2>1 DEF CallFits
<1>6. WritingTyped
  <2>1. \A S : <<>> \in Seq(S)
    OBVIOUS
  <2>. QED  BY <1>1, <2>1 DEF WritingTyped
<1>7. pc \notin {"write", "combine"} /\ WrittenTreeIsRight
  BY <1>1 DEF WrittenTreeIsRight
<1>. QED  BY <1>3, <1>4, <1>5, <1>6, <1>7 DEF WInv

LEMMA EndWithoutPagesFits ==
    ASSUME WInv, TInv', EndWithoutPages
    PROVE  WInv'
<1>1. Numbered /\ CallFits /\ WritingTyped
  BY DEF WInv
<1>2. /\ pc = "idle" /\ pc' = "written"
      /\ UNCHANGED <<nodes, nextID, page, at, returns, frames, combinedRoot, written,
                     originalCount>>
  BY DEF EndWithoutPages, tree, writing
<1>3. Growing /\ ~Growing'
  BY <1>2 DEF Growing
<1>4. written' = <<>> /\ Len(<<>>) = 0
  BY <1>1, <1>2, <1>3 DEF CallFits
<1>5. ObjectIDs' = ObjectIDs
  BY <1>2 DEF ObjectIDs
<1>6. Numbered' /\ CallFits' /\ WritingTyped'
  BY <1>1, <1>2, <1>3, <1>5 DEF Numbered, KidsFit, CallFits, WritingTyped, FrameRecord
<1>7. WrittenTreeIsRight'
  <2>1. \A k \in 1 .. Len(written') : FALSE
    BY <1>4
  <2>2. WrittenIDs' = {}
    BY <2>1 DEF WrittenIDs
  <2>3. Cardinality({}) = 0
    BY FS_EmptySet
  <2>4. Cardinality(WrittenIDs') = Len(written')
    BY <1>4, <2>2, <2>3
  <2>. QED  BY <2>1, <2>4 DEF WrittenTreeIsRight
<1>. QED  BY <1>2, <1>6, <1>7 DEF WInv

\* The first call, at the root, when nothing is written yet.
LEMMA FirstFrame ==
    ASSUME NEW r, Grounded(r)', pc' = "write", frames' = <<Frame(r)>>, written' = <<>>,
           nextID' \in Nat,
           \A n \in DOMAIN nodes' : nodes'[n].kids \in Seq(Nat)
    PROVE  (\E f : WritingFits(r, f)') /\ frames' \in Seq(FrameRecord')
<1>1. PICK frame : frame = Frame(r)
  OBVIOUS
<1>2. /\ frame \in FrameRecord' /\ frame.node = r /\ frame.kid = 1 /\ frame.total = 0
  BY <1>1 DEF Frame, FrameRecord, Grounded
<1>3. PICK fs : fs = <<frame>> /\ fs = frames'
  BY <1>1
<1>4. fs \in Seq(FrameRecord') /\ Len(fs) = 1 /\ fs[1] = frame
  BY <1>2, <1>3
<1>5. \A k \in 1 .. 1 : k = 1
  OBVIOUS
<1>6. \A i \in 1 .. Len(frames') : i = 1 /\ frames'[i] = frame
  BY <1>3, <1>4, <1>5
<1>7. \A k \in 1 .. Len(written') : FALSE
  <2>1. Len(<<>>) = 0
    OBVIOUS
  <2>. QED  BY <2>1
<1>8. WrittenIDs' = {}
  BY <1>7 DEF WrittenIDs
<1>9. r \in DOMAIN nodes'
  BY DEF Grounded
<1>10. Len(nodes'[r].kids) \in Nat
  BY <1>9, LenProperties
<1>11. FrameFits(1)'
  <2>1. 1 + 1 \notin 1 .. Len(frames')
    BY <1>3, <1>4
  <2>2. 1 <= Len(nodes'[r].kids) + 1 /\ \A k \in 1 .. Len(nodes'[r].kids) : ~(k < 1)
    BY <1>10
  <2>3. frames'[1].node = r /\ frames'[1].kid = 1
    BY <1>2, <1>3, <1>4
  <2>. QED  BY <1>8, <2>1, <2>2, <2>3 DEF FrameFits
<1>12. Stacked(r)'
  <2>1. Len(frames') # 0 /\ frames'[1].node = r
    BY <1>2, <1>3, <1>4
  <2>2. \A i, j \in 1 .. Len(frames') : i = j
    BY <1>6
  <2>3. \A i \in 1 .. Len(frames') : FrameFits(i)'
    BY <1>6, <1>11
  <2>. QED  BY <2>1, <2>2, <2>3 DEF Stacked
<1>13. WrittenFits(r)'
  BY <1>7, <1>8 DEF WrittenFits
<1>14. PICK f : RightSoFar(f, written', ObjectIDs')
  <2>1. PICK n \in Nat : n = nextID'
    OBVIOUS
  <2>2. \A i \in 1 .. n - 1 : i \in Nat
    OBVIOUS
  <2>3. ObjectIDs' \subseteq Nat
    BY <2>1, <2>2 DEF ObjectIDs
  <2>. QED  BY <2>3, NothingRead
<1>15. Totalled(f)'
  <2>1. PagesUpTo(f, nodes'[r].kids, 0) = <<>> /\ Len(<<>>) = 0
    BY NoPages
  <2>2. 1 - 1 = 0
    OBVIOUS
  <2>3. frame.total = Len(PagesUpTo(f, nodes'[frame.node].kids, frame.kid - 1))
    BY <1>2, <2>1, <2>2
  <2>. QED  BY <1>6, <2>3 DEF Totalled
<1>. QED  BY <1>3, <1>4, <1>12, <1>13, <1>14, <1>15 DEF WritingFits

\* The root is known, and is the kid of none.
LEMMA RootKnown ==
    ASSUME WInv, Growing, DocumentHasNewPages
    PROVE  /\ Root \in DOMAIN nodes /\ nodes[Root].parent = NoNode
           /\ \A n \in Inner : \A k \in 1 .. Len(nodes[n].kids) : nodes[n].kids[k] # Root
<1>1. PInv /\ Shape /\ Links
  BY DEF WInv, TInv, PInv
<1>2. PICK h : Levels(h)
  BY DEF WInv, TInv
<1>3. current # NoNode /\ current \in DOMAIN nodes
  BY <1>1 DEF DocumentHasNewPages, Shape
<1>4. PICK r : IsRoot(r, h)
  BY <1>1, <1>2, <1>3, RootOfTree
<1>5. Root = r
  BY <1>1, <1>2, <1>3, <1>4, RootIs
<1>6. r \in DOMAIN nodes /\ nodes[r].parent = NoNode
  BY <1>4 DEF IsRoot
<1>7. \A n \in Inner : n # NoNode
  BY <1>1 DEF Inner, Shape, NodeShape, NoNode
<1>8. \A n \in Inner : \A k \in 1 .. Len(nodes[n].kids) : nodes[n].kids[k] # r
  BY <1>1, <1>6, <1>7 DEF Links, KidsKnowParent
<1>. QED  BY <1>5, <1>6, <1>8

LEMMA StartWritingPagesTreeFits ==
    ASSUME WInv, TInv', StartWritingPagesTree
    PROVE  WInv'
<1>1. /\ Numbered /\ CallFits /\ WritingTyped /\ PInv /\ Shape
  BY DEF WInv, TInv, PInv
<1>2. /\ pc = "idle" /\ pc' = "write" /\ DocumentHasNewPages /\ frames' = <<Frame(Root)>>
      /\ UNCHANGED <<nodes, nextID, page, at, returns, combinedRoot, written, originalCount>>
  BY DEF StartWritingPagesTree, tree
<1>3. Growing /\ ~Growing'
  BY <1>2 DEF Growing
<1>4. PICK r : r = Root
  OBVIOUS
<1>5. /\ r \in DOMAIN nodes /\ nodes[r].parent = NoNode
  BY <1>2, <1>3, <1>4, RootKnown
<1>6. written' = <<>> /\ combinedRoot' = NoNode
  BY <1>1, <1>2, <1>3 DEF CallFits
<1>7. NoNode \notin DOMAIN nodes
  BY <1>1 DEF Shape, NodeShape, NoNode
<1>8. Inner' = Inner
  BY <1>2 DEF Inner
<1>9. Grounded(r)'
  <2>1. \A n \in Inner' : KidsKnowParent(n)'
    BY <1>1, <1>2, <1>3, <1>8 DEF PInv, Links, KidsKnowParent
  <2>2. \A n \in DOMAIN nodes' : IsInjective(nodes'[n].kids)
    BY <1>1, <1>2, <1>3 DEF PInv, Links
  <2>. QED  BY <1>2, <1>5, <1>6, <1>7, <2>1, <2>2 DEF Grounded
<1>10. (\E f : WritingFits(r, f)') /\ frames' \in Seq(FrameRecord')
  <2>1. nextID' \in Nat /\ \A n \in DOMAIN nodes' : nodes'[n].kids \in Seq(Nat)
    BY <1>1, <1>2 DEF Shape, NodeShape, NodeRecord
  <2>2. frames' = <<Frame(r)>>
    BY <1>2, <1>4
  <2>. QED  BY <1>2, <1>6, <1>9, <2>1, <2>2, FirstFrame
<1>11. ObjectIDs' = ObjectIDs
  BY <1>2 DEF ObjectIDs
<1>12. Numbered' /\ CallFits'
  BY <1>1, <1>2, <1>3, <1>11 DEF Numbered, KidsFit, CallFits
<1>13. WritingTyped'
  BY <1>1, <1>2, <1>10, <1>11 DEF WritingTyped
<1>14. WrittenTreeIsRight'
  BY <1>2 DEF WrittenTreeIsRight
<1>. QED  BY <1>10, <1>12, <1>13, <1>14 DEF WInv

LEMMA StartWritingCombinedFits ==
    ASSUME WInv, TInv', StartWritingCombined
    PROVE  WInv'
<1>1. /\ Numbered /\ CallFits /\ WritingTyped /\ PInv /\ Shape /\ NumbersFit
  <2>1. /\ Numbered /\ CallFits /\ WritingTyped /\ PInv /\ Shape
    BY DEF WInv, TInv, PInv
  <2>. QED  BY <2>1, NumbersAre
<1>2. /\ pc = "idle" /\ pc' = "write" /\ DocumentHasNewPages /\ frames' = <<Frame(Root)>>
      /\ combinedRoot' = nextID /\ nextID' = nextID + 1
      /\ nodes' = [nodes EXCEPT ![Root].parent = nextID]
      /\ UNCHANGED <<page, at, returns, written, originalCount>>
  BY DEF StartWritingCombined
<1>3. Growing /\ ~Growing'
  BY <1>2 DEF Growing
<1>4. PICK r : r = Root
  OBVIOUS
<1>5. /\ r \in DOMAIN nodes /\ nodes[r].parent = NoNode
      /\ \A n \in Inner : \A k \in 1 .. Len(nodes[n].kids) : nodes[n].kids[k] # r
  BY <1>2, <1>3, <1>4, RootKnown
<1>6. written' = <<>>
  BY <1>1, <1>2, <1>3 DEF CallFits
<1>7. PICK id \in Nat \ {0} : id = nextID
  BY <1>1 DEF NumbersFit
<1>8. \A n \in DOMAIN nodes : nodes[n] \in NodeRecord
  BY <1>1 DEF Shape, NodeShape
<1>9. /\ DOMAIN nodes' = DOMAIN nodes
      /\ \A n \in DOMAIN nodes : /\ nodes'[n].kids = nodes[n].kids
                                 /\ nodes'[n].isLeafParent = nodes[n].isLeafParent
      /\ nodes'[r].parent = id
      /\ \A n \in DOMAIN nodes \ {r} : nodes'[n].parent = nodes[n].parent
  BY <1>2, <1>4, <1>5, <1>7, <1>8 DEF NodeRecord
<1>10. Inner' = Inner
  BY <1>9 DEF Inner
<1>11. /\ id \notin DOMAIN nodes /\ id > originalCount + 1
       /\ \A n \in DOMAIN nodes : \A k \in 1 .. Len(nodes[n].kids) : nodes[n].kids[k] # id
  BY <1>1, <1>7 DEF NumbersFit
<1>12. Grounded(r)'
  <2>1. ASSUME NEW n \in Inner
        PROVE  KidsKnowParent(n)'
    <3>1. n \in DOMAIN nodes /\ KidsKnowParent(n)
      BY <1>1, <1>3 DEF Inner, PInv, Links
    <3>. QED  BY <1>5, <1>9, <3>1 DEF KidsKnowParent
  <2>2. \A n \in DOMAIN nodes' : IsInjective(nodes'[n].kids)
    BY <1>1, <1>3, <1>9 DEF PInv, Links
  <2>3. combinedRoot' = id /\ originalCount' = originalCount
    BY <1>2, <1>7
  <2>. QED  BY <1>5, <1>9, <1>10, <1>11, <2>1, <2>2, <2>3 DEF Grounded
<1>13. nextID' \in Nat /\ id \in 1 .. nextID' - 1 /\ \A i \in 1 .. id - 1 : i \in 1 .. nextID' - 1
  BY <1>2, <1>7
<1>14. (\E f : WritingFits(r, f)') /\ frames' \in Seq(FrameRecord')
  <2>1. \A n \in DOMAIN nodes' : nodes'[n].kids \in Seq(Nat)
    BY <1>8, <1>9 DEF NodeRecord
  <2>2. frames' = <<Frame(r)>>
    BY <1>2, <1>4
  <2>. QED  BY <1>2, <1>6, <1>12, <1>13, <2>1, <2>2, FirstFrame
<1>15. id \in ObjectIDs' /\ ObjectIDs \subseteq ObjectIDs'
  BY <1>7, <1>13 DEF ObjectIDs
<1>16. Numbered'
  <2>1. ASSUME NEW n \in DOMAIN nodes
        PROVE  KidsFit(n)' /\ nodes'[n].parent \in ObjectIDs' \cup {NoNode}
    <3>1. KidsFit(n)'
      <4>1. KidsFit(n) /\ originalCount' = originalCount
        BY <1>1, <1>2 DEF Numbered
      <4>. QED  BY <1>9, <4>1 DEF KidsFit
    <3>2. nodes[n].parent \in ObjectIDs \cup {NoNode}
      BY <1>1 DEF Numbered
    <3>. QED  BY <1>9, <1>15, <3>1, <3>2
  <2>. QED  BY <1>9, <2>1 DEF Numbered
<1>17. CallFits'
  <2>1. originalCount' + 2 <= nextID'
    <3>1. originalCount \in Nat /\ originalCount + 2 <= nextID
      BY <1>1 DEF NumbersFit
    <3>. QED  BY <1>2, <1>7, <3>1
  <2>. QED  BY <1>1, <1>2, <1>3, <1>9, <1>15, <2>1 DEF CallFits
<1>18. WritingTyped'
  <2>1. \A S : <<>> \in Seq(S)
    OBVIOUS
  <2>. QED  BY <1>2, <1>6, <1>7, <1>14, <1>15, <2>1 DEF WritingTyped
<1>19. WrittenTreeIsRight'
  BY <1>2 DEF WrittenTreeIsRight
<1>. QED  BY <1>14, <1>16, <1>17, <1>18, <1>19 DEF WInv

-----------------------------------------------------------------------------
(***************************************************************************)
(* A call goes on to a kid.                                                *)
(***************************************************************************)

\* The call at the top.
LEMMA TopFrame ==
    ASSUME WInv, pc = "write", NEW r, NEW f, WritingFits(r, f)
    PROVE  \E n \in DOMAIN nodes, m \in Nat \ {0} :
              /\ m = Len(frames) /\ Top = frames[m] /\ m \in 1 .. m
              /\ frames[m] \in FrameRecord /\ frames[m].node = n
              /\ FrameFits(m) /\ n \notin WrittenIDs
              /\ nodes[n] \in NodeRecord /\ NodeShape(n) /\ KidsFit(n)
              /\ \A i \in 1 .. m : frames[i].node = n => i = m
<1>1. Stacked(r) /\ WritingTyped /\ Shape /\ Numbered
  BY DEF WInv, TInv, PInv, WritingFits
<1>2. frames \in Seq(FrameRecord) /\ Len(frames) # 0 /\ Len(frames) \in Nat
  BY <1>1, LenProperties DEF WritingTyped, Stacked
<1>3. PICK m \in Nat \ {0} : m = Len(frames)
  BY <1>2
<1>4. m \in 1 .. m /\ frames[m] \in FrameRecord /\ Top = frames[m]
  <2>1. m \in 1 .. m
    BY <1>3
  <2>. QED  BY <1>2, <1>3, <2>1, ElementOfSeq DEF Top, Last
<1>5. PICK n \in DOMAIN nodes : n = frames[m].node
  BY <1>4 DEF FrameRecord
<1>6. FrameFits(m) /\ n \notin WrittenIDs /\ \A i \in 1 .. m : frames[i].node = n => i = m
  BY <1>1, <1>3, <1>4, <1>5 DEF Stacked, FrameFits
<1>7. nodes[n] \in NodeRecord /\ NodeShape(n) /\ KidsFit(n)
  BY <1>1 DEF Shape, NodeShape, Numbered
<1>. QED  BY <1>3, <1>4, <1>5, <1>6, <1>7

\* A kid that is listed is at some place.
LEMMA KidAt ==
    ASSUME WInv, NEW n \in DOMAIN nodes, NEW y \in ToSet(nodes[n].kids)
    PROVE  \E k \in 1 .. Len(nodes[n].kids) : nodes[n].kids[k] = y
<1>1. nodes[n].kids \in Seq(Nat)
  BY DEF WInv, TInv, PInv, Shape, NodeShape, NodeRecord
<1>. QED  BY <1>1, LenProperties DEF ToSet

LEMMA KidsBelow ==
    ASSUME WInv, NEW r, Grounded(r)
    PROVE  /\ \A n \in Inner : \A k \in 1 .. Len(nodes[n].kids) :
                /\ nodes[n].kids[k] \in DOMAIN nodes /\ nodes[nodes[n].kids[k]].parent = n
                /\ nodes[n].kids[k] # r
           /\ \A n \in Inner : \A y \in ToSet(nodes[n].kids) : nodes[y].parent = n
           /\ \A n \in DOMAIN nodes : \A y \in ToSet(nodes[n].kids) :
                \E k \in 1 .. Len(nodes[n].kids) : nodes[n].kids[k] = y
<1>1. ASSUME NEW n \in DOMAIN nodes, NEW y \in ToSet(nodes[n].kids)
      PROVE  \E k \in 1 .. Len(nodes[n].kids) : nodes[n].kids[k] = y
  <2>1. nodes[n].kids \in Seq(Nat)
    BY DEF WInv, TInv, PInv, Shape, NodeShape, NodeRecord
  <2>. QED  BY <2>1, LenProperties DEF ToSet
<1>2. ASSUME NEW n \in Inner, NEW k \in 1 .. Len(nodes[n].kids)
      PROVE  /\ nodes[n].kids[k] \in DOMAIN nodes /\ nodes[nodes[n].kids[k]].parent = n
             /\ nodes[n].kids[k] # r
  <2>1. nodes[n].kids[k] \in DOMAIN nodes /\ nodes[nodes[n].kids[k]].parent = n
    BY DEF Grounded, KidsKnowParent
  <2>2. nodes[r].parent \notin DOMAIN nodes /\ n \in DOMAIN nodes
    BY DEF Grounded, Inner
  <2>. QED  BY <2>1, <2>2
<1>3. ASSUME NEW n \in Inner, NEW y \in ToSet(nodes[n].kids)
      PROVE  nodes[y].parent = n
  <2>1. n \in DOMAIN nodes
    BY DEF Inner
  <2>. QED  BY <1>1, <1>2, <2>1
<1>. QED  BY <1>1, <1>2, <1>3

\* The writing goes on with the nodes and the numbers as they are.
LEMMA SameNumbers ==
    ASSUME WInv, ~Growing, ~Growing', UNCHANGED <<tree, page, at, returns, originalCount>>,
           pc' \in {"write", "combine", "written"}
    PROVE  /\ Numbered' /\ CallFits' /\ ObjectIDs' = ObjectIDs /\ FrameRecord' = FrameRecord
           /\ Inner' = Inner
<1>1. Numbered /\ CallFits
  BY DEF WInv
<1>2. UNCHANGED <<nodes, nextID, page, at, returns, originalCount>>
  BY DEF tree
<1>3. ObjectIDs' = ObjectIDs /\ FrameRecord' = FrameRecord /\ Inner' = Inner
  BY <1>2 DEF ObjectIDs, FrameRecord, Inner
<1>4. Numbered'
  BY <1>1, <1>2, <1>3 DEF Numbered, KidsFit
<1>5. CallFits'
  BY <1>1, <1>2, <1>3 DEF CallFits
<1>. QED  BY <1>3, <1>4, <1>5

LEMMA VisitKidFits ==
    ASSUME WInv, TInv', VisitKid
    PROVE  WInv'
<1>1. /\ pc = "write" /\ pc' = "write" /\ ~nodes[Top.node].isLeafParent
      /\ Top.kid <= Len(nodes[Top.node].kids)
      /\ frames' = Append(frames, Frame(nodes[Top.node].kids[Top.kid]))
      /\ UNCHANGED <<tree, page, at, returns, combinedRoot, written, originalCount>>
  BY DEF VisitKid, InWritePageTree
<1>2. PICK r, f : WritingFits(r, f)
  BY <1>1 DEF WInv
<1>3. /\ Grounded(r) /\ Stacked(r) /\ WrittenFits(r) /\ RightSoFar(f, written, ObjectIDs)
      /\ Totalled(f) /\ WritingTyped /\ frames \in Seq(FrameRecord)
  BY <1>2 DEF WritingFits, WInv, WritingTyped
<1>4. PICK n \in DOMAIN nodes, m \in Nat \ {0} :
         /\ m = Len(frames) /\ Top = frames[m] /\ m \in 1 .. m
         /\ frames[m] \in FrameRecord /\ frames[m].node = n
         /\ FrameFits(m) /\ n \notin WrittenIDs
         /\ nodes[n] \in NodeRecord /\ NodeShape(n) /\ KidsFit(n)
         /\ \A i \in 1 .. m : frames[i].node = n => i = m
  BY <1>1, <1>2, TopFrame
<1>5. n \in Inner
  BY <1>1, <1>4 DEF Inner
<1>6. PICK c \in Nat : c = frames[m].kid
  BY <1>4 DEF FrameRecord
<1>7. c \in 1 .. Len(nodes[n].kids)
  <2>1. Len(nodes[n].kids) \in Nat
    BY <1>4, LenProperties DEF NodeRecord
  <2>. QED  BY <1>1, <1>4, <1>6, <2>1 DEF FrameFits
<1>8. PICK x \in DOMAIN nodes : x = nodes[n].kids[c] /\ nodes[x].parent = n /\ x # r
  BY <1>3, <1>5, <1>7, KidsBelow
<1>9. x \notin WrittenIDs
  <2>1. x \in WrittenIDs <=> c < c
    BY <1>4, <1>5, <1>6, <1>7, <1>8 DEF FrameFits
  <2>. QED  BY <2>1
<1>10. PICK frame : frame = Frame(x)
  OBVIOUS
<1>11. frame \in FrameRecord /\ frame.node = x /\ frame.kid = 1 /\ frame.total = 0
  BY <1>10 DEF Frame, FrameRecord
<1>12. /\ frames' \in Seq(FrameRecord) /\ Len(frames') = m + 1 /\ frames'[m + 1] = frame
       /\ \A i \in 1 .. m : frames'[i] = frames[i]
  <2>1. frames' = Append(frames, frame)
    BY <1>1, <1>4, <1>6, <1>8, <1>10
  <2>. QED  BY <1>3, <1>4, <1>11, <2>1, AppendProperties
<1>13. /\ \A i \in 1 .. m + 1 : i \in 1 .. m \/ i = m + 1
       /\ \A i \in 1 .. m : i \in 1 .. m + 1 /\ i # m + 1
       /\ m + 1 \in 1 .. m + 1 /\ (m + 1) + 1 \notin 1 .. m + 1
  OBVIOUS
\* The kid is at no call yet: its parent is at this one only.
<1>14. ASSUME NEW i \in 1 .. m
       PROVE  frames[i].node # x
  <2>1. CASE i = 1
    BY <1>1, <1>3, <1>8, <2>1 DEF Stacked
  <2>2. CASE i # 1
    <3>1. PICK j \in 1 .. m : j + 1 = i
      BY <2>2
    <3>2. FrameFits(j) /\ j + 1 \in 1 .. Len(frames)
      BY <1>3, <1>4, <3>1 DEF Stacked
    <3>3. PICK d : d = frames[j].kid
      OBVIOUS
    <3>4. /\ frames[j].node \in Inner /\ d \in 1 .. Len(nodes[frames[j].node].kids)
          /\ frames[i].node = nodes[frames[j].node].kids[d]
      <4>1. frames[j] \in FrameRecord
        BY <1>3, <1>4, ElementOfSeq
      <4>2. d \in Nat
        BY <3>3, <4>1 DEF FrameRecord
      <4>3. frames[j].node \in Inner /\ d >= 1 /\ d <= Len(nodes[frames[j].node].kids)
            /\ frames[i].node = nodes[frames[j].node].kids[d]
        BY <3>1, <3>2, <3>3 DEF FrameFits
      <4>4. nodes[frames[j].node].kids \in Seq(Nat)
        BY <4>3 DEF WInv, TInv, PInv, Shape, NodeShape, NodeRecord, Inner
      <4>5. Len(nodes[frames[j].node].kids) \in Nat
        BY <4>4, LenProperties
      <4>. QED  BY <4>2, <4>3, <4>5
    <3>5. nodes[frames[i].node].parent = frames[j].node
      BY <1>3, <3>4, KidsBelow
    <3>6. frames[i].node = x => j = m
      BY <1>4, <1>8, <3>5
    <3>. QED  BY <3>1, <3>6
  <2>. QED  BY <2>1, <2>2
<1>15. FrameNodes' = FrameNodes \cup {x} /\ x \notin FrameNodes
  <2>1. FrameNodes = {frames[i].node : i \in 1 .. m} /\ FrameNodes' = {frames'[i].node : i \in 1 .. m + 1}
    BY <1>4, <1>12 DEF FrameNodes
  <2>2. x \notin FrameNodes
    BY <1>14, <2>1
  <2>3. \A i \in 1 .. m : frames'[i].node = frames[i].node
    BY <1>12
  <2>4. frames'[m + 1].node = x
    BY <1>11, <1>12
  <2>. QED  BY <1>13, <2>1, <2>2, <2>3, <2>4
<1>16. /\ UNCHANGED <<nodes, written, combinedRoot, originalCount>>
       /\ WrittenIDs' = WrittenIDs
       /\ Numbered' /\ CallFits' /\ ObjectIDs' = ObjectIDs /\ FrameRecord' = FrameRecord
       /\ Inner' = Inner
  <2>1. ~Growing /\ ~Growing'
    BY <1>1 DEF Growing
  <2>2. /\ Numbered' /\ CallFits' /\ ObjectIDs' = ObjectIDs /\ FrameRecord' = FrameRecord
        /\ Inner' = Inner
    BY <1>1, <2>1, SameNumbers
  <2>. QED  BY <1>1, <2>2 DEF tree, WrittenIDs
<1>17. ASSUME NEW k \in 1 .. Len(nodes[x].kids), x \in Inner
       PROVE  nodes[x].kids[k] \notin WrittenIDs
  <2>1. PICK y : y = nodes[x].kids[k]
    OBVIOUS
  <2>2. nodes[y].parent = x /\ y # r
    BY <1>3, <1>17, <2>1, KidsBelow
  <2>3. ASSUME y \in WrittenIDs PROVE FALSE
    <3>1. PICK p \in Inner \cap (WrittenIDs \cup FrameNodes) : y \in ToSet(nodes[p].kids)
      BY <1>3, <2>2, <2>3 DEF WrittenFits
    <3>2. p = x
      BY <1>3, <2>2, <3>1, KidsBelow
    <3>. QED  BY <1>9, <1>15, <3>1, <3>2
  <2>. QED  BY <2>1, <2>3
<1>18. FrameFits(m + 1)'
  <2>1. Len(nodes[x].kids) \in Nat
    BY LenProperties DEF WInv, TInv, PInv, Shape, NodeShape, NodeRecord
  <2>2. 1 <= Len(nodes[x].kids) + 1 /\ \A k \in 1 .. Len(nodes[x].kids) : ~(k < 1)
    BY <2>1
  <2>. QED  BY <1>9, <1>11, <1>12, <1>13, <1>16, <1>17, <2>2 DEF FrameFits
<1>19. FrameFits(m)'
  <2>1. frames'[m] = frames[m] /\ m + 1 \in 1 .. Len(frames') /\ frames'[m + 1].node = x
    BY <1>4, <1>11, <1>12, <1>13
  <2>2. c <= Len(nodes[n].kids)
    BY <1>7
  <2>. QED  BY <1>4, <1>5, <1>6, <1>8, <1>16, <2>1, <2>2 DEF FrameFits
<1>20. ASSUME NEW i \in 1 .. m, i # m
       PROVE  FrameFits(i)'
  <2>1. FrameFits(i) /\ i + 1 \in 1 .. m /\ frames'[i] = frames[i] /\ frames'[i + 1] = frames[i + 1]
    BY <1>3, <1>4, <1>12, <1>20 DEF Stacked
  <2>. QED  BY <1>4, <1>16, <2>1 DEF FrameFits
<1>21. Stacked(r)'
  <2>1. Len(frames') # 0 /\ frames'[1].node = r
    <3>1. 1 \in 1 .. m /\ m + 1 # 0
      OBVIOUS
    <3>2. frames[1].node = r
      BY <1>1, <1>3 DEF Stacked
    <3>. QED  BY <1>12, <3>1, <3>2
  <2>2. ASSUME NEW i \in 1 .. Len(frames'), NEW j \in 1 .. Len(frames'),
               frames'[i].node = frames'[j].node
        PROVE  i = j
    <3>1. CASE i \in 1 .. m /\ j \in 1 .. m
      BY <1>3, <1>4, <1>12, <2>2, <3>1 DEF Stacked
    <3>2. CASE i = m + 1 /\ j \in 1 .. m
      BY <1>11, <1>12, <1>14, <2>2, <3>2
    <3>3. CASE i \in 1 .. m /\ j = m + 1
      BY <1>11, <1>12, <1>14, <2>2, <3>3
    <3>. QED  BY <1>12, <1>13, <3>1, <3>2, <3>3
  <2>3. \A i \in 1 .. Len(frames') : FrameFits(i)'
    BY <1>12, <1>13, <1>18, <1>19, <1>20
  <2>. QED  BY <1>1, <2>1, <2>2, <2>3 DEF Stacked
<1>22. WrittenFits(r)'
  <2>1. \A k \in 1 .. Len(written') : ItemFits(k)'
    BY <1>3, <1>16 DEF WrittenFits, ItemFits
  <2>2. \A y \in WrittenIDs \cap Inner : \A k \in 1 .. Len(nodes[y].kids) :
           nodes[y].kids[k] \in WrittenIDs
    BY <1>3 DEF WrittenFits
  <2>3. \A y \in WrittenIDs \ {r} : \E p \in Inner \cap (WrittenIDs \cup FrameNodes') :
           y \in ToSet(nodes[p].kids)
    BY <1>3, <1>15 DEF WrittenFits
  <2>. QED  BY <1>1, <1>16, <2>1, <2>2, <2>3 DEF WrittenFits
<1>23. Totalled(f)'
  <2>1. PagesUpTo(f, nodes[x].kids, 0) = <<>> /\ Len(<<>>) = 0 /\ 1 - 1 = 0
    BY NoPages
  <2>2. frame.total = Len(PagesUpTo(f, nodes[frame.node].kids, frame.kid - 1))
    BY <1>11, <2>1
  <2>. QED  BY <1>3, <1>4, <1>12, <1>13, <1>16, <2>2 DEF Totalled
<1>24. Grounded(r)'
  BY <1>3, <1>16 DEF Grounded, KidsKnowParent
<1>25. WritingFits(r, f)'
  BY <1>3, <1>16, <1>21, <1>22, <1>23, <1>24 DEF WritingFits
<1>26. WritingTyped'
  BY <1>3, <1>12, <1>16 DEF WritingTyped
<1>27. WrittenTreeIsRight'
  BY <1>1 DEF WrittenTreeIsRight
<1>. QED  BY <1>16, <1>25, <1>26, <1>27 DEF WInv

-----------------------------------------------------------------------------
(***************************************************************************)
(* What is right about a file that says of every node what it is.          *)
(***************************************************************************)
LEMMA CountIDs ==
    ASSUME NEW w, OneEach(w), NEW n \in Nat, n = Len(w)
    PROVE  Cardinality(IDsOf(w)) = Len(w)
<1>1. DEFINE b == [k \in 1 .. n |-> w[k].id]
<1>2. b \in [1 .. n -> IDsOf(w)] /\ \A j, k \in 1 .. n : b[j] = b[k] => j = k
  BY DEF OneEach, IDsOf
<1>3. \A i \in IDsOf(w) : \E k \in 1 .. n : b[k] = i
  BY DEF IDsOf
<1>4. b \in Bijection(1 .. n, IDsOf(w))
  <2>. HIDE DEF b
  <2>. QED  BY <1>2, <1>3 DEF Bijection, Injection, Surjection, IsInjective
<1>5. ExistsBijection(1 .. n, IDsOf(w))
  <2>. HIDE DEF b
  <2>. QED  BY <1>4 DEF ExistsBijection
<1>6. IsFiniteSet(1 .. n) /\ Cardinality(1 .. n) = n
  <2>1. 1 \in Int /\ n \in Int
    OBVIOUS
  <2>2. IsFiniteSet(1 .. n) /\ Cardinality(1 .. n) = IF 1 > n THEN 0 ELSE n - 1 + 1
    BY <2>1, FS_Interval
  <2>. QED  BY <2>2
<1>. QED  BY <1>5, <1>6, FS_Bijection

\* The nodes are linked: a kid that is written names the node that lists it.
Linked(w, k) ==
    /\ \A j \in ToSet(w[k].kids) \cap IDsOf(w) : ItemOf(w, j).parent = w[k].id
    /\ \/ w[k].parent = NoNode
       \/ /\ w[k].parent \in IDsOf(w)
          /\ w[k].id \in ToSet(ItemOf(w, w[k].parent).kids)

LEMMA FileIsRight ==
    ASSUME NEW f, RightSoFar(f, written', ObjectIDs'), Len(written') \in Nat,
           \A k \in 1 .. Len(written') : Linked(written', k)
    PROVE  WrittenTreeIsRight'
<1>1. PICK w, I : w = written' /\ I = ObjectIDs'
  OBVIOUS
<1>2. WrittenIDs' = IDsOf(w) /\ \A id : Written(id)' = ItemOf(w, id)
  BY <1>1 DEF WrittenIDs, Written, IDsOf, ItemOf
<1>3. /\ OneEach(w) /\ Reads(f, w, I) /\ \A g : Reads(g, w, I) => g = f
      /\ \A k \in 1 .. Len(w) : w[k].count = Len(f[w[k].id])
  BY <1>1 DEF RightSoFar
<1>4. PagesBelow' = CHOOSE g : Reads(g, w, I)
  <2>1. PagesBelow' = CHOOSE g : Reads(g, written', ObjectIDs')
    BY DEF PagesBelow, Reads, Reading, PagesUpTo, IDsOf, ItemOf, WrittenIDs, Written
  <2>. QED  BY <1>1, <2>1
<1>5. PagesBelow' = f
  <2>1. PICK g : g = CHOOSE h : Reads(h, w, I)
    OBVIOUS
  <2>2. Reads(g, w, I)
    BY <1>3, <2>1
  <2>. QED  BY <1>3, <1>4, <2>1, <2>2
<1>6. Cardinality(IDsOf(w)) = Len(w)
  <2>1. PICK n \in Nat : n = Len(w)
    BY <1>1
  <2>. QED  BY <1>3, <2>1, CountIDs
<1>7. ASSUME NEW k \in 1 .. Len(w)
      PROVE  /\ w[k].count = Len(f[w[k].id])
             /\ \A j \in ToSet(w[k].kids) \cap IDsOf(w) : ItemOf(w, j).parent = w[k].id
             /\ w[k].parent = NoNode \/
                   (/\ w[k].parent \in IDsOf(w)
                    /\ w[k].id \in ToSet(ItemOf(w, w[k].parent).kids))
  BY <1>1, <1>3, <1>7 DEF Linked
<1>. QED  BY <1>1, <1>2, <1>5, <1>6, <1>7 DEF WrittenTreeIsRight

\* A file of nodes as they are, with all that is below them, is linked but for its root.
AsTheyAre(w) ==
    \A k \in 1 .. Len(w) : /\ w[k].id \in DOMAIN nodes
                           /\ w[k].parent = nodes[w[k].id].parent
                           /\ w[k].kids = nodes[w[k].id].kids

AllListed(r, w) ==
    \A y \in IDsOf(w) \ {r} : \E p \in Inner \cap IDsOf(w) : y \in ToSet(nodes[p].kids)

LEMMA TreeIsLinked ==
    ASSUME WInv, NEW r, Grounded(r), NEW w, OneEach(w), AsTheyAre(w), AllListed(r, w),
           NEW k \in 1 .. Len(w)
    PROVE  /\ \A j \in ToSet(w[k].kids) \cap IDsOf(w) : ItemOf(w, j).parent = w[k].id
           /\ \/ w[k].id = r /\ w[k].parent = combinedRoot
              \/ /\ w[k].id # r /\ w[k].parent \in IDsOf(w)
                 /\ w[k].id \in ToSet(ItemOf(w, w[k].parent).kids)
<1>1. PICK n \in DOMAIN nodes : n = w[k].id
  BY DEF AsTheyAre
<1>2. w[k].parent = nodes[n].parent /\ w[k].kids = nodes[n].kids /\ n \in IDsOf(w)
  BY <1>1 DEF AsTheyAre, IDsOf
<1>3. ASSUME NEW j \in IDsOf(w)
      PROVE  /\ j \in DOMAIN nodes /\ ItemOf(w, j).parent = nodes[j].parent
             /\ ItemOf(w, j).kids = nodes[j].kids
  <2>1. PICK i \in 1 .. Len(w) : w[i].id = j
    BY DEF IDsOf
  <2>2. ItemOf(w, j) = w[i]
    BY <2>1, ItemIs
  <2>. QED  BY <2>1, <2>2 DEF AsTheyAre
<1>4. ASSUME NEW j \in ToSet(w[k].kids) \cap IDsOf(w)
      PROVE  ItemOf(w, j).parent = w[k].id
  <2>1. j \in ToSet(nodes[n].kids) /\ j \in DOMAIN nodes
    BY <1>2, <1>3
  <2>2. n \in Inner
    <3>1. PICK i \in 1 .. Len(nodes[n].kids) : nodes[n].kids[i] = j
      BY <2>1, KidsBelow
    <3>2. KidsFit(n)
      BY DEF WInv, Numbered
    <3>3. ~nodes[n].isLeafParent
      BY <2>1, <3>1, <3>2 DEF KidsFit
    <3>. QED  BY <3>3 DEF Inner
  <2>3. nodes[j].parent = n
    BY <2>1, <2>2, KidsBelow
  <2>. QED  BY <1>1, <1>3, <2>3
<1>5. CASE n = r
  BY <1>1, <1>2, <1>4, <1>5 DEF Grounded
<1>6. CASE n # r
  <2>1. PICK p \in Inner \cap IDsOf(w) : n \in ToSet(nodes[p].kids)
    BY <1>2, <1>6 DEF AllListed
  <2>2. nodes[n].parent = p
    BY <2>1, KidsBelow
  <2>. QED  BY <1>1, <1>2, <1>3, <1>4, <1>6, <2>1, <2>2
<1>. QED  BY <1>5, <1>6

-----------------------------------------------------------------------------
(***************************************************************************)
(* A node is written.                                                      *)
(***************************************************************************)
AllIn(s, S) == \A k \in 1 .. Len(s) : s[k] \in S

LEMMA ListAmong ==
    ASSUME NEW S, NEW s \in Seq(Nat), AllIn(s, S)
    PROVE  s \in Seq(S)
<1>1. PICK n \in Nat : n = Len(s)
  BY LenProperties
<1>2. s \in [1 .. n -> Nat]
  BY <1>1, LenProperties
<1>3. s \in [1 .. n -> S]
  BY <1>1, <1>2 DEF AllIn
<1>. QED  BY <1>3, SeqDef

LEMMA NodeIsRead ==
    ASSUME WInv, NEW r, NEW f, WritingFits(r, f),
           NEW n \in DOMAIN nodes, n \notin WrittenIDs, NEW count \in Nat,
           n \in Inner => \A k \in 1 .. Len(nodes[n].kids) : nodes[n].kids[k] \in WrittenIDs,
           count = Len(PagesUpTo(f, nodes[n].kids, Len(nodes[n].kids))),
           NEW x, x = WrittenNode(n, nodes[n].parent, nodes[n].kids, count),
           NEW v, v = Append(written, x)
    PROVE  ReadOn(f, x, v, ObjectIDs) /\ Added(written, x, v, ObjectIDs)
<1>1. /\ Grounded(r) /\ WrittenFits(r) /\ RightSoFar(f, written, ObjectIDs) /\ WritingTyped
      /\ Shape /\ Numbered
  BY DEF WritingFits, WInv, TInv, PInv
<1>2. NodeShape(n) /\ KidsFit(n) /\ nodes[n].parent \in ObjectIDs \cup {NoNode}
  BY <1>1 DEF Shape, Numbered
<1>3. PICK w, I : w = written /\ I = ObjectIDs
  OBVIOUS
<1>4. I \subseteq Nat /\ n \in I
  <2>1. PICK m \in Nat : m = nextID
    BY <1>1 DEF Shape
  <2>2. \A i \in 1 .. m - 1 : i \in Nat
    OBVIOUS
  <2>. QED  BY <1>2, <1>3, <2>1, <2>2 DEF ObjectIDs, NodeShape
<1>5. PICK kids \in Seq(I) : kids = nodes[n].kids
  <2>1. PICK s \in Seq(Nat) : s = nodes[n].kids
    BY <1>2 DEF NodeShape, NodeRecord
  <2>2. AllIn(s, I)
    BY <1>2, <1>3, <2>1 DEF NodeShape, ObjectIDs, AllIn
  <2>3. s \in Seq(I)
    BY <2>2, ListAmong
  <2>. QED  BY <2>1, <2>3
<1>6. /\ x \in WrittenRecord(I) /\ x.id = n /\ x.kids = kids /\ x.count = count
  BY <1>2, <1>3, <1>4, <1>5 DEF WrittenNode, WrittenRecord
<1>7. w \in Seq(WrittenRecord(I)) /\ RightSoFar(f, w, I)
  BY <1>1, <1>3 DEF WritingTyped
<1>8. IDsOf(w) = WrittenIDs /\ WrittenIDs \subseteq DOMAIN nodes
  BY <1>1, <1>3 DEF IDsOf, WrittenIDs, WrittenFits, ItemFits
<1>9. x.id \notin IDsOf(w)
  BY <1>6, <1>8
\* Neither what is written lists the node, nor the node itself.
<1>10. ASSUME NEW y \in DOMAIN nodes, y \in WrittenIDs \/ y = n
       PROVE  n \notin ToSet(nodes[y].kids)
  <2>. SUFFICES ASSUME n \in ToSet(nodes[y].kids)
                PROVE  FALSE
    OBVIOUS
  <2>0. PICK k \in 1 .. Len(nodes[y].kids) : nodes[y].kids[k] = n
    BY KidAt
  <2>1. CASE y \in Inner
    <3>1. \A i \in 1 .. Len(nodes[y].kids) : nodes[y].kids[i] \in WrittenIDs
      BY <1>1, <1>10, <2>1 DEF WrittenFits
    <3>. QED  BY <2>0, <3>1, <1>10
  <2>2. CASE y \notin Inner
    <3>1. nodes[y].isLeafParent /\ KidsFit(y)
      BY <1>1, <2>2 DEF Inner, Numbered
    <3>2. \A i \in 1 .. Len(nodes[y].kids) : nodes[y].kids[i] \notin DOMAIN nodes
      BY <3>1 DEF KidsFit
    <3>. QED  BY <2>0, <3>2
  <2>. QED  BY <2>1, <2>2
<1>11. \A k \in 1 .. Len(w) : x.id \notin ToSet(w[k].kids)
  <2>1. ASSUME NEW k \in 1 .. Len(w)
        PROVE  x.id \notin ToSet(w[k].kids)
    <3>1. ItemFits(k) /\ w[k].id \in WrittenIDs
      BY <1>1, <1>3 DEF WrittenFits, WrittenIDs
    <3>2. w[k].id \in DOMAIN nodes /\ w[k].kids = nodes[w[k].id].kids
      BY <1>3, <3>1 DEF ItemFits
    <3>. QED  BY <1>6, <1>10, <3>1, <3>2
  <2>. QED  BY <2>1
<1>12. x.id \notin ToSet(x.kids)
  BY <1>5, <1>6, <1>10
<1>13. x.count = Len(PagesUpTo(f, x.kids, Len(x.kids)))
  BY <1>5, <1>6
<1>14. v = Append(w, x)
  BY <1>3
<1>15. ReadOn(f, x, v, I)
  BY <1>4, <1>6, <1>7, <1>9, <1>11, <1>12, <1>13, <1>14, OneMore
<1>16. Added(w, x, v, I)
  <2>1. OneEach(w)
    BY <1>7 DEF RightSoFar
  <2>. QED  BY <1>6, <1>7, <1>9, <1>14, <2>1, ItemAdded
<1>. QED  BY <1>3, <1>15, <1>16

\* The number of pages of a node that has pages, and of one that has nodes.
LEMMA LeafCounted ==
    ASSUME WInv, NEW r, NEW f, WritingFits(r, f), NEW n \in DOMAIN nodes \ Inner
    PROVE  /\ Len(nodes[n].kids) = Len(PagesUpTo(f, nodes[n].kids, Len(nodes[n].kids)))
           /\ Len(nodes[n].kids) \in Nat
<1>1. /\ WrittenFits(r) /\ RightSoFar(f, written, ObjectIDs) /\ Shape /\ Numbered
  BY DEF WritingFits, WInv, TInv, PInv
<1>2. NodeShape(n) /\ KidsFit(n) /\ nodes[n].isLeafParent /\ nodes[n].kids \in Seq(Nat)
  BY <1>1 DEF Shape, Numbered, Inner, NodeShape, NodeRecord
<1>3. PICK m \in Nat : m = Len(nodes[n].kids)
  BY <1>2, LenProperties
<1>4. ASSUME NEW k \in 1 .. m
      PROVE  f[nodes[n].kids[k]] = <<nodes[n].kids[k]>> /\ nodes[n].kids[k] \in Nat
  <2>1. PICK p : p = nodes[n].kids[k]
    OBVIOUS
  <2>2. p \in ObjectIDs /\ p \notin DOMAIN nodes /\ p \in Nat
    BY <1>2, <1>3, <2>1, ElementOfSeq DEF NodeShape, KidsFit, ObjectIDs
  <2>3. p \notin IDsOf(written)
    BY <1>1, <2>2 DEF WrittenFits, ItemFits, IDsOf
  <2>4. f[p] = Reading(f, written, p)
    <3>1. ReadsAt(f, written, ObjectIDs)
      BY <1>1, ReadsPointwise DEF RightSoFar
    <3>. QED  BY <2>2, <3>1 DEF ReadsAt
  <2>5. f[p] = <<p>>
    BY <2>3, <2>4 DEF Reading
  <2>. QED  BY <2>1, <2>2, <2>5
<1>5. Len(PagesUpTo(f, nodes[n].kids, m)) = m
  BY <1>4, SinglePages
<1>. QED  BY <1>3, <1>5

LEMMA InnerCounted ==
    ASSUME WInv, NEW r, NEW f, WritingFits(r, f), NEW n \in Inner, NEW m \in 1 .. Len(frames),
           FrameFits(m), frames[m].node = n, frames[m] \in FrameRecord,
           frames[m].kid > Len(nodes[n].kids)
    PROVE  /\ frames[m].total = Len(PagesUpTo(f, nodes[n].kids, Len(nodes[n].kids)))
           /\ frames[m].total \in Nat
           /\ \A k \in 1 .. Len(nodes[n].kids) : nodes[n].kids[k] \in WrittenIDs
<1>1. PICK c, t \in Nat : c = frames[m].kid /\ t = frames[m].total
  BY DEF FrameRecord
<1>2. PICK l \in Nat : l = Len(nodes[n].kids)
  <2>1. nodes[n].kids \in Seq(Nat)
    BY DEF WInv, TInv, PInv, Shape, NodeShape, NodeRecord, Inner
  <2>. QED  BY <2>1, LenProperties
<1>3. c <= l + 1 /\ c > l
  BY <1>1, <1>2 DEF FrameFits
<1>4. c - 1 = l /\ \A k \in 1 .. l : k < c
  BY <1>3
<1>5. t = Len(PagesUpTo(f, nodes[n].kids, c - 1))
  BY <1>1 DEF WritingFits, Totalled
<1>6. \A k \in 1 .. l : nodes[n].kids[k] \in WrittenIDs
  BY <1>1, <1>2, <1>4 DEF FrameFits
<1>. QED  BY <1>1, <1>2, <1>4, <1>5, <1>6

\* What is known of the node at the top when its kids are written, and of the count it is
\* written with.
Ready(f, n, count) ==
    /\ n \in DOMAIN nodes /\ n \notin WrittenIDs /\ count \in Nat
    /\ n \in Inner => \A k \in 1 .. Len(nodes[n].kids) : nodes[n].kids[k] \in WrittenIDs
    /\ count = Len(PagesUpTo(f, nodes[n].kids, Len(nodes[n].kids)))

\* What the file is when it is written.
NodeIsWritten(f, g, n, count) ==
    /\ RightSoFar(g, written', ObjectIDs)
    /\ \A id \in ObjectIDs : id # n => g[id] = f[id]
    /\ Len(g[n]) = count
    /\ written' \in Seq(WrittenRecord(ObjectIDs)) /\ Len(written') \in Nat
    /\ Len(written') # 0 /\ written'[Len(written')].id = n
    /\ WrittenIDs' = WrittenIDs \cup {n}
    /\ \A k \in 1 .. Len(written') : ItemFits(k)'
    /\ \A y \in WrittenIDs' \cap Inner : \A k \in 1 .. Len(nodes[y].kids) :
          nodes[y].kids[k] \in WrittenIDs'

LEMMA NodeWritten ==
    ASSUME WInv, NEW r, NEW f, WritingFits(r, f), NEW n, NEW count, Ready(f, n, count),
           nodes' = nodes,
           written' = Append(written, WrittenNode(n, nodes[n].parent, nodes[n].kids, count))
    PROVE  \E g : NodeIsWritten(f, g, n, count)
<1>1. PICK x : x = WrittenNode(n, nodes[n].parent, nodes[n].kids, count)
  OBVIOUS
<1>2. PICK v : v = Append(written, x) /\ v = written'
  BY <1>1
<1>3. n \in DOMAIN nodes /\ n \notin WrittenIDs /\ count \in Nat
      /\ (n \in Inner => \A k \in 1 .. Len(nodes[n].kids) : nodes[n].kids[k] \in WrittenIDs)
      /\ count = Len(PagesUpTo(f, nodes[n].kids, Len(nodes[n].kids)))
  BY DEF Ready
<1>4. ReadOn(f, x, v, ObjectIDs) /\ Added(written, x, v, ObjectIDs)
  BY <1>1, <1>2, <1>3, NodeIsRead
<1>5. PICK g : /\ RightSoFar(g, v, ObjectIDs)
               /\ \A id \in ObjectIDs : id # n => g[id] = f[id]
               /\ g[n] = PagesUpTo(f, nodes[n].kids, Len(nodes[n].kids))
  <2>1. x.id = n /\ x.kids = nodes[n].kids
    BY <1>1 DEF WrittenNode
  <2>. QED  BY <1>4, <2>1 DEF ReadOn
<1>6. x.id = n /\ x.parent = nodes[n].parent /\ x.kids = nodes[n].kids
  BY <1>1 DEF WrittenNode
<1>7. /\ v \in Seq(WrittenRecord(ObjectIDs)) /\ Len(v) = Len(written) + 1 /\ Len(written) \in Nat
      /\ v[Len(v)] = x /\ \A k \in 1 .. Len(written) : v[k] = written[k]
      /\ \A k \in 1 .. Len(v) : k \in 1 .. Len(written) \/ k = Len(v)
      /\ IDsOf(v) = IDsOf(written) \cup {x.id}
  BY <1>4 DEF Added
<1>8. WrittenIDs' = WrittenIDs \cup {n}
  BY <1>2, <1>6, <1>7 DEF WrittenIDs, IDsOf
<1>9. WrittenFits(r)
  BY DEF WritingFits
<1>10. ASSUME NEW k \in 1 .. Len(v)
       PROVE  ItemFits(k)'
  <2>1. CASE k \in 1 .. Len(written)
    <3>1. ItemFits(k) /\ written'[k] = written[k]
      BY <1>2, <1>7, <1>9, <2>1 DEF WrittenFits
    <3>. QED  BY <3>1 DEF ItemFits
  <2>2. CASE k = Len(v)
    BY <1>2, <1>3, <1>6, <1>7, <2>2 DEF ItemFits
  <2>. QED  BY <1>7, <2>1, <2>2
<1>11. \A y \in WrittenIDs' \cap Inner : \A k \in 1 .. Len(nodes[y].kids) :
          nodes[y].kids[k] \in WrittenIDs'
  BY <1>3, <1>8, <1>9 DEF WrittenFits
<1>12. Len(g[n]) = count
  BY <1>3, <1>5
<1>13. Len(v) \in Nat /\ Len(v) # 0
  BY <1>7
<1>14. NodeIsWritten(f, g, n, count)
  BY <1>2, <1>5, <1>6, <1>7, <1>8, <1>10, <1>11, <1>12, <1>13 DEF NodeIsWritten
<1>. QED  BY <1>14

\* The call returns its count to the one below.
Returned(m, count) ==
    /\ frames' \in Seq(FrameRecord) /\ Len(frames') = m - 1
    /\ \A i \in 1 .. m - 1 : i # m - 1 => frames'[i] = frames[i]
    /\ frames'[m - 1].node = frames[m - 1].node
    /\ frames'[m - 1].kid = frames[m - 1].kid + 1
    /\ frames'[m - 1].total = frames[m - 1].total + count

LEMMA ReturnIs ==
    ASSUME frames \in Seq(FrameRecord), NEW m \in Nat, m > 1, m = Len(frames),
           NEW count \in Nat, frames' = Return(count)
    PROVE  Returned(m, count)
<1>1. PICK l \in Nat : l = m - 1 /\ l \in 1 .. l /\ l <= m
  OBVIOUS
<1>2. PICK front : front = Front(frames)
  OBVIOUS
<1>3. front = [i \in 1 .. l |-> frames[i]]
  BY <1>1, <1>2 DEF Front
<1>4. \A i \in 1 .. l : i \in 1 .. m /\ frames[i] \in FrameRecord
  <2>1. \A i \in 1 .. l : i \in 1 .. m
    BY <1>1
  <2>. QED  BY <2>1, ElementOfSeq
<1>5. PICK frame : frame = frames[l]
  OBVIOUS
<1>6. PICK more : more = [frame EXCEPT !.kid = @ + 1, !.total = @ + count]
  OBVIOUS
<1>7. frame \in FrameRecord
  BY <1>1, <1>4, <1>5
<1>8. more \in FrameRecord /\ more.node = frame.node /\ more.kid = frame.kid + 1
      /\ more.total = frame.total + count
  <2>1. PICK c, t \in Nat : c = frame.kid /\ t = frame.total
    BY <1>7 DEF FrameRecord
  <2>2. PICK c1, t1 \in Nat : c1 = c + 1 /\ t1 = t + count
    OBVIOUS
  <2>3. more = [frame EXCEPT !.kid = c1, !.total = t1]
    BY <1>6, <2>1, <2>2
  <2>. QED  BY <1>7, <2>1, <2>2, <2>3 DEF FrameRecord
<1>9. PICK step : step = [front EXCEPT ![l].kid = @ + 1]
  OBVIOUS
<1>10. frames' = [step EXCEPT ![l].total = @ + count]
  BY <1>1, <1>2, <1>9 DEF Return
<1>11. /\ DOMAIN step = 1 .. l /\ step[l] = [frame EXCEPT !.kid = @ + 1]
       /\ \A i \in 1 .. l : i # l => step[i] = frames[i]
  BY <1>1, <1>3, <1>5, <1>9
<1>12. /\ frames' = [i \in 1 .. l |-> frames'[i]]
       /\ frames'[l] = [step[l] EXCEPT !.total = @ + count]
       /\ \A i \in 1 .. l : i # l => frames'[i] = frames[i]
  BY <1>1, <1>10, <1>11
<1>13. frames'[l] = more
  BY <1>6, <1>7, <1>11, <1>12 DEF FrameRecord
<1>14. \A i \in 1 .. l : frames'[i] \in FrameRecord
  BY <1>4, <1>8, <1>12, <1>13
<1>15. frames' \in [1 .. l -> FrameRecord]
  BY <1>12, <1>14
<1>16. frames' \in Seq(FrameRecord)
  BY <1>15, SeqDef
<1>17. Len(frames') = l
  BY <1>15, <1>16, LenProperties
<1>. QED  BY <1>1, <1>5, <1>8, <1>12, <1>13, <1>16, <1>17 DEF Returned

\* The call below the one at the top is at the parent of its node.
CallerIs(m, n, l, c, p) ==
    /\ l + 1 = m /\ m - 1 = l /\ l \in 1 .. l /\ l \in 1 .. m
    /\ \A i \in 1 .. l : i \in 1 .. m /\ i # m /\ (i # l => i + 1 \in 1 .. l)
    /\ frames[l] \in FrameRecord /\ frames[l].node = p /\ frames[l].kid = c
    /\ p \in DOMAIN nodes /\ nodes[p].kids \in Seq(Nat)
    /\ \A i \in 1 .. l : frames[i].node # n
    /\ c \in 1 .. Len(nodes[p].kids)
    /\ \A k \in 1 .. Len(nodes[p].kids) : nodes[p].kids[k] = n <=> k = c
    /\ \A i \in 1 .. l : i # l /\ frames[i].node \in Inner =>
          \A k \in 1 .. Len(nodes[frames[i].node].kids) : nodes[frames[i].node].kids[k] # n

LEMMA CallerAt ==
    ASSUME WInv, NEW r, NEW f, WritingFits(r, f),
           NEW m \in Nat, m > 1, m = Len(frames), NEW n, n = frames[m].node
    PROVE  \E l \in Nat \ {0}, c \in Nat \ {0}, p \in Inner : CallerIs(m, n, l, c, p)
<1>1. Grounded(r) /\ Stacked(r) /\ frames \in Seq(FrameRecord) /\ Shape
  BY DEF WritingFits, WInv, WritingTyped, TInv, PInv
<1>2. PICK l \in Nat \ {0} : /\ l + 1 = m /\ m - 1 = l /\ l \in 1 .. l /\ l \in 1 .. m
                             /\ m \in 1 .. m /\ l # m
  <2>1. PICK l \in Nat \ {0} : l = m - 1
    OBVIOUS
  <2>. QED  BY <2>1
<1>3. \A i \in 1 .. l : i \in 1 .. m /\ i # m /\ (i # l => i + 1 \in 1 .. l)
  BY <1>2
<1>4. FrameFits(l) /\ frames[l] \in FrameRecord
  BY <1>1, <1>2, ElementOfSeq DEF Stacked
<1>5. PICK c \in Nat : c = frames[l].kid
  BY <1>4 DEF FrameRecord
<1>6. PICK p \in Inner : p = frames[l].node
  BY <1>2, <1>4 DEF FrameFits
<1>7. p \in DOMAIN nodes /\ nodes[p].kids \in Seq(Nat)
  BY <1>1, <1>6 DEF Inner, Shape, NodeShape, NodeRecord
<1>8. PICK s \in Seq(Nat) : s = nodes[p].kids
  BY <1>7
<1>9. PICK d \in Nat : d = Len(s) /\ DOMAIN s = 1 .. d
  BY LenProperties
<1>10. c >= 1 /\ c <= d /\ s[c] = n
  BY <1>2, <1>4, <1>5, <1>6, <1>8, <1>9 DEF FrameFits
<1>11. c \in 1 .. d /\ c \in Nat \ {0}
  BY <1>10
<1>12. \A k \in 1 .. d : s[k] = n <=> k = c
  <2>1. IsInjective(s)
    BY <1>1, <1>7, <1>8 DEF Grounded
  <2>. QED  BY <1>9, <1>10, <1>11, <2>1 DEF IsInjective
<1>13. \A i \in 1 .. l : frames[i].node # n
  BY <1>1, <1>2, <1>3 DEF Stacked
<1>14. nodes[n].parent = p
  BY <1>1, <1>8, <1>9, <1>10, <1>11, KidsBelow
<1>15. ASSUME NEW i \in 1 .. l, i # l, frames[i].node \in Inner,
              NEW k \in 1 .. Len(nodes[frames[i].node].kids)
       PROVE  nodes[frames[i].node].kids[k] # n
  <2>1. PICK q \in Inner : q = frames[i].node
    BY <1>15
  <2>2. q # p
    BY <1>1, <1>2, <1>3, <1>6, <1>15, <2>1 DEF Stacked
  <2>3. nodes[nodes[q].kids[k]].parent = q
    BY <1>1, <2>1, KidsBelow
  <2>. QED  BY <1>14, <2>1, <2>2, <2>3
<1>16. CallerIs(m, n, l, c, p)
  <2>1. \A k \in 1 .. Len(nodes[p].kids) : nodes[p].kids[k] = n <=> k = c
    BY <1>8, <1>9, <1>12
  <2>2. c \in 1 .. Len(nodes[p].kids)
    BY <1>8, <1>9, <1>11
  <2>. QED  BY <1>2, <1>3, <1>4, <1>5, <1>6, <1>7, <1>13, <1>15, <2>1, <2>2 DEF CallerIs
<1>. QED  BY <1>11, <1>16

\* What is written of the tree is in the function that reads the file.
LEMMA WrittenAreNodes ==
    ASSUME WInv, NEW r, WrittenFits(r)
    PROVE  \A y \in WrittenIDs : y \in DOMAIN nodes /\ y \in ObjectIDs
BY DEF WInv, TInv, PInv, Shape, NodeShape, ObjectIDs, WrittenFits, ItemFits, WrittenIDs

\* The calls below go on as they were, the one that gets the count with its next kid.
LEMMA CallsFit ==
    ASSUME WInv, NEW r, NEW f, WritingFits(r, f), nodes' = nodes,
           NEW m \in Nat, m > 1, m = Len(frames), NEW n, n = frames[m].node,
           NEW l \in Nat \ {0}, NEW c \in Nat \ {0}, NEW p \in Inner, CallerIs(m, n, l, c, p),
           NEW count \in Nat, Returned(m, count), WrittenIDs' = WrittenIDs \cup {n}
    PROVE  \A i \in 1 .. l : FrameFits(i)'
<1>1. /\ l + 1 = m /\ m - 1 = l /\ l \in 1 .. l /\ l \in 1 .. m
      /\ \A i \in 1 .. l : i \in 1 .. m /\ i # m /\ (i # l => i + 1 \in 1 .. l)
      /\ frames[l] \in FrameRecord /\ frames[l].node = p /\ frames[l].kid = c
      /\ p \in DOMAIN nodes /\ nodes[p].kids \in Seq(Nat)
      /\ \A i \in 1 .. l : frames[i].node # n
      /\ c \in 1 .. Len(nodes[p].kids)
      /\ \A k \in 1 .. Len(nodes[p].kids) : nodes[p].kids[k] = n <=> k = c
      /\ \A i \in 1 .. l : i # l /\ frames[i].node \in Inner =>
            \A k \in 1 .. Len(nodes[frames[i].node].kids) : nodes[frames[i].node].kids[k] # n
  BY DEF CallerIs
<1>2. /\ frames' \in Seq(FrameRecord) /\ Len(frames') = l
      /\ \A i \in 1 .. l : i # l => frames'[i] = frames[i]
      /\ frames'[l].node = p /\ frames'[l].kid = c + 1
  BY <1>1 DEF Returned
<1>3. /\ \A i \in 1 .. m : FrameFits(i)
      /\ Inner' = Inner
  BY DEF WritingFits, Stacked, Inner
<1>4. PICK d \in Nat : d = Len(nodes[p].kids)
  BY <1>1, LenProperties
<1>5. FrameFits(l)'
  <2>1. l + 1 \notin 1 .. Len(frames')
    BY <1>1, <1>2
  <2>2. c \in 1 .. d /\ c + 1 >= 1 /\ c + 1 <= d + 1 /\ \A k \in 1 .. d : k < c + 1 <=> k < c \/ k = c
    BY <1>1, <1>4
  <2>3. p \notin WrittenIDs'
    BY <1>1, <1>3 DEF FrameFits
  <2>4. \A k \in 1 .. d : nodes[p].kids[k] \in WrittenIDs <=> k < c
    BY <1>1, <1>3, <1>4 DEF FrameFits
  <2>5. \A k \in 1 .. d : nodes[p].kids[k] \in WrittenIDs' <=> k < c + 1
    BY <1>1, <1>4, <2>2, <2>4
  <2>. QED  BY <1>2, <1>3, <1>4, <2>1, <2>2, <2>3, <2>5 DEF FrameFits
<1>6. ASSUME NEW i \in 1 .. l, i # l
      PROVE  FrameFits(i)'
  <2>1. FrameFits(i) /\ frames'[i] = frames[i] /\ i + 1 \in 1 .. l /\ i + 1 \in 1 .. m
    BY <1>1, <1>2, <1>3, <1>6
  <2>2. frames'[i + 1].node = frames[i + 1].node
    BY <1>1, <1>2, <2>1
  <2>3. frames[i].node \notin WrittenIDs'
    BY <1>1, <2>1 DEF FrameFits
  <2>4. frames[i].node \in Inner =>
           \A k \in 1 .. Len(nodes[frames[i].node].kids) :
              nodes[frames[i].node].kids[k] \in WrittenIDs' <=> k < frames[i].kid
    BY <1>1, <1>6, <2>1 DEF FrameFits
  <2>. QED  BY <1>2, <1>3, <2>1, <2>2, <2>3, <2>4 DEF FrameFits
<1>. QED  BY <1>5, <1>6

\* And so do their totals.
LEMMA TotalsFit ==
    ASSUME WInv, NEW r, NEW f, WritingFits(r, f), nodes' = nodes,
           NEW m \in Nat, m > 1, m = Len(frames), NEW n, n \notin WrittenIDs,
           NEW l \in Nat \ {0}, NEW c \in Nat \ {0}, NEW p \in Inner, CallerIs(m, n, l, c, p),
           NEW count \in Nat, Returned(m, count),
           NEW g, NodeIsWritten(f, g, n, count), n \in ObjectIDs
    PROVE  Totalled(g)'
<1>1. /\ l + 1 = m /\ m - 1 = l /\ l \in 1 .. l /\ l \in 1 .. m
      /\ \A i \in 1 .. l : i \in 1 .. m /\ i # m
      /\ frames[l].node = p /\ frames[l].kid = c
      /\ c \in 1 .. Len(nodes[p].kids) /\ nodes[p].kids \in Seq(Nat)
      /\ nodes[p].kids[c] = n /\ frames[l] \in FrameRecord
  BY DEF CallerIs
<1>2. /\ Len(frames') = l
      /\ \A i \in 1 .. l : i # l => frames'[i] = frames[i]
      /\ frames'[l].node = p /\ frames'[l].kid = c + 1
      /\ frames'[l].total = frames[l].total + count
  BY <1>1 DEF Returned
<1>3. /\ Totalled(f) /\ \A i \in 1 .. m : FrameFits(i) /\ frames[i] \in FrameRecord
      /\ Inner' = Inner /\ WrittenFits(r)
  BY ElementOfSeq DEF WritingFits, Stacked, Inner, WInv, WritingTyped
<1>4. /\ g \in [ObjectIDs -> Seq(Nat)] /\ Len(g[n]) = count
      /\ \A id \in ObjectIDs : id # n => g[id] = f[id]
  BY DEF NodeIsWritten, RightSoFar
<1>5. \A y \in WrittenIDs : g[y] = f[y] /\ y \in ObjectIDs
  BY <1>3, <1>4, WrittenAreNodes
\* The kids before the one a call is at are read as they were.
<1>6. ASSUME NEW i \in 1 .. l, NEW q \in Inner, q = frames[i].node,
             NEW e \in Nat, e = frames[i].kid
      PROVE  /\ \A k \in 1 .. e - 1 : nodes[q].kids[k] \in WrittenIDs
             /\ PagesUpTo(g, nodes[q].kids, e - 1) = PagesUpTo(f, nodes[q].kids, e - 1)
  <2>1. nodes[q].kids \in Seq(Nat)
    BY DEF WInv, TInv, PInv, Shape, NodeShape, NodeRecord, Inner
  <2>2. PICK d \in Nat : d = Len(nodes[q].kids)
    BY <2>1, LenProperties
  <2>3. e <= d + 1 /\ \A k \in 1 .. d : nodes[q].kids[k] \in WrittenIDs <=> k < e
    BY <1>1, <1>3, <1>6, <2>2 DEF FrameFits
  <2>4. \A k \in 1 .. e - 1 : k \in 1 .. d /\ k < e
    BY <2>3
  <2>5. \A k \in 1 .. e - 1 : nodes[q].kids[k] \in WrittenIDs
    BY <2>3, <2>4
  <2>6. \A k \in 1 .. e - 1 : g[nodes[q].kids[k]] = f[nodes[q].kids[k]]
    BY <1>5, <2>5
  <2>. QED  BY <2>5, <2>6, SamePages
<1>7. ASSUME NEW i \in 1 .. l, i # l, frames'[i].node \in Inner
      PROVE  frames'[i].total = Len(PagesUpTo(g, nodes[frames'[i].node].kids, frames'[i].kid - 1))
  <2>1. frames'[i] = frames[i] /\ i \in 1 .. m
    BY <1>1, <1>2, <1>7
  <2>2. PICK e \in Nat : e = frames[i].kid
    BY <1>3, <2>1 DEF FrameRecord
  <2>3. PICK q \in Inner : q = frames[i].node
    BY <1>7, <2>1
  <2>4. frames[i].total = Len(PagesUpTo(f, nodes[q].kids, e - 1))
    BY <1>3, <2>1, <2>2, <2>3 DEF Totalled
  <2>5. PagesUpTo(g, nodes[q].kids, e - 1) = PagesUpTo(f, nodes[q].kids, e - 1)
    BY <1>6, <2>2, <2>3
  <2>. QED  BY <2>1, <2>2, <2>3, <2>4, <2>5
<1>8. frames'[l].total = Len(PagesUpTo(g, nodes[p].kids, c))
  <2>1. PICK j \in Nat : j = c - 1 /\ j + 1 = c
    OBVIOUS
  <2>2. frames[l].total = Len(PagesUpTo(f, nodes[p].kids, j))
    BY <1>1, <1>3, <2>1 DEF Totalled
  <2>3. /\ \A k \in 1 .. j : nodes[p].kids[k] \in WrittenIDs
        /\ PagesUpTo(g, nodes[p].kids, j) = PagesUpTo(f, nodes[p].kids, j)
    BY <1>1, <1>6, <2>1
  <2>4. \A k \in 1 .. j + 1 : k \in 1 .. j \/ k = c
    BY <2>1
  <2>5. \A k \in 1 .. j + 1 : g[nodes[p].kids[k]] \in Seq(Nat)
    BY <1>1, <1>4, <1>5, <2>3, <2>4
  <2>6. PagesUpTo(g, nodes[p].kids, j + 1) = PagesUpTo(g, nodes[p].kids, j) \o g[nodes[p].kids[j + 1]]
    BY <2>5, MorePages
  <2>7. PICK s, t \in Seq(Nat) : s = PagesUpTo(g, nodes[p].kids, j) /\ t = g[n]
    <3>1. \A k \in 1 .. j : g[nodes[p].kids[k]] \in Seq(Nat)
      BY <1>4, <1>5, <2>3
    <3>2. j \in 0 .. j
      OBVIOUS
    <3>3. PagesUpTo(g, nodes[p].kids, j) \in Seq(Nat)
      BY <3>1, <3>2, PagesTyped
    <3>. QED  BY <1>4, <3>3
  <2>8. PagesUpTo(g, nodes[p].kids, c) = s \o t
    BY <1>1, <2>1, <2>6, <2>7
  <2>9. Len(s \o t) = Len(s) + Len(t)
    BY ConcatProperties
  <2>. QED  BY <1>2, <1>4, <2>2, <2>3, <2>7, <2>8, <2>9
<1>9. (c + 1) - 1 = c
  OBVIOUS
<1>. QED  BY <1>2, <1>3, <1>7, <1>8, <1>9 DEF Totalled

LEMMA CallerFits ==
    ASSUME WInv, NEW r, NEW f, WritingFits(r, f), pc = "write", pc' = "write",
           UNCHANGED <<tree, combinedRoot, originalCount>>,
           NEW m \in Nat, m > 1, m = Len(frames), NEW n, n = frames[m].node,
           NEW count, Ready(f, n, count), Returned(m, count),
           NEW g, NodeIsWritten(f, g, n, count)
    PROVE  WritingFits(r, g)'
<1>1. PICK l \in Nat \ {0}, c \in Nat \ {0}, p \in Inner : CallerIs(m, n, l, c, p)
  BY CallerAt
<1>2. /\ UNCHANGED <<nodes, combinedRoot, originalCount>> /\ ObjectIDs' = ObjectIDs /\ Inner' = Inner
      /\ count \in Nat /\ n \notin WrittenIDs /\ n \in DOMAIN nodes
      /\ WrittenIDs' = WrittenIDs \cup {n}
      /\ Grounded(r) /\ Stacked(r) /\ WrittenFits(r)
  BY DEF tree, ObjectIDs, Inner, Ready, NodeIsWritten, WritingFits
<1>3. n \in ObjectIDs
  BY <1>2 DEF WInv, TInv, PInv, Shape, NodeShape, ObjectIDs
<1>4. Totalled(g)'
  BY <1>1, <1>2, <1>3, TotalsFit
<1>5. /\ l \in 1 .. l /\ 1 \in 1 .. l /\ l # 0 /\ Len(frames') = l
      /\ \A i \in 1 .. l : i \in 1 .. m /\ i # m
      /\ \A i \in 1 .. m : i \in 1 .. l \/ i = m
      /\ \A i \in 1 .. l : frames'[i].node = frames[i].node
      /\ frames[l].node = p /\ c \in 1 .. Len(nodes[p].kids) /\ nodes[p].kids[c] = n
      /\ nodes[p].kids \in Seq(Nat)
  <2>1. /\ l + 1 = m /\ m - 1 = l /\ l \in 1 .. l /\ \A i \in 1 .. l : i \in 1 .. m /\ i # m
        /\ frames[l].node = p /\ c \in 1 .. Len(nodes[p].kids) /\ nodes[p].kids[c] = n
        /\ nodes[p].kids \in Seq(Nat)
    BY <1>1 DEF CallerIs
  <2>2. Len(frames') = l /\ \A i \in 1 .. l : frames'[i].node = frames[i].node
    BY <2>1 DEF Returned
  <2>. QED  BY <2>1, <2>2
<1>6. Stacked(r)'
  <2>1. \A i \in 1 .. l : FrameFits(i)'
    BY <1>1, <1>2, CallsFit
  <2>2. frames'[1].node = r
    BY <1>2, <1>5 DEF Stacked
  <2>3. \A i, j \in 1 .. l : frames'[i].node = frames'[j].node => i = j
    BY <1>2, <1>5 DEF Stacked
  <2>. QED  BY <1>5, <2>1, <2>2, <2>3 DEF Stacked
<1>7. WrittenFits(r)'
  <2>1. /\ \A k \in 1 .. Len(written') : ItemFits(k)'
        /\ \A y \in WrittenIDs' \cap Inner : \A k \in 1 .. Len(nodes[y].kids) :
              nodes[y].kids[k] \in WrittenIDs'
    BY DEF NodeIsWritten
  <2>2. ASSUME NEW y \in WrittenIDs' \ {r}
        PROVE  \E q \in Inner \cap (WrittenIDs' \cup FrameNodes') : y \in ToSet(nodes[q].kids)
    <3>1. FrameNodes' = {frames[i].node : i \in 1 .. l}
      BY <1>5 DEF FrameNodes
    <3>2. FrameNodes \subseteq FrameNodes' \cup {n}
      BY <1>5, <3>1 DEF FrameNodes
    <3>3. CASE y = n
      <4>1. n \in ToSet(nodes[p].kids)
        BY <1>5, LenProperties DEF ToSet
      <4>2. p \in FrameNodes'
        BY <1>5, <3>1
      <4>. QED  BY <3>3, <4>1, <4>2
    <3>4. CASE y \in WrittenIDs
      <4>1. PICK q \in Inner \cap (WrittenIDs \cup FrameNodes) : y \in ToSet(nodes[q].kids)
        BY <1>2, <3>4 DEF WrittenFits
      <4>. QED  BY <1>2, <3>2, <4>1
    <3>. QED  BY <1>2, <3>3, <3>4
  <2>. QED  BY <1>2, <2>1, <2>2 DEF WrittenFits
<1>8. Grounded(r)'
  BY <1>2 DEF Grounded, KidsKnowParent
<1>9. RightSoFar(g, written', ObjectIDs')
  BY <1>2 DEF NodeIsWritten
<1>. QED  BY <1>4, <1>6, <1>7, <1>8, <1>9 DEF WritingFits

\* With the root the file has the whole tree.
LEMMA TreeIsWhole ==
    ASSUME WInv, NEW r, NEW f, WritingFits(r, f), UNCHANGED <<tree, combinedRoot, originalCount>>,
           1 = Len(frames), r = frames[1].node, NEW count, NEW g, NodeIsWritten(f, g, r, count)
    PROVE  /\ AsTheyAre(written') /\ AllListed(r, written') /\ IDsOf(written') = WrittenIDs'
           /\ Grounded(r)'
<1>1. WrittenFits(r) /\ Grounded(r) /\ nodes' = nodes
  BY DEF WritingFits, tree
<1>2. IDsOf(written') = WrittenIDs'
  BY DEF IDsOf, WrittenIDs
<1>3. \A k \in 1 .. Len(written') : ItemFits(k)' /\ WrittenIDs' = WrittenIDs \cup {r}
  BY DEF NodeIsWritten
<1>4. AsTheyAre(written')
  BY <1>1, <1>3 DEF AsTheyAre, ItemFits
<1>5. WrittenIDs' = WrittenIDs \cup {r}
  BY DEF NodeIsWritten
<1>6. FrameNodes = {r}
  <2>1. \A i \in 1 .. 1 : i = 1
    OBVIOUS
  <2>2. 1 \in 1 .. 1
    OBVIOUS
  <2>. QED  BY <2>1, <2>2 DEF FrameNodes
<1>7. AllListed(r, written')
  BY <1>1, <1>2, <1>5, <1>6 DEF AllListed, WrittenFits
<1>8. Grounded(r)'
  BY <1>1 DEF Grounded, KidsKnowParent, Inner
<1>. QED  BY <1>2, <1>4, <1>7, <1>8

LEMMA RootEnds ==
    ASSUME WInv, NEW r, NEW f, WritingFits(r, f), UNCHANGED <<tree, combinedRoot, originalCount>>,
           1 = Len(frames), r = frames[1].node, NEW count, NEW g, NodeIsWritten(f, g, r, count),
           combinedRoot = NoNode
    PROVE  WrittenTreeIsRight'
<1>1. Grounded(r) /\ ObjectIDs' = ObjectIDs
  BY DEF WritingFits, tree, ObjectIDs
<1>2. AsTheyAre(written') /\ AllListed(r, written')
  BY TreeIsWhole
<1>3. PICK v : v = written'
  OBVIOUS
<1>4. RightSoFar(g, v, ObjectIDs) /\ Len(v) \in Nat
  BY <1>3 DEF NodeIsWritten
<1>5. OneEach(v) /\ AsTheyAre(v) /\ AllListed(r, v)
  BY <1>2, <1>3, <1>4 DEF RightSoFar
<1>6. ASSUME NEW k \in 1 .. Len(v)
      PROVE  Linked(v, k)
  BY <1>1, <1>5, TreeIsLinked DEF Linked
<1>. QED  BY <1>1, <1>3, <1>4, <1>6, FileIsRight

LEMMA RootGoesOn ==
    ASSUME WInv, NEW r, NEW f, WritingFits(r, f), UNCHANGED <<tree, combinedRoot, originalCount>>,
           1 = Len(frames), r = frames[1].node, NEW count, NEW g, NodeIsWritten(f, g, r, count),
           combinedRoot # NoNode, frames' = <<>>, pc' = "combine"
    PROVE  WritingFits(r, g)'
<1>1. /\ AsTheyAre(written') /\ AllListed(r, written') /\ IDsOf(written') = WrittenIDs'
      /\ Grounded(r)'
  BY TreeIsWhole
<1>2. ObjectIDs' = ObjectIDs /\ Inner' = Inner /\ UNCHANGED <<nodes, combinedRoot>>
  BY DEF tree, ObjectIDs, Inner
<1>3. Len(frames') = 0 /\ \A i \in 1 .. Len(frames') : FALSE
  OBVIOUS
<1>4. Stacked(r)'
  BY <1>3 DEF Stacked
<1>5. Totalled(g)'
  BY <1>3 DEF Totalled
<1>6. WrittenFits(r)'
  <2>1. /\ \A k \in 1 .. Len(written') : ItemFits(k)'
        /\ \A y \in WrittenIDs' \cap Inner : \A k \in 1 .. Len(nodes[y].kids) :
              nodes[y].kids[k] \in WrittenIDs'
        /\ Len(written') # 0 /\ written'[Len(written')].id = r
    BY DEF NodeIsWritten
  <2>2. \A y \in WrittenIDs' \ {r} : \E p \in Inner \cap (WrittenIDs' \cup FrameNodes') :
           y \in ToSet(nodes[p].kids)
    BY <1>1 DEF AllListed
  <2>. QED  BY <1>2, <2>1, <2>2 DEF WrittenFits
<1>7. RightSoFar(g, written', ObjectIDs')
  BY <1>2 DEF NodeIsWritten
<1>. QED  BY <1>1, <1>4, <1>5, <1>6, <1>7 DEF WritingFits

LEMMA WriteNodeFits ==
    ASSUME WInv, TInv', pc = "write", NEW r, NEW f, WritingFits(r, f),
           NEW n, n = Top.node, NEW count, Ready(f, n, count), WriteNode(count)
    PROVE  WInv'
<1>1. /\ written' = Append(written, WrittenNode(n, nodes[n].parent, nodes[n].kids, count))
      /\ frames' = Return(count)
      /\ pc' = IF Len(frames) > 1 THEN "write"
               ELSE IF combinedRoot = NoNode THEN "written" ELSE "combine"
      /\ UNCHANGED <<tree, page, at, returns, combinedRoot, pages, originalCount>>
  BY DEF WriteNode
<1>2. nodes' = nodes /\ nextID' = nextID
  BY <1>1 DEF tree
<1>3. PICK g : NodeIsWritten(f, g, n, count)
  BY <1>1, <1>2, NodeWritten
<1>4. frames \in Seq(FrameRecord) /\ Stacked(r) /\ combinedRoot \in ObjectIDs \cup {NoNode}
  BY DEF WInv, WritingTyped, WritingFits
<1>5. PICK m \in Nat \ {0} : m = Len(frames)
  <2>1. Len(frames) \in Nat /\ Len(frames) # 0
    BY <1>4, LenProperties DEF Stacked
  <2>. QED  BY <2>1
<1>6. n = frames[m].node /\ count \in Nat
  BY <1>5 DEF Top, Last, Ready
<1>7. ~Growing /\ ~Growing' /\ pc' \in {"write", "combine", "written"}
  BY <1>1 DEF Growing
<1>8. /\ Numbered' /\ CallFits' /\ ObjectIDs' = ObjectIDs /\ FrameRecord' = FrameRecord
      /\ Inner' = Inner
  <2>1. UNCHANGED <<tree, page, at, returns, originalCount>>
    BY <1>1
  <2>. QED  BY <1>7, <2>1, SameNumbers
<1>9. UNCHANGED <<tree, combinedRoot, originalCount>>
  BY <1>1
<1>10. CASE m > 1
  <2>1. pc' = "write"
    BY <1>1, <1>5, <1>10
  <2>2. Returned(m, count)
    BY <1>1, <1>4, <1>5, <1>6, <1>10, ReturnIs
  <2>3. WritingFits(r, g)'
    BY <1>3, <1>5, <1>6, <1>9, <1>10, <2>1, <2>2, CallerFits
  <2>4. WritingTyped'
    BY <1>3, <1>4, <1>8, <1>9, <2>2 DEF WritingTyped, Returned, NodeIsWritten
  <2>5. WrittenTreeIsRight'
    BY <2>1 DEF WrittenTreeIsRight
  <2>. QED  BY <1>8, <2>3, <2>4, <2>5 DEF WInv
<1>11. CASE m = 1
  <2>1. frames' = <<>> /\ ~(1 > 1)
    BY <1>1, <1>5, <1>11 DEF Return
  <2>2. n = r
    BY <1>4, <1>6, <1>11 DEF Stacked
  <2>3. WritingTyped'
    <3>1. \A S : <<>> \in Seq(S)
      OBVIOUS
    <3>. QED  BY <1>3, <1>4, <1>8, <1>9, <2>1, <3>1 DEF WritingTyped, NodeIsWritten
  <2>4. NodeIsWritten(f, g, r, count) /\ 1 = Len(frames) /\ r = frames[1].node
    BY <1>3, <1>5, <1>6, <1>11, <2>2
  <2>5. CASE combinedRoot = NoNode
    <3>1. pc' = "written"
      BY <1>1, <2>1, <2>4, <2>5
    <3>2. WrittenTreeIsRight'
      BY <1>9, <2>4, <2>5, RootEnds
    <3>. QED  BY <1>8, <2>3, <3>1, <3>2 DEF WInv
  <2>6. CASE combinedRoot # NoNode
    <3>1. pc' = "combine"
      BY <1>1, <2>1, <2>4, <2>6
    <3>2. WritingFits(r, g)'
      BY <1>9, <2>1, <2>4, <2>6, <3>1, RootGoesOn
    <3>3. WrittenTreeIsRight'
      BY <3>1 DEF WrittenTreeIsRight
    <3>. QED  BY <1>8, <2>3, <3>2, <3>3 DEF WInv
  <2>. QED  BY <2>5, <2>6
<1>. QED  BY <1>5, <1>10, <1>11

LEMMA WriteLeafParentFits ==
    ASSUME WInv, TInv', WriteLeafParent
    PROVE  WInv'
<1>1. pc = "write" /\ nodes[Top.node].isLeafParent
      /\ WriteNode(Len(nodes[Top.node].kids))
  BY DEF WriteLeafParent, InWritePageTree
<1>2. PICK r, f : WritingFits(r, f)
  BY <1>1 DEF WInv
<1>3. PICK n \in DOMAIN nodes, m \in Nat \ {0} :
         /\ m = Len(frames) /\ Top = frames[m] /\ m \in 1 .. m
         /\ frames[m] \in FrameRecord /\ frames[m].node = n
         /\ FrameFits(m) /\ n \notin WrittenIDs
         /\ nodes[n] \in NodeRecord /\ NodeShape(n) /\ KidsFit(n)
         /\ \A i \in 1 .. m : frames[i].node = n => i = m
  BY <1>1, <1>2, TopFrame
<1>4. n = Top.node /\ n \notin Inner
  BY <1>1, <1>3 DEF Inner
<1>5. PICK count : count = Len(nodes[n].kids)
  OBVIOUS
<1>6. /\ Len(nodes[n].kids) = Len(PagesUpTo(f, nodes[n].kids, Len(nodes[n].kids)))
      /\ Len(nodes[n].kids) \in Nat
  BY <1>2, <1>3, <1>4, LeafCounted
<1>7. Ready(f, n, count)
  BY <1>3, <1>4, <1>5, <1>6 DEF Ready
<1>8. WriteNode(count)
  BY <1>1, <1>4, <1>5
<1>. QED  BY <1>1, <1>2, <1>4, <1>7, <1>8, WriteNodeFits

LEMMA WriteInnerFits ==
    ASSUME WInv, TInv', WriteInner
    PROVE  WInv'
<1>1. pc = "write" /\ ~nodes[Top.node].isLeafParent /\ Top.kid > Len(nodes[Top.node].kids)
      /\ WriteNode(Top.total)
  BY DEF WriteInner, InWritePageTree
<1>2. PICK r, f : WritingFits(r, f)
  BY <1>1 DEF WInv
<1>3. PICK n \in DOMAIN nodes, m \in Nat \ {0} :
         /\ m = Len(frames) /\ Top = frames[m] /\ m \in 1 .. m
         /\ frames[m] \in FrameRecord /\ frames[m].node = n
         /\ FrameFits(m) /\ n \notin WrittenIDs
         /\ nodes[n] \in NodeRecord /\ NodeShape(n) /\ KidsFit(n)
         /\ \A i \in 1 .. m : frames[i].node = n => i = m
  BY <1>1, <1>2, TopFrame
<1>4. n = Top.node /\ n \in Inner /\ m \in 1 .. Len(frames)
  BY <1>1, <1>3 DEF Inner
<1>5. PICK count : count = frames[m].total
  OBVIOUS
<1>6. frames[m].kid > Len(nodes[n].kids)
  BY <1>1, <1>3, <1>4
<1>7. /\ frames[m].total = Len(PagesUpTo(f, nodes[n].kids, Len(nodes[n].kids)))
      /\ frames[m].total \in Nat
      /\ \A k \in 1 .. Len(nodes[n].kids) : nodes[n].kids[k] \in WrittenIDs
  BY <1>2, <1>3, <1>4, <1>6, InnerCounted
<1>8. Ready(f, n, count)
  BY <1>3, <1>5, <1>7 DEF Ready
<1>9. WriteNode(count)
  BY <1>1, <1>3, <1>5
<1>. QED  BY <1>1, <1>2, <1>4, <1>8, <1>9, WriteNodeFits

-----------------------------------------------------------------------------
(***************************************************************************)
(* The original root is written again, and the root of both.               *)
(***************************************************************************)
LEMMA TwoIn ==
    ASSUME NEW S, NEW a \in S, NEW b \in S, NEW two, two = <<a, b>>
    PROVE  two \in Seq(S) /\ Len(two) = 2 /\ two[1] = a /\ two[2] = b
OBVIOUS

LEMMA TwoMore ==
    ASSUME NEW S, NEW w \in Seq(S), NEW a \in S, NEW b \in S
    PROVE  w \o <<a, b>> = Append(Append(w, a), b)
<1>0. PICK two : two = <<a, b>>
  OBVIOUS
<1>1. two \in Seq(S) /\ Len(two) = 2 /\ two[1] = a /\ two[2] = b
  BY <1>0, TwoIn
<1>2. PICK n \in Nat : n = Len(w)
  BY LenProperties
<1>3. /\ w \o two \in Seq(S) /\ Len(w \o two) = n + 2
      /\ \A i \in 1 .. n + 2 : (w \o two)[i] = IF i <= n THEN w[i] ELSE two[i - n]
  <2>1. PICK s \in Seq(S) : s = two
    BY <1>1
  <2>2. /\ w \o s \in Seq(S) /\ Len(w \o s) = Len(w) + Len(s)
        /\ \A i \in 1 .. Len(w) + Len(s) :
              (w \o s)[i] = IF i <= Len(w) THEN w[i] ELSE s[i - Len(w)]
    BY ConcatProperties
  <2>. QED  BY <1>1, <1>2, <2>1, <2>2
<1>4. PICK v \in Seq(S) : v = Append(w, a)
  BY AppendProperties
<1>5. /\ Len(v) = n + 1 /\ v[n + 1] = a /\ \A i \in 1 .. n : v[i] = w[i]
  BY <1>2, <1>4, AppendProperties
<1>6. PICK u \in Seq(S) : u = Append(v, b)
  BY AppendProperties
<1>7. /\ Len(u) = (n + 1) + 1 /\ u[(n + 1) + 1] = b /\ \A i \in 1 .. n + 1 : u[i] = v[i]
  BY <1>5, <1>6, AppendProperties
<1>8. ASSUME NEW i \in 1 .. n + 2
      PROVE  (w \o two)[i] = u[i]
  <2>1. CASE i \in 1 .. n
    <3>1. i <= n /\ i \in 1 .. n + 1
      BY <2>1
    <3>. QED  BY <1>3, <1>5, <1>7, <2>1, <3>1
  <2>2. CASE i = n + 1
    <3>1. ~(i <= n) /\ i - n = 1 /\ i \in 1 .. n + 1
      BY <2>2
    <3>2. (w \o two)[i] = two[1]
      BY <1>3, <3>1
    <3>. QED  BY <1>1, <1>5, <1>7, <2>2, <3>1, <3>2
  <2>3. CASE i = n + 2
    <3>1. ~(i <= n) /\ i - n = 2 /\ i = (n + 1) + 1
      BY <2>3
    <3>2. (w \o two)[i] = two[2]
      BY <1>3, <3>1
    <3>. QED  BY <1>1, <1>7, <3>1, <3>2
  <2>4. i \in 1 .. n \/ i = n + 1 \/ i = n + 2
    OBVIOUS
  <2>. QED  BY <2>1, <2>2, <2>3, <2>4
<1>9. Len(u) = n + 2
  BY <1>7
<1>. QED  BY <1>0, <1>1, <1>3, <1>4, <1>6, <1>8, <1>9, SeqEqual

\* The objects of the modified document are none of the new tree's, nor is the new root.
OldFits(r, f) ==
    /\ originalCount \in Nat /\ ObjectIDs \subseteq Nat
    /\ 1 \in ObjectIDs /\ r \in ObjectIDs /\ 1 # r
    /\ combinedRoot \in ObjectIDs /\ combinedRoot # NoNode /\ combinedRoot # 1 /\ combinedRoot # r
    /\ OriginalKids \in Seq(ObjectIDs) /\ Len(OriginalKids) = originalCount
    /\ \A k \in 1 .. originalCount :
          /\ OriginalKids[k] \in ObjectIDs /\ OriginalKids[k] \notin IDsOf(written)
          /\ OriginalKids[k] # 1 /\ OriginalKids[k] # combinedRoot
    /\ 1 \notin IDsOf(written) /\ combinedRoot \notin IDsOf(written)
    /\ \A k \in 1 .. Len(written) : /\ 1 \notin ToSet(written[k].kids)
                                    /\ combinedRoot \notin ToSet(written[k].kids)
    /\ r \in IDsOf(written) /\ NewPagesRoot = r /\ NewPagesCount = Len(f[r])

LEMMA OldIs ==
    ASSUME WInv, pc = "combine", NEW r, NEW f, WritingFits(r, f)
    PROVE  OldFits(r, f)
<1>1. /\ Grounded(r) /\ WrittenFits(r) /\ RightSoFar(f, written, ObjectIDs) /\ WritingTyped
      /\ Shape /\ Numbered /\ NumbersFit
  <2>1. Shape /\ Numbered /\ CallFits
    BY DEF WInv, TInv, PInv
  <2>. QED  BY <2>1, NumbersAre DEF WritingFits, WInv
<1>2. PICK o, m \in Nat : o = originalCount /\ m = nextID /\ o + 2 <= m
  BY <1>1 DEF NumbersFit
<1>3. ObjectIDs = 1 .. m - 1 /\ ObjectIDs \subseteq Nat /\ 1 \in ObjectIDs
  <2>1. \A i \in 1 .. m - 1 : i \in Nat
    OBVIOUS
  <2>2. 1 \in 1 .. m - 1
    BY <1>2
  <2>. QED  BY <1>2, <2>1, <2>2 DEF ObjectIDs
<1>4. \A n \in DOMAIN nodes : n \in ObjectIDs /\ n \in Nat /\ n > o + 1
  BY <1>1, <1>2, <1>3 DEF NumbersFit
<1>5. IDsOf(written) \subseteq DOMAIN nodes
  BY <1>1 DEF IDsOf, WrittenFits, ItemFits
<1>6. PICK c \in ObjectIDs : c = combinedRoot /\ c # NoNode /\ c > o + 1 /\ c \notin DOMAIN nodes
  BY <1>1, <1>2 DEF WritingTyped, WrittenFits, Grounded
<1>7. 1 \notin DOMAIN nodes /\ c # 1 /\ r \in DOMAIN nodes
  <2>1. ~(1 > o + 1)
    BY <1>2
  <2>. QED  BY <1>1, <1>4, <1>6, <2>1 DEF Grounded
<1>8. \A k \in 1 .. o : 1 + k \in 1 .. m - 1 /\ 1 + k # 1 /\ ~(1 + k > o + 1)
  BY <1>2
<1>9. OriginalKids = [k \in 1 .. o |-> 1 + k]
  BY <1>2 DEF OriginalKids, OriginalRoot
<1>10. OriginalKids \in [1 .. o -> ObjectIDs]
  BY <1>3, <1>8, <1>9
<1>11. OriginalKids \in Seq(ObjectIDs) /\ Len(OriginalKids) = o
  <2>1. OriginalKids \in Seq(ObjectIDs)
    BY <1>10, SeqDef
  <2>. QED  BY <1>10, <2>1, LenProperties
<1>12. ASSUME NEW k \in 1 .. o
       PROVE  /\ OriginalKids[k] \in ObjectIDs /\ OriginalKids[k] \notin IDsOf(written)
              /\ OriginalKids[k] # 1 /\ OriginalKids[k] # c
  BY <1>3, <1>4, <1>5, <1>6, <1>8, <1>9
<1>13. ASSUME NEW k \in 1 .. Len(written)
       PROVE  1 \notin ToSet(written[k].kids) /\ c \notin ToSet(written[k].kids)
  <2>1. PICK n \in DOMAIN nodes : n = written[k].id /\ written[k].kids = nodes[n].kids
    BY <1>1 DEF WrittenFits, ItemFits
  <2>2. \A i \in 1 .. Len(nodes[n].kids) : nodes[n].kids[i] # c /\ nodes[n].kids[i] > o + 1
    BY <1>1, <1>2, <1>6 DEF Grounded, NumbersFit
  <2>3. ~(1 > o + 1)
    BY <1>2
  <2>. QED  BY <2>1, <2>2, <2>3, KidAt
<1>14. PICK l \in 1 .. Len(written) : l = Len(written) /\ written[l].id = r
  <2>1. Len(written) \in Nat /\ Len(written) # 0 /\ written[Len(written)].id = r
    BY <1>1, LenProperties DEF WritingTyped, WrittenFits
  <2>2. Len(written) \in 1 .. Len(written)
    BY <2>1
  <2>. QED  BY <2>1, <2>2
<1>15. r \in IDsOf(written) /\ NewPagesRoot = r /\ NewPagesCount = Len(f[r])
  BY <1>1, <1>14 DEF IDsOf, NewPagesRoot, NewPagesCount, Last, RightSoFar
<1>. QED  BY <1>2, <1>3, <1>4, <1>5, <1>6, <1>7, <1>11, <1>12, <1>13, <1>15 DEF OldFits

LEMMA OldRootRead ==
    ASSUME WInv, pc = "combine", NEW r, NEW f, WritingFits(r, f),
           NEW x, x = WrittenNode(OriginalRoot, combinedRoot, OriginalKids, originalCount),
           NEW v, v = Append(written, x)
    PROVE  /\ ReadOn(f, x, v, ObjectIDs) /\ Added(written, x, v, ObjectIDs)
           /\ Len(PagesUpTo(f, OriginalKids, originalCount)) = originalCount
<1>0. PICK w, I : w = written /\ I = ObjectIDs
  OBVIOUS
<1>1. OldFits(r, f)
  BY OldIs
<1>2. PICK o \in Nat : w = written /\ I = ObjectIDs /\ o = originalCount
  BY <1>0, <1>1 DEF OldFits
<1>3. PICK kids \in Seq(I) : kids = OriginalKids /\ Len(kids) = o
  BY <1>1, <1>2 DEF OldFits
<1>4. w \in Seq(WrittenRecord(I)) /\ RightSoFar(f, w, I)
  BY <1>2 DEF WInv, WritingTyped, WritingFits
<1>5. /\ x \in WrittenRecord(I) /\ x.id = 1 /\ x.kids = kids /\ x.count = o
  BY <1>1, <1>2, <1>3 DEF OldFits, WrittenNode, WrittenRecord, OriginalRoot
<1>6. ASSUME NEW k \in 1 .. o
      PROVE  f[kids[k]] = <<kids[k]>> /\ kids[k] \in Nat
  <2>1. PICK p \in I : p = kids[k] /\ p \notin IDsOf(w)
    BY <1>1, <1>2, <1>3 DEF OldFits
  <2>2. ReadsAt(f, w, I)
    BY <1>4, ReadsPointwise DEF RightSoFar
  <2>3. f[p] = <<p>>
    BY <2>1, <2>2 DEF ReadsAt, Reading
  <2>. QED  BY <1>1, <1>2, <2>1, <2>3 DEF OldFits
<1>7. Len(PagesUpTo(f, kids, o)) = o
  BY <1>6, SinglePages
<1>8. x.id \notin IDsOf(w) /\ \A k \in 1 .. Len(w) : x.id \notin ToSet(w[k].kids)
  BY <1>1, <1>2, <1>5 DEF OldFits
<1>9. x.id \notin ToSet(x.kids)
  <2>1. \A k \in 1 .. o : kids[k] # 1
    BY <1>1, <1>2, <1>3 DEF OldFits
  <2>. QED  BY <1>3, <1>5, <2>1, LenProperties DEF ToSet
<1>10. I \subseteq Nat /\ x.count = Len(PagesUpTo(f, x.kids, Len(x.kids))) /\ v = Append(w, x)
  BY <1>1, <1>2, <1>3, <1>5, <1>7 DEF OldFits
<1>11. ReadOn(f, x, v, I)
  BY <1>4, <1>5, <1>8, <1>9, <1>10, OneMore
<1>12. Added(w, x, v, I)
  <2>1. OneEach(w)
    BY <1>4 DEF RightSoFar
  <2>. QED  BY <1>4, <1>5, <1>8, <1>10, <2>1, ItemAdded
<1>. QED  BY <1>2, <1>3, <1>7, <1>11, <1>12

LEMMA NewRootRead ==
    ASSUME WInv, pc = "combine", NEW r, NEW f, WritingFits(r, f),
           NEW x, x = WrittenNode(OriginalRoot, combinedRoot, OriginalKids, originalCount),
           NEW v, v = Append(written, x),
           NEW y, y = WrittenNode(combinedRoot, NoNode, <<OriginalRoot, NewPagesRoot>>,
                                  originalCount + NewPagesCount),
           NEW u, u = Append(v, y)
    PROVE  (\E g : RightSoFar(g, u, ObjectIDs)) /\ Added(v, y, u, ObjectIDs)
<1>0. PICK I : I = ObjectIDs
  OBVIOUS
<1>1. OldFits(r, f)
  BY OldIs
<1>2. /\ ReadOn(f, x, v, ObjectIDs) /\ Added(written, x, v, ObjectIDs)
      /\ Len(PagesUpTo(f, OriginalKids, originalCount)) = originalCount
  BY OldRootRead
<1>3. PICK o \in Nat, c \in I :
         I = ObjectIDs /\ o = originalCount /\ c = combinedRoot /\ I \subseteq Nat
         /\ 1 \in I /\ r \in I /\ 1 # r /\ c # 1 /\ c # r
  BY <1>0, <1>1 DEF OldFits
<1>4. /\ x.id = 1 /\ x.kids = OriginalKids /\ Len(x.kids) = o
  BY <1>1, <1>3 DEF WrittenNode, OriginalRoot, OldFits
<1>5. PICK g : /\ RightSoFar(g, v, I) /\ g[1] = PagesUpTo(f, x.kids, Len(x.kids))
               /\ \A id \in I : id # 1 => g[id] = f[id]
  BY <1>2, <1>3, <1>4 DEF ReadOn
<1>6. g \in [I -> Seq(Nat)] /\ Len(g[1]) = o /\ g[r] = f[r]
  BY <1>2, <1>3, <1>4, <1>5 DEF RightSoFar
<1>70. PICK list : list = <<1, r>>
  OBVIOUS
<1>7. PICK kids \in Seq(I) : kids = <<1, r>> /\ Len(kids) = 2 /\ kids[1] = 1 /\ kids[2] = r
  <2>1. list \in Seq(I) /\ Len(list) = 2 /\ list[1] = 1 /\ list[2] = r
    BY <1>3, <1>70, TwoIn
  <2>. QED  BY <1>70, <2>1
<1>8. PICK s, t \in Seq(Nat) : s = g[1] /\ t = g[r]
  BY <1>3, <1>6
<1>9. PICK count \in Nat : count = Len(t) /\ count = NewPagesCount
  BY <1>1, <1>6, <1>8, LenProperties DEF OldFits
<1>10. PagesUpTo(g, kids, 2) = s \o t
  <2>1. /\ \A k \in 1 .. 0 + 1 : g[kids[k]] \in Seq(Nat)
        /\ \A k \in 1 .. 1 + 1 : g[kids[k]] \in Seq(Nat)
    <3>1. \A k \in 1 .. 2 : k = 1 \/ k = 2
      OBVIOUS
    <3>2. \A k \in 1 .. 2 : g[kids[k]] \in Seq(Nat)
      BY <1>7, <1>8, <3>1
    <3>3. 0 + 1 = 1 /\ 1 + 1 = 2 /\ \A k \in 1 .. 1 : k \in 1 .. 2
      OBVIOUS
    <3>. QED  BY <3>2, <3>3
  <2>2. PagesUpTo(g, kids, 0 + 1) = PagesUpTo(g, kids, 0) \o g[kids[0 + 1]]
    BY <2>1, MorePages
  <2>3. PagesUpTo(g, kids, 1 + 1) = PagesUpTo(g, kids, 1) \o g[kids[1 + 1]]
    BY <2>1, MorePages
  <2>4. 0 + 1 = 1 /\ 1 + 1 = 2
    OBVIOUS
  <2>5. PagesUpTo(g, kids, 0) = <<>>
    BY NoPages
  <2>6. <<>> \o s = s
    BY ConcatEmptySeq
  <2>. QED  BY <1>7, <1>8, <2>2, <2>3, <2>4, <2>5, <2>6
<1>11. Len(s \o t) = o + count
  <2>1. Len(s \o t) = Len(s) + Len(t)
    BY ConcatProperties
  <2>. QED  BY <1>6, <1>8, <1>9, <2>1
<1>12. PICK total \in Nat : total = o + count
  OBVIOUS
<1>13. y = [id |-> c, parent |-> NoNode, kids |-> kids, count |-> total]
  BY <1>1, <1>3, <1>7, <1>9, <1>12 DEF WrittenNode, OriginalRoot, OldFits
<1>14. y \in WrittenRecord(I) /\ y.id = c /\ y.kids = kids /\ y.count = total
  BY <1>3, <1>13 DEF WrittenRecord
<1>15. y.count = Len(PagesUpTo(g, y.kids, Len(y.kids)))
  BY <1>7, <1>10, <1>11, <1>12, <1>14
<1>16. /\ v \in Seq(WrittenRecord(I)) /\ Len(v) = Len(written) + 1
       /\ v[Len(v)] = x /\ \A k \in 1 .. Len(written) : v[k] = written[k]
       /\ \A k \in 1 .. Len(v) : k \in 1 .. Len(written) \/ k = Len(v)
       /\ IDsOf(v) = IDsOf(written) \cup {1} /\ OneEach(v)
  BY <1>2, <1>3, <1>4 DEF Added
<1>17. y.id \notin IDsOf(v)
  BY <1>1, <1>3, <1>14, <1>16 DEF OldFits
<1>18. c \notin ToSet(x.kids)
  <2>1. PICK old \in Seq(I) : old = x.kids
    BY <1>1, <1>3, <1>4 DEF OldFits
  <2>2. \A k \in 1 .. o : old[k] # c
    BY <1>1, <1>3, <1>4, <2>1 DEF OldFits
  <2>3. DOMAIN old = 1 .. o
    BY <1>4, <2>1, LenProperties
  <2>. QED  BY <2>1, <2>2, <2>3 DEF ToSet
<1>19. \A k \in 1 .. Len(v) : y.id \notin ToSet(v[k].kids)
  BY <1>1, <1>3, <1>14, <1>16, <1>18 DEF OldFits
<1>20. y.id \notin ToSet(y.kids)
  <2>1. DOMAIN kids = 1 .. 2 /\ \A k \in 1 .. 2 : k = 1 \/ k = 2
    BY <1>7, LenProperties
  <2>. QED  BY <1>3, <1>7, <1>14, <2>1 DEF ToSet
<1>21. ReadOn(g, y, u, I)
  BY <1>3, <1>5, <1>14, <1>15, <1>16, <1>17, <1>19, <1>20, OneMore
<1>22. Added(v, y, u, I)
  BY <1>14, <1>16, <1>17, ItemAdded
<1>. QED  BY <1>3, <1>21, <1>22 DEF ReadOn

\* The root of the new tree and the original one name the root of both.
LEMMA CombinedLinked ==
    ASSUME WInv, pc = "combine", NEW r, NEW f, WritingFits(r, f),
           NEW x, x = WrittenNode(OriginalRoot, combinedRoot, OriginalKids, originalCount),
           NEW v, Added(written, x, v, ObjectIDs),
           NEW y, y = WrittenNode(combinedRoot, NoNode, <<OriginalRoot, NewPagesRoot>>,
                                  originalCount + NewPagesCount),
           NEW u, Added(v, y, u, ObjectIDs)
    PROVE  \A k \in 1 .. Len(u) : Linked(u, k)
<1>1. OldFits(r, f)
  BY OldIs
<1>2. PICK w, c : w = written /\ c = combinedRoot
  OBVIOUS
<1>3. /\ Grounded(r) /\ WrittenFits(r) /\ Stacked(r) /\ OneEach(w)
  BY <1>2 DEF WritingFits, RightSoFar
<1>4. x.id = 1 /\ x.parent = c /\ x.kids = OriginalKids
  BY <1>2 DEF WrittenNode, OriginalRoot
<1>5. PICK two : two = <<1, r>>
  OBVIOUS
<1>6. y.id = c /\ y.parent = NoNode /\ y.kids = two
  BY <1>1, <1>2, <1>5 DEF WrittenNode, OriginalRoot, OldFits
<1>7. 1 \in ToSet(two) /\ r \in ToSet(two) /\ \A j \in ToSet(two) : j = 1 \/ j = r
  <2>1. Len(two) = 2 /\ two[1] = 1 /\ two[2] = r /\ DOMAIN two = 1 .. 2
    BY <1>5
  <2>2. 1 \in 1 .. 2 /\ 2 \in 1 .. 2 /\ \A j \in 1 .. 2 : j = 1 \/ j = 2
    OBVIOUS
  <2>. QED  BY <2>1, <2>2 DEF ToSet
<1>8. /\ v[Len(v)] = x /\ \A k \in 1 .. Len(w) : v[k] = w[k]
      /\ \A k \in 1 .. Len(v) : k \in 1 .. Len(w) \/ k = Len(v)
      /\ IDsOf(v) = IDsOf(w) \cup {1} /\ ItemOf(v, 1) = x
      /\ \A id \in IDsOf(w) : ItemOf(v, id) = ItemOf(w, id)
  BY <1>2, <1>4 DEF Added
<1>9. /\ u[Len(u)] = y /\ \A k \in 1 .. Len(v) : u[k] = v[k]
      /\ \A k \in 1 .. Len(u) : k \in 1 .. Len(v) \/ k = Len(u)
      /\ IDsOf(u) = IDsOf(v) \cup {c} /\ ItemOf(u, c) = y
      /\ \A id \in IDsOf(v) : ItemOf(u, id) = ItemOf(v, id)
  BY <1>6 DEF Added
<1>10. /\ IDsOf(u) = IDsOf(w) \cup {1, c} /\ ItemOf(u, c) = y /\ ItemOf(u, 1) = x
       /\ \A id \in IDsOf(w) : ItemOf(u, id) = ItemOf(w, id)
  BY <1>8, <1>9
<1>11. AsTheyAre(w) /\ AllListed(r, w)
  <2>1. \A i \in 1 .. Len(frames) : FALSE
    BY <1>3 DEF Stacked
  <2>2. FrameNodes = {} /\ IDsOf(w) = WrittenIDs
    BY <1>2, <2>1 DEF FrameNodes, IDsOf, WrittenIDs
  <2>. QED  BY <1>2, <1>3, <2>2 DEF AsTheyAre, AllListed, WrittenFits, ItemFits
<1>12. ASSUME NEW k \in 1 .. Len(w)
       PROVE  /\ \A j \in ToSet(w[k].kids) \cap IDsOf(w) : ItemOf(w, j).parent = w[k].id
              /\ \/ w[k].id = r /\ w[k].parent = c
                 \/ /\ w[k].id # r /\ w[k].parent \in IDsOf(w)
                    /\ w[k].id \in ToSet(ItemOf(w, w[k].parent).kids)
  BY <1>2, <1>3, <1>11, TreeIsLinked
<1>13. ASSUME NEW k \in 1 .. Len(w), k \in 1 .. Len(u), u[k] = w[k]
       PROVE  Linked(u, k)
  <2>1. 1 \notin ToSet(w[k].kids) /\ c \notin ToSet(w[k].kids)
    BY <1>1, <1>2 DEF OldFits
  <2>2. \A j \in ToSet(w[k].kids) \cap IDsOf(u) : ItemOf(u, j).parent = w[k].id
    BY <1>10, <1>12, <2>1
  <2>3. \/ w[k].id = r /\ w[k].parent = c
        \/ /\ w[k].parent \in IDsOf(w)
           /\ w[k].id \in ToSet(ItemOf(u, w[k].parent).kids)
    BY <1>10, <1>12
  <2>4. w[k].parent \in IDsOf(u) /\ w[k].id \in ToSet(ItemOf(u, w[k].parent).kids)
    BY <1>6, <1>7, <1>10, <2>3
  <2>. QED  BY <1>13, <2>2, <2>4 DEF Linked
<1>14. ASSUME NEW k \in 1 .. Len(u), u[k] = x
       PROVE  Linked(u, k)
  <2>1. \A j \in ToSet(OriginalKids) : j \notin IDsOf(w) /\ j # 1 /\ j # c
    <3>1. PICK o \in Nat, kids \in Seq(ObjectIDs) :
             o = originalCount /\ kids = OriginalKids /\ Len(kids) = o
      BY <1>1 DEF OldFits
    <3>2. \A i \in 1 .. o : kids[i] \notin IDsOf(w) /\ kids[i] # 1 /\ kids[i] # c
      BY <1>1, <1>2, <3>1 DEF OldFits
    <3>3. DOMAIN kids = 1 .. o
      BY <3>1, LenProperties
    <3>. QED  BY <3>1, <3>2, <3>3 DEF ToSet
  <2>2. c \in IDsOf(u) /\ 1 \in ToSet(ItemOf(u, c).kids)
    BY <1>6, <1>7, <1>10
  <2>. QED  BY <1>4, <1>10, <1>14, <2>1, <2>2 DEF Linked
<1>15. ASSUME NEW k \in 1 .. Len(u), u[k] = y
       PROVE  Linked(u, k)
  <2>1. ItemOf(u, r).parent = c
    <3>1. r \in IDsOf(w)
      BY <1>1, <1>2 DEF OldFits
    <3>2. PICK j \in 1 .. Len(w) : w[j].id = r
      BY <3>1 DEF IDsOf
    <3>3. ItemOf(w, r) = w[j]
      BY <1>3, <3>2, ItemIs
    <3>. QED  BY <1>10, <1>12, <3>1, <3>2, <3>3
  <2>2. ItemOf(u, 1).parent = c
    BY <1>4, <1>10
  <2>. QED  BY <1>6, <1>7, <1>15, <2>1, <2>2 DEF Linked
<1>16. ASSUME NEW k \in 1 .. Len(u)
       PROVE  Linked(u, k)
  <2>1. CASE k = Len(u)
    BY <1>9, <1>15, <2>1
  <2>2. CASE k = Len(v) /\ k \in 1 .. Len(v)
    BY <1>8, <1>9, <1>14, <2>2
  <2>3. CASE k \in 1 .. Len(w) /\ k \in 1 .. Len(v)
    BY <1>8, <1>9, <1>13, <2>3
  <2>. QED  BY <1>8, <1>9, <2>1, <2>2, <2>3
<1>. QED  BY <1>16

LEMMA FinishCombinedFits ==
    ASSUME WInv, TInv', FinishCombined
    PROVE  WInv'
<1>1. /\ pc = "combine" /\ pc' = "written"
      /\ nodes' = [nodes EXCEPT ![NewPagesRoot].parent = NoNode]
      /\ written' = written \o CombinedNodes
      /\ UNCHANGED <<nextID, page, at, returns, frames, combinedRoot, originalCount>>
  BY DEF FinishCombined
<1>2. PICK r, f : WritingFits(r, f)
  BY <1>1 DEF WInv
<1>3. OldFits(r, f)
  BY <1>1, <1>2, OldIs
<1>4. PICK x : x = WrittenNode(OriginalRoot, combinedRoot, OriginalKids, originalCount)
  OBVIOUS
<1>5. PICK y : y = WrittenNode(combinedRoot, NoNode, <<OriginalRoot, NewPagesRoot>>,
                               originalCount + NewPagesCount)
  OBVIOUS
<1>6. PICK v : v = Append(written, x)
  OBVIOUS
<1>7. PICK u : u = Append(v, y)
  OBVIOUS
<1>8. Added(written, x, v, ObjectIDs)
  BY <1>1, <1>2, <1>4, <1>6, OldRootRead
<1>9. (\E g : RightSoFar(g, u, ObjectIDs)) /\ Added(v, y, u, ObjectIDs)
  BY <1>1, <1>2, <1>4, <1>5, <1>6, <1>7, NewRootRead
<1>10. \A k \in 1 .. Len(u) : Linked(u, k)
  BY <1>1, <1>2, <1>4, <1>5, <1>8, <1>9, CombinedLinked
<1>11. ObjectIDs' = ObjectIDs
  BY <1>1 DEF ObjectIDs
<1>12. u \in Seq(WrittenRecord(ObjectIDs)) /\ Len(u) \in Nat
  BY <1>9, LenProperties DEF Added
<1>13. written' = u
  <2>1. x \in WrittenRecord(ObjectIDs)
    <3>1. v \in Seq(WrittenRecord(ObjectIDs)) /\ Len(v) \in 1 .. Len(v) /\ v[Len(v)] = x
      BY <1>8 DEF Added
    <3>. QED  BY <3>1, ElementOfSeq
  <2>2. y \in WrittenRecord(ObjectIDs)
    <3>1. Len(u) \in 1 .. Len(u) /\ u[Len(u)] = y
      BY <1>9 DEF Added
    <3>. QED  BY <1>12, <3>1, ElementOfSeq
  <2>3. written \in Seq(WrittenRecord(ObjectIDs))
    BY DEF WInv, WritingTyped
  <2>4. written' = written \o <<x, y>>
    BY <1>1, <1>4, <1>5 DEF CombinedNodes
  <2>. QED  BY <1>6, <1>7, <2>1, <2>2, <2>3, <2>4, TwoMore
<1>14. WrittenTreeIsRight'
  <2>1. PICK g : RightSoFar(g, u, ObjectIDs)
    BY <1>9
  <2>2. /\ RightSoFar(g, written', ObjectIDs') /\ Len(written') \in Nat
        /\ \A k \in 1 .. Len(written') : Linked(written', k)
    BY <1>10, <1>11, <1>12, <1>13, <2>1
  <2>. QED  BY <2>2, FileIsRight
<1>15. /\ Shape /\ Numbered /\ CallFits /\ WritingTyped
  BY DEF WInv, TInv, PInv
<1>16. NewPagesRoot = r /\ r \in DOMAIN nodes
  BY <1>2, <1>3 DEF OldFits, WritingFits, Grounded
<1>17. /\ DOMAIN nodes' = DOMAIN nodes
       /\ \A n \in DOMAIN nodes : /\ nodes'[n].kids = nodes[n].kids
                                  /\ nodes'[n].isLeafParent = nodes[n].isLeafParent
       /\ nodes'[r].parent = NoNode
       /\ \A n \in DOMAIN nodes \ {r} : nodes'[n].parent = nodes[n].parent
  <2>1. \A n \in DOMAIN nodes : nodes[n] \in NodeRecord
    BY <1>15 DEF Shape, NodeShape
  <2>. QED  BY <1>1, <1>16, <2>1 DEF NodeRecord
<1>18. Numbered'
  <2>1. ASSUME NEW n \in DOMAIN nodes
        PROVE  KidsFit(n)' /\ nodes'[n].parent \in ObjectIDs' \cup {NoNode}
    <3>1. KidsFit(n) /\ originalCount' = originalCount
          /\ nodes[n].parent \in ObjectIDs \cup {NoNode}
      BY <1>1, <1>15 DEF Numbered
    <3>2. KidsFit(n)'
      BY <1>17, <3>1 DEF KidsFit
    <3>. QED  BY <1>11, <1>17, <3>1, <3>2
  <2>. QED  BY <1>17, <2>1 DEF Numbered
<1>19. CallFits'
  <2>1. ~Growing' /\ pc' # "climb"
    BY <1>1 DEF Growing
  <2>. QED  BY <1>1, <1>11, <1>15, <1>17, <2>1 DEF CallFits
<1>20. WritingTyped'
  <2>1. FrameRecord' = FrameRecord
    BY <1>17 DEF FrameRecord
  <2>. QED  BY <1>1, <1>11, <1>12, <1>13, <1>15, <2>1 DEF WritingTyped
<1>. QED  BY <1>1, <1>14, <1>18, <1>19, <1>20 DEF WInv

-----------------------------------------------------------------------------
(***************************************************************************)
(* The file of every run.                                                  *)
(***************************************************************************)
LEMMA NothingHappens ==
    ASSUME WInv, TInv', UNCHANGED vars
    PROVE  WInv'
<1>1. UNCHANGED <<nextID, nodes, current, pc, page, at, returns, frames, combinedRoot, written,
                  originalCount>>
  BY DEF vars, tree, writing
<1>2. ObjectIDs' = ObjectIDs /\ Inner' = Inner /\ FrameRecord' = FrameRecord
      /\ WrittenIDs' = WrittenIDs /\ FrameNodes' = FrameNodes
  BY <1>1 DEF ObjectIDs, Inner, FrameRecord, WrittenIDs, FrameNodes
<1>3. Numbered' /\ CallFits' /\ WritingTyped'
  <2>1. Numbered /\ CallFits /\ WritingTyped
    BY DEF WInv
  <2>2. Numbered'
    BY <1>1, <1>2, <2>1 DEF Numbered, KidsFit
  <2>3. CallFits'
    BY <1>1, <1>2, <2>1 DEF CallFits, Growing
  <2>4. WritingTyped'
    BY <1>1, <1>2, <2>1 DEF WritingTyped
  <2>. QED  BY <2>2, <2>3, <2>4
<1>4. ASSUME NEW r, NEW f, WritingFits(r, f)
      PROVE  WritingFits(r, f)'
  <2>1. Grounded(r)'
    BY <1>1, <1>2, <1>4 DEF WritingFits, Grounded, KidsKnowParent
  <2>2. Stacked(r)'
    BY <1>1, <1>2, <1>4 DEF WritingFits, Stacked, FrameFits
  <2>3. WrittenFits(r)'
    BY <1>1, <1>2, <1>4 DEF WritingFits, WrittenFits, ItemFits
  <2>4. RightSoFar(f, written', ObjectIDs')
    BY <1>1, <1>2, <1>4 DEF WritingFits
  <2>5. Totalled(f)'
    BY <1>1, <1>2, <1>4 DEF WritingFits, Totalled
  <2>. QED  BY <2>1, <2>2, <2>3, <2>4, <2>5 DEF WritingFits
<1>5. WrittenTreeIsRight'
  <2>1. PagesBelow' = PagesBelow
    BY <1>1, <1>2 DEF PagesBelow, Written
  <2>2. WrittenTreeIsRight
    BY DEF WInv
  <2>. QED  BY <1>1, <1>2, <2>1, <2>2 DEF WrittenTreeIsRight, Written
<1>6. pc' \in {"write", "combine"} => \E r, f : WritingFits(r, f)'
  BY <1>1, <1>4 DEF WInv
<1>. QED  BY <1>3, <1>5, <1>6 DEF WInv

LEMMA StepWInv == WInv /\ [Next]_vars => WInv'
<1>. SUFFICES ASSUME WInv, [Next]_vars PROVE WInv'
  OBVIOUS
<1>1. TInv /\ TInv'
  <2>1. TInv
    BY DEF WInv
  <2>. QED  BY <2>1, StepTInv
<1>2. CASE AddFirstPage
  BY <1>1, <1>2, AddFirstPageFits
<1>3. CASE AddPageToCurrent
  BY <1>1, <1>3, AddPageToCurrentFits
<1>4. CASE StartAddingPage
  BY <1>1, <1>4, StartAddingPageFits
<1>5. CASE ClimbToParent
  BY <1>1, <1>5, ClimbToParentFits
<1>6. CASE ClimbToNewParent
  BY <1>1, <1>6, ClimbToNewParentFits
<1>7. CASE CreateBrother
  BY <1>1, <1>7, CreateBrotherFits
<1>8. CASE CreateBrotherAndAddPage
  BY <1>1, <1>8, CreateBrotherAndAddPageFits
<1>9. CASE EndWithoutPages
  BY <1>1, <1>9, EndWithoutPagesFits
<1>10. CASE StartWritingPagesTree
  BY <1>1, <1>10, StartWritingPagesTreeFits
<1>11. CASE StartWritingCombined
  BY <1>1, <1>11, StartWritingCombinedFits
<1>12. CASE WriteLeafParent
  BY <1>1, <1>12, WriteLeafParentFits
<1>13. CASE VisitKid
  BY <1>1, <1>13, VisitKidFits
<1>14. CASE WriteInner
  BY <1>1, <1>14, WriteInnerFits
<1>15. CASE FinishCombined
  BY <1>1, <1>15, FinishCombinedFits
<1>16. CASE ShutdownAndContinue
  <2>1. nodes' = nodes
    <3>1. Growing
      BY <1>16 DEF ShutdownAndContinue, Growing
    <3>2. PICK h : Levels(h)
      BY <1>1, <3>1 DEF TInv
    <3>. QED  BY <1>1, <1>16, <3>2, RestartStep DEF TInv
  <2>. QED  BY <1>1, <1>16, <2>1, ShutdownAndContinueFits
<1>17. CASE Ended \/ UNCHANGED vars
  <2>1. UNCHANGED vars
    BY <1>17 DEF Ended
  <2>. QED  BY <1>1, <2>1, NothingHappens
<1>. QED  BY <1>2, <1>3, <1>4, <1>5, <1>6, <1>7, <1>8, <1>9, <1>10, <1>11, <1>12, <1>13, <1>14,
             <1>15, <1>16, <1>17 DEF Next, AddingPage, WritingTree

LEMMA Typed == WInv => TypeOK
<1>. SUFFICES ASSUME WInv PROVE TypeOK
  OBVIOUS
<1>1. /\ TInv /\ PInv /\ Shape /\ Numbered /\ CallFits /\ WritingTyped
      /\ PagesNameTheirParent /\ restarts \in Nat
  BY DEF WInv, TInv, PInv
<1>2. \A n \in DOMAIN nodes : n \in ObjectIDs /\ NodeShape(n)
  BY <1>1 DEF Shape, NodeShape, ObjectIDs
<1>3. ASSUME NEW n \in DOMAIN nodes
      PROVE  /\ nodes[n] \in Node /\ Len(nodes[n].kids) <= PAGE_TREE_LEVEL_SIZE
             /\ \A y \in ToSet(nodes[n].kids) : y \in ObjectIDs
  <2>1. /\ nodes[n] \in NodeRecord /\ nodes[n].parent \in ObjectIDs \cup {NoNode}
        /\ Len(nodes[n].kids) <= PAGE_TREE_LEVEL_SIZE
        /\ \A k \in 1 .. Len(nodes[n].kids) : nodes[n].kids[k] \in ObjectIDs
    BY <1>1, <1>2 DEF NodeShape, Numbered, KidsFit, ObjectIDs
  <2>2. PICK s \in Seq(Nat) : s = nodes[n].kids
    BY <2>1 DEF NodeRecord
  <2>3. s \in Seq(ObjectIDs)
    BY <2>1, <2>2, ListAmong DEF AllIn
  <2>4. nodes[n] \in Node
    BY <2>1, <2>2, <2>3 DEF NodeRecord, Node
  <2>. QED  BY <2>1, <2>4, KidAt
<1>4. pages \in Seq([id : ObjectIDs, parent : DOMAIN nodes])
  <2>1. PICK m \in Nat : m = Len(pages)
    BY <1>1, LenProperties DEF Shape
  <2>2. pages \in [1 .. m -> [id : Nat, parent : Nat]]
    BY <1>1, <2>1, LenProperties DEF Shape
  <2>3. ASSUME NEW k \in 1 .. m
        PROVE  pages[k] \in [id : ObjectIDs, parent : DOMAIN nodes]
    <3>1. PICK p \in [id : Nat, parent : Nat] : p = pages[k]
      BY <2>2
    <3>2. p.parent \in DOMAIN nodes /\ p.id \in ToSet(nodes[p.parent].kids)
      BY <1>1, <2>1, <3>1 DEF PagesNameTheirParent
    <3>3. p.id \in ObjectIDs
      BY <1>3, <3>2
    <3>4. p = [id |-> p.id, parent |-> p.parent]
      OBVIOUS
    <3>. QED  BY <3>1, <3>2, <3>3, <3>4
  <2>4. PICK S : S = [id : ObjectIDs, parent : DOMAIN nodes]
    OBVIOUS
  <2>5. pages \in [1 .. m -> S]
    BY <2>2, <2>3, <2>4
  <2>6. pages \in Seq(S)
    BY <2>5, SeqDef
  <2>. QED  BY <2>4, <2>6
<1>5. frames \in Seq([node : DOMAIN nodes, kid : Nat, total : Nat])
      /\ written \in Seq([id : ObjectIDs, parent : ObjectIDs \cup {NoNode},
                          kids : Seq(ObjectIDs), count : Nat])
      /\ combinedRoot \in ObjectIDs \cup {NoNode}
  BY <1>1 DEF WritingTyped, FrameRecord, WrittenRecord
<1>6. nextID \in Nat \ {0} /\ current \in DOMAIN nodes \cup {NoNode}
  BY <1>1 DEF Shape
<1>7. /\ pc \in {"idle", "climb", "write", "combine", "written"}
      /\ page \in ObjectIDs \cup {0} /\ at \in DOMAIN nodes \cup {NoNode} /\ returns \in Nat
  BY <1>1 DEF CallFits
<1>. QED  BY <1>1, <1>2, <1>3, <1>4, <1>5, <1>6, <1>7 DEF TypeOK

-----------------------------------------------------------------------------
\* The nodes are allocated objects with no more kids than their array has places, in a
\* tree that grows, in one that is written and in one that is brought back; what is
\* written names objects.
THEOREM NodesTyped == Spec => []TypeOK
<1>. QED  BY Typed, InitWInv, StepWInv, PTL DEF Spec

\* WritePageTree, alone or from WriteCombinedPageTree, writes a tree: each node once,
\* with the number of pages a reader finds below it and the parent that lists it.
THEOREM WrittenTreeCorrect == Spec => []WrittenTreeIsRight
<1>1. WInv => WrittenTreeIsRight
  BY DEF WInv
<1>. QED  BY <1>1, InitWInv, StepWInv, PTL DEF Spec
=============================================================================
