----------------------------- MODULE PhotoSlots -----------------------------
(***************************************************************************)
(* What the photo endpoints promise: a review has a fixed number of        *)
(* places, and a photo is shown once, at one place, until it is gone for   *)
(* good.  A request shows new photos at free places of one review, each at *)
(* its own, or takes shown photos of one review away; it moves none,       *)
(* brings none back and puts none where another is.                        *)
(***************************************************************************)
EXTENDS Integers

CONSTANTS ReviewIds, PhotoIds, MaxPhotos

VARIABLE slot       \* of every photo there has been: where, and whether it still shows

Places == 0..(MaxPhotos - 1)

Slot == [review : ReviewIds, place : Places, shown : BOOLEAN]

Shown(r) == {p \in DOMAIN slot : slot[p].shown /\ slot[p].review = r}
Taken(r) == {slot[p].place : p \in Shown(r)}

Slotted == DOMAIN slot \subseteq PhotoIds /\ slot \in [DOMAIN slot -> Slot]

Init ==
    /\ Slotted
    /\ \A r \in ReviewIds : \A p, o \in Shown(r) : slot[p].place = slot[o].place => p = o

Fill(r) ==
    LET new == DOMAIN slot' \ DOMAIN slot IN
    /\ DOMAIN slot \subseteq DOMAIN slot'
    /\ \A p \in DOMAIN slot : slot'[p] = slot[p]
    /\ \A p \in new :
          /\ slot'[p].review = r /\ slot'[p].shown
          /\ slot'[p].place \notin Taken(r)
          /\ \A o \in new : slot'[o].place = slot'[p].place => o = p

Empty(r) ==
    /\ DOMAIN slot' = DOMAIN slot
    /\ \A p \in DOMAIN slot :
          slot'[p] # slot[p] =>
              /\ p \in Shown(r)
              /\ slot'[p] = [review |-> r, place |-> slot[p].place, shown |-> FALSE]

Next == Slotted' /\ \E r \in ReviewIds : Fill(r) \/ Empty(r)

Spec == Init /\ [][Next]_slot
=============================================================================
