--------------------------- MODULE Announcements ---------------------------
(***************************************************************************)
(* What the outbox pattern promises: an order is announced to the other    *)
(* services only after it was stored, and every stored order whose event   *)
(* can be published at all is announced in the end.  How often an order is *)
(* announced is left open.                                                 *)
(***************************************************************************)
CONSTANTS
    Orders,       \* orders that may be placed
    Unroutable    \* orders whose event has no topic

VARIABLES
    stored,       \* orders in the database
    announced     \* orders whose event reached the topic

announcementVars == <<stored, announced>>

AnnouncementsInit == stored = {} /\ announced = {}

Store(o) ==
    /\ stored' = stored \union {o}
    /\ UNCHANGED announced

Announce(o) ==
    /\ o \in stored
    /\ announced' = announced \union {o}
    /\ UNCHANGED stored

AnnouncementsNext == \E o \in Orders : Store(o) \/ Announce(o)

AnnouncementsSpec == AnnouncementsInit /\ [][AnnouncementsNext]_announcementVars

FairAnnouncementsSpec ==
    /\ AnnouncementsSpec
    /\ \A o \in Orders \ Unroutable : WF_announcementVars(Announce(o))
=============================================================================
