----------------------------- MODULE TripDocument -----------------------------
(***************************************************************************)
(* What PATCH /trips/{tripId} promises about a trip's content: the content *)
(* is a flat document, and a request that is answered 200 has overridden   *)
(* the fields it names, all of them and no other.                          *)
(***************************************************************************)
EXTENDS Naturals, SequencesExt

CONSTANTS
  Keep,  \* the request does not name the field
  Null,
  Blank  \* the empty text

VARIABLES doc, request, accepted

vars == <<doc, request, accepted>>

\* "located": 1 if there is a meeting location, even one that says nothing.
Fields == {"name", "description", "startDate", "endDate", "located", "label",
           "address", "latitude", "longitude", "artifacts"}

Nothing == [f \in Fields |-> Keep]

Overridden(d, ask) == [f \in Fields |-> IF ask[f] = Keep THEN d[f] ELSE ask[f]]

\* The document may take the place of d.
Sound(d, new) ==
  /\ new.name # Blank
  /\ Null \notin {new.startDate, new.endDate} => new.startDate <= new.endDate
  /\ ToSet(new.artifacts) \subseteq ToSet(d.artifacts)

\* One coordinate without the other: a backend may take it or leave it.
Lone(new) == (new.latitude = Null) # (new.longitude = Null)

Init ==
  /\ Sound(doc, doc)
  /\ request = Nothing
  /\ accepted = FALSE

Patch ==
  LET new == Overridden(doc, request')
  IN  \/ accepted' /\ Sound(doc, new) /\ doc' = new
      \/ ~accepted' /\ (Sound(doc, new) => Lone(new)) /\ doc' = doc

Spec == Init /\ [][Patch]_vars

=============================================================================
