---------------------------- MODULE MCTripContent ----------------------------
(* Instances of TripContent for TLC. *)
EXTENDS TripContent

CONSTANTS a1, a2, a3

MCTexts == {"", "drafted", "renamed", "d", "l", "x"}
MCBlank == ""
MCDraftName == "drafted"
MCArtifactIDs == {a1, a2, a3}
MCArtifacts == <<a1, a2>>

Empty == [name |-> Absent, description |-> Absent, startDate |-> Absent, endDate |-> Absent,
          location |-> Absent, artifacts |-> Absent]

Day == {Absent, Null, 1, 2}

At(lat, lon) == [latitude |-> lat, longitude |-> lon]

Coordinates ==
  {Absent, Null} \cup {At(lat, lon) : lat \in {Absent, Null, 1}, lon \in {Absent, Null, 2}}

Where(label, address, coordinates) ==
  [label |-> label, address |-> address, coordinates |-> coordinates]

Words ==
  {[Empty EXCEPT !.name = n] : n \in {Null, Blank, "renamed"}}
  \cup {[Empty EXCEPT !.description = d] : d \in {Null, "d"}}

Dates == {[Empty EXCEPT !.startDate = s, !.endDate = e] : s \in Day, e \in Day}

Locations ==
  {[Empty EXCEPT !.location = l] : l \in
     {Null, Where(Null, Absent, Absent), Where("l", Absent, Absent),
      Where(Absent, "x", Absent), Where(Absent, Null, Absent)}
     \cup {Where(Absent, Absent, c) : c \in Coordinates}}

Orders ==
  {[Empty EXCEPT !.artifacts = ids] : ids \in
     {Null, <<>>, <<a2>>, <<a2, a1>>, <<a1, a2, a1>>, <<a1, a1>>, <<a1, a3>>}}

\* A body that names a field of each part.
Mixed == [name |-> "renamed", description |-> "d", startDate |-> 2, endDate |-> 1,
          location |-> Where("l", "x", At(1, 2)), artifacts |-> <<a2>>]

\* Each part of the content on its own, and a few bodies of all of them.
MCCampaigns ==
  {Words \cup Dates, Locations \cup Orders}
  \cup {{Mixed, [Mixed EXCEPT !.startDate = Absent]}
         \cup {[Empty EXCEPT !.startDate = 1], [Empty EXCEPT !.startDate = Null],
               [Empty EXCEPT !.location = Where(Absent, Absent, At(1, Null))],
               [Empty EXCEPT !.location = Where(Absent, Absent, Null)],
               [Empty EXCEPT !.artifacts = <<a2, a1, a2>>]}}
=============================================================================
