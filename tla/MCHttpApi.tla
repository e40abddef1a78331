----------------------------- MODULE MCHttpApi -----------------------------
(* Instances of HttpApi for TLC. *)
EXTENDS HttpApi, TLC

CONSTANTS s1, s2, s3, t1, t2

Name(v)   == [field |-> "name", value |-> v, padded |-> FALSE]
Padded(t) == [t EXCEPT !.padded = TRUE]
Choice(v) == [field |-> "text", value |-> v, padded |-> FALSE]

Call(op, s, k, t, a) == [op |-> op, subject |-> s, key |-> k, trip |-> t, arg |-> a]

\* Calls without a key: by a member, a newcomer and nobody.
Unkeyed ==
  {Call(op, s, NoKey, NoTrip, NoArg) :
     op \in {"ListMembers", "GetMyMemberProfile", "ListVisibleTripsForMember", "ListMyDraftTrips"},
     s \in {s1, s2, Nobody}}
  \cup {Call(op, s, NoKey, t1, NoArg) :
     op \in {"GetTripDetails", "PublishTrip", "CancelTrip", "GetMyRSVPForTrip", "GetTripRSVPSummary"},
     s \in {s1, s2}}
  \cup {Call(op, s, NoKey, NoTrip, Name("a")) :
     op \in {"CreateMyMember", "CreateTripDraft"}, s \in {s1, s2}}
  \cup {Call("SearchMembers", s, NoKey, NoTrip, Choice("a")) : s \in {s1, s2}}

On(op, t, a) == Call(op, s1, "k", t, a)

\* One call with a key, and another with the same key that differs in one
\* respect or comes from another subject.
Pairs(base, variants) == {{base, v} : v \in variants}

MCCampaigns ==
  {Unkeyed}
  \cup Pairs(On("UpdateMyMemberProfile", NoTrip, Name("a")),
         {On("UpdateMyMemberProfile", NoTrip, a) : a \in {Padded(Name("a")), Name("b")}})
  \cup Pairs(Call("CreateMyMember", s2, NoKey, NoTrip, Name("a")),
         {Call(op, s2, "k", NoTrip, Name("a")) : op \in {"UpdateMyMemberProfile", "CreateTripDraft"}})
  \cup Pairs(On("CreateTripDraft", NoTrip, Name("a")), {On("CreateTripDraft", NoTrip, Padded(Name("a")))})
  \cup Pairs(On("UpdateTrip", t1, Name("a")),
         {On("UpdateTrip", t2, Name("a")), On("CancelTrip", t1, NoArg),
          Call("UpdateTrip", s3, "k", t1, Name("a"))})
  \cup Pairs(On("UpdateTrip", t1, Choice("a")), {On("UpdateTrip", t1, Padded(Choice("a")))})
  \cup UNION {Pairs(On(op, t1, Choice("a")), {On(op, t2, Choice("a"))}) :
         op \in {"SetTripDraftVisibility", "AddTripOrganizer", "RemoveTripOrganizer", "SetMyRSVP"}}
  \cup Pairs(Call("CancelTrip", s1, EmptyKey, t1, NoArg), {Call("CancelTrip", s1, EmptyKey, t2, NoArg)})

MCCalls == UNION MCCampaigns

\* Two campaigns at a time.  CancelTrip keeps no answer under an empty key, so
\* nothing is promised of that one.
MCDoubleCampaigns ==
  LET kept == {C \in MCCampaigns \ {Unkeyed} : \A c \in C : c.key # EmptyKey}
  IN  {C \cup D : C, D \in kept}

MCSymmetry == Permutations(Workers)
=============================================================================
