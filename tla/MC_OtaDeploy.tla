---------------------------- MODULE MC_OtaDeploy ----------------------------
(* Agendas of the operator for the runs of OtaDeploy. *)
EXTENDS OtaDeploy

CONSTANTS p1, p2

One == {<< <<p1>> >>}
MasterThenOne == {<< <<Master, p1>> >>}
MasterBetween == {<< <<p1, Master, p2>> >>}
Mixed ==
  {<< <<p1, p2>> >>, << <<p1>>, <<>>, <<p1>> >>, << <<Master>>, <<p1, Master>> >>}
=============================================================================
