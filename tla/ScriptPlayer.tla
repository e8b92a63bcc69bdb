---------------------------- MODULE ScriptPlayer ----------------------------
(***************************************************************************)
(* What a controller promises to whoever asks it to play: scripts begin in *)
(* the order they were accepted, the events of each are performed once and *)
(* in the order the script gives them, a single command goes before what   *)
(* is left, and a stop clears all of it.  The next script is only chosen   *)
(* by a player that is off, which it is when nothing is left, when it was  *)
(* asked to stop, or when a wait for its lock has run out; a script that   *)
(* is playing is never cut short for another.                              *)
(*                                                                         *)
(* A command that arrives while the next script is being chosen is not     *)
(* promised anything: the script takes its place, or the player is off.    *)
(***************************************************************************)
EXTENDS Integers, Sequences

CONSTANTS
  Scripts,
  Length,     \* the number of events of each script
  Commands,
  Timeouts    \* whether a wait for the player's lock may run out

VARIABLES
  playlist,   \* the scripts accepted and not begun
  playing,    \* the events left of the script that is playing
  on,         \* whether they are being performed
  choosing,   \* the next script is being chosen
  stopping    \* a stop has been asked for

Events(s) == [k \in 1 .. Length[s] |-> <<s, k>>]

Init ==
  /\ playlist = <<>> /\ playing = <<>>
  /\ on = FALSE /\ choosing = FALSE /\ stopping = FALSE

Accept(s) ==
  /\ playlist' = Append(playlist, s)
  /\ UNCHANGED <<playing, on, choosing, stopping>>

Insert(c) ==
  /\ playing' = <<<<c, 1>>>> \o playing
  /\ on' = TRUE
  /\ UNCHANGED <<playlist, choosing, stopping>>

Choose ==
  /\ ~on /\ ~choosing
  /\ choosing' = TRUE
  /\ UNCHANGED <<playlist, playing, on, stopping>>

Start ==
  /\ choosing /\ playlist # <<>>
  /\ playing' = Events(Head(playlist))
  /\ playlist' = Tail(playlist)
  /\ on' = (playing' # <<>>)
  /\ choosing' = FALSE
  /\ UNCHANGED stopping

\* Nothing to begin, or a script that cannot be read is passed over.
BeginNothing ==
  /\ choosing
  /\ choosing' = FALSE
  /\ \/ playlist' = playlist
     \/ playlist # <<>> /\ playlist' = Tail(playlist)
  /\ on' \in {on, FALSE}
  /\ UNCHANGED <<playing, stopping>>

Play ==
  /\ ~choosing /\ playing # <<>>
  /\ playing' = Tail(playing)
  /\ on' = (on /\ playing' # <<>>)
  /\ UNCHANGED <<playlist, choosing, stopping>>

AskToStop ==
  /\ ~stopping
  /\ stopping' = TRUE /\ on' = FALSE
  /\ UNCHANGED <<playlist, playing, choosing>>

Clear ==
  /\ stopping
  /\ playlist' = <<>> /\ playing' = <<>>
  /\ UNCHANGED <<on, choosing, stopping>>

Stopped ==
  /\ stopping /\ playlist = <<>> /\ playing = <<>>
  /\ stopping' = FALSE /\ on' = FALSE
  /\ UNCHANGED <<playlist, playing, choosing>>

\* A wait that runs out halts the player, or leaves a stop half done.
RunOut ==
  /\ Timeouts
  /\ \/ on' = FALSE /\ UNCHANGED stopping
     \/ stopping' = FALSE /\ UNCHANGED on
  /\ UNCHANGED <<playlist, playing, choosing>>

Next ==
  \/ \E s \in Scripts : Accept(s)
  \/ \E c \in Commands : Insert(c)
  \/ Choose \/ Start \/ BeginNothing \/ Play
  \/ AskToStop \/ Clear \/ Stopped \/ RunOut

vars == <<playlist, playing, on, choosing, stopping>>

Spec == Init /\ [][Next]_vars
=============================================================================
