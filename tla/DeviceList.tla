----------------------------- MODULE DeviceList -----------------------------
(***************************************************************************)
(* What t2audio_init_cmd does with the T2's list of audio devices, as the  *)
(* rest of the driver sees it: the list is got once, and its devices are   *)
(* taken one after the other, each to be listed or left out.               *)
(***************************************************************************)
EXTENDS Sequences, SequencesExt

CONSTANT Devices

VARIABLES
  todo,     \* the devices still to be gone through
  listed    \* the subdevices, in the order of a->subdevice_list

listVars == <<todo, listed>>

Init ==
  /\ todo = <<>>
  /\ listed = <<>>

(* The T2 names each of its devices once, or not at all. *)
Got ==
  /\ listed = <<>>
  /\ todo' \in SetToAllKPermutations(Devices)
  /\ UNCHANGED listed

Skip ==
  /\ todo # <<>>
  /\ todo' = Tail(todo)
  /\ UNCHANGED listed

List ==
  /\ todo # <<>>
  /\ todo' = Tail(todo)
  /\ listed' = Append(listed, Head(todo))

Next == Got \/ Skip \/ List

Spec == Init /\ [][Next]_listVars
=============================================================================
