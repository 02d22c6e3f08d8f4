----------------------------- MODULE Receivers -----------------------------
(***************************************************************************)
(* A subscription's messages go to the receiver that its sink asks for     *)
(* (venue/router.cc, MakeReceiverFactoryCallback()): a FileWriter records  *)
(* them, a Transmitter gives them to its Stream and whoever watches it.    *)
(***************************************************************************)
EXTENDS FileWriter, Stream

VARIABLE sink

receiversVars == <<sink, vars, outboxVars>>

MakeReceiver == {"record", "live"}

ReceiversInit == sink \in MakeReceiver /\ Init /\ StreamInit

RecordStep == sink = "record" /\ Next /\ UNCHANGED <<sink, outboxVars>>

LiveStep == sink = "live" /\ StreamNext /\ UNCHANGED <<sink, vars>>

ReceiversNext == RecordStep \/ LiveStep

ReceiversSpec == ReceiversInit /\ [][ReceiversNext]_receiversVars
=============================================================================
