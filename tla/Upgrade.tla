------------------------------- MODULE Upgrade -------------------------------
(***************************************************************************)
(* Four readers of one message, each a FieldIter: one generated from the   *)
(* newest schema; one generated from an older schema that knows fewer      *)
(* fields; and two with the newest schema for the two halves of a message  *)
(* that was cut somewhere.  They share no state, so they run one after the *)
(* other, in the variables of FieldIter.                                   *)
(***************************************************************************)
EXTENDS FieldIter

CONSTANT OldNrs     \* the field numbers the older schema has

VARIABLES
    newest,     \* the newest schema
    message,    \* all of the bytes
    cut,        \* the number of bytes in the first half
    earlier     \* what the readers before made of it: [got, failed]

given == <<newest, message, cut>>

UpgradeInit ==
    /\ Init
    /\ newest = schema
    /\ message = buf
    /\ cut \in 0..Len(message)
    /\ earlier = << >>

\* The reader at work is called; the last one even after it has returned None.
Call ==
    /\ res # "none" \/ Len(earlier) = 3
    /\ Next
    /\ UNCHANGED <<given, earlier>>

Reading == [got |-> got, failed |-> failed]

\* It has returned None; another reader starts on s.
Start(sch, s) ==
    /\ res = "none"
    /\ schema' = sch
    /\ buf' = s
    /\ got' = << >> /\ failed' = "none" /\ res' = "not called" /\ turn' = 0
    /\ earlier' = Append(earlier, Reading)
    /\ UNCHANGED given

OldSchema == [nr \in DOMAIN newest \cap OldNrs |-> newest[nr]]

StartOld == Len(earlier) = 0 /\ Start(OldSchema, message)

StartHead == Len(earlier) = 1 /\ Start(newest, SubSeq(message, 1, cut))

StartRest == Len(earlier) = 2 /\ Start(newest, After(message, cut))

UpgradeNext == Call \/ StartOld \/ StartHead \/ StartRest

\* Each caller is a loop: it keeps calling.  (A call is always possible, so this is
\* WF_uvars(UpgradeNext), without an ENABLED for TLC to evaluate.)
UpgradeSpec ==
    /\ UpgradeInit
    /\ [][UpgradeNext]_<<vars, given, earlier>>
    /\ []<><<UpgradeNext>>_<<vars, given, earlier>>

-----------------------------------------------------------------------------
\* What the readers that have returned None made of their bytes.
Readings == IF res = "none" THEN Append(earlier, Reading) ELSE earlier

\* The fields an older reader knows, in their order.
Known(fields) ==
    LET known[i \in 0..Len(fields)] ==
            IF i = 0 THEN << >>
            ELSE IF fields[i][1] \in OldNrs THEN Append(known[i - 1], fields[i])
            ELSE known[i - 1]
    IN  known[Len(fields)]

(***************************************************************************)
(* Forward compatibility: what an older reader makes of a message is what  *)
(* a newer one does, without the fields it does not know - it neither      *)
(* loses, reorders nor makes up a field by skipping, and it fails only on  *)
(* what the newer reader fails on too (scalars.rs skip_field, "enabling    *)
(* forward compatibility").                                                *)
(***************************************************************************)
OldSeesLess ==
    Len(Readings) = 2 =>
        LET new == Readings[1]
            old == Readings[2]
        IN  /\ IsPrefix(Known(new.got), old.got)
            /\ new.failed = "none" => old.failed = "none" /\ old.got = Known(new.got)

(***************************************************************************)
(* A message that was cut off yields a prefix of its fields, each as the   *)
(* whole message has it; a cut inside a field is Truncated, never a        *)
(* shorter field, and any other error is the one the whole message has     *)
(* (scalars.rs DecodeError::Truncated).                                    *)
(***************************************************************************)
CutSeesPrefix ==
    Len(Readings) = 3 =>
        LET whole == Readings[1]
            head  == Readings[3]
        IN  /\ IsPrefix(head.got, whole.got)
            /\ head.failed \notin {"none", "Truncated"} => head = whole

(***************************************************************************)
(* Fields concatenate: where the head reads without an error, the cut was  *)
(* between two fields, and the two halves read separately give what the    *)
(* whole gives - no field's reading depends on what was read before it or  *)
(* on how much lies behind it (scalars.rs decode_varint reads differently  *)
(* when fewer than ten bytes are left).                                    *)
(***************************************************************************)
Concatenates ==
    Len(Readings) = 4 /\ Readings[3].failed = "none" =>
        /\ Readings[1].got = Readings[3].got \o Readings[4].got
        /\ Readings[1].failed = Readings[4].failed
=============================================================================
