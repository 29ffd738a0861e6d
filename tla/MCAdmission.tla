---------------------------- MODULE MCAdmission ----------------------------
(* Small instances of Admission for TLC. *)
EXTENDS Admission
CONSTANTS remote, local     \* a client on the network, and one on this machine
MCSockets == {remote, local}
MCSends == [s \in MCSockets |->
    IF s = remote THEN Frames ELSE {"auth", "auth_local"}]
=============================================================================
