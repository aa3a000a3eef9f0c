----------------------------- MODULE ServiceFiles -----------------------------
(***************************************************************************)
(* The configuration that a service's setup checks and writes: one file for *)
(* dhcpcd, dnsmasq and hostapd, several pieces for Avahi (the host name) and *)
(* wpa_supplicant.  The check reads only some of the pieces, and a kill     *)
(* leaves the one being written torn: what an interrupted setup leaves      *)
(* undone is done by the next one only if the check still sees it.          *)
(***************************************************************************)
EXTENDS Integers, Sequences, Functions

VARIABLES
    service,    \* which service this is
    piece,      \* each piece: as it was, "new" as it is to be, or torn by a kill
    step        \* the piece that _setup_config writes next, 0 outside it

fileVars == <<service, piece, step>>

Configured == {"avahi", "wpa_supplicant", "dnsmasq"}    \* dhcpcd and hostapd do as dnsmasq
Plain      == {"NetworkManager"}                        \* and systemd-resolved: no configuration

\* The pieces in the order in which they are written.
Pieces(s) ==
    CASE s = "avahi"          -> <<"/etc/hostname", "hostname", "/etc/hosts", "cloud.cfg">>
      [] s = "wpa_supplicant" -> <<"unitFile", "daemon", "networkFile">>
      [] s = "dnsmasq"        -> <<"file">>
      [] s \in Plain          -> <<>>

AllPieces == UNION {Range(Pieces(s)) : s \in Configured}

\* The piece that _need_config_setup, or the branch in _setup_config, reads for this one.
CheckedBy(p) ==
    CASE p \in {"/etc/hostname", "/etc/hosts", "cloud.cfg"} -> "hostname"
      [] p = "daemon"                                       -> "unitFile"
      [] OTHER                                              -> p

\* Not a file: a command, and the reload of systemd's configuration.
Commands == {"hostname", "daemon"}

\* Edited line by line: torn, they are empty, and the lines are not written again.
Edited == {"unitFile", "/etc/hosts", "cloud.cfg"}

Mine   == Range(Pieces(service))
New(p) == piece[p] = "new"

FilesTypeOK ==
    /\ service \in Configured \cup Plain
    /\ piece \in [AllPieces -> {"old", "new", "torn"}]
    /\ step \in 0..Len(Pieces(service))

\* A fresh image, or one that an earlier setup has completed.
FilesInit ==
    /\ service \in Configured \cup Plain
    /\ \E state \in {"old", "new"} : piece = [p \in AllPieces |-> state]
    /\ step = 0

-------------------------------------------------------------------------------
\* _need_config_setup
NeedConfig == \E p \in Mine : ~New(CheckedBy(p))

\* The next piece to write from position i on: wpa_supplicant's two parts are each
\* written only if their own check says so.
NextStep(i) ==
    LET todo == {j \in i..Len(Pieces(service)) :
                    service = "wpa_supplicant" => ~New(CheckedBy(Pieces(service)[j]))}
    IN  IF todo = {} THEN 0 ELSE CHOOSE j \in todo : \A k \in todo : j <= k

\* Once the unit file is new the reload of the daemon follows, whatever the check says.
AfterStep == IF Pieces(service)[step] = "unitFile" THEN step + 1 ELSE NextStep(step + 1)

\* _setup_config
BeginWriting == step = 0 /\ step' = NextStep(1) /\ UNCHANGED <<service, piece>>

\* Mutant: the daemon is not reloaded.
WritePieceNotDaemon ==
    /\ step # 0
    /\ piece' = [piece EXCEPT ![Pieces(service)[step]] =
                    IF Pieces(service)[step] = "daemon" THEN @ ELSE "new"]
    /\ step' = AfterStep
    /\ UNCHANGED service

WritePiece ==
    /\ step # 0
    /\ piece' = [piece EXCEPT ![Pieces(service)[step]] =
                    IF @ = "torn" /\ Pieces(service)[step] \in Edited THEN "torn" ELSE "new"]
    /\ step' = AfterStep
    /\ UNCHANGED service

\* The process ends inside _setup_config: by a raise before the piece is touched, or by a
\* kill while a file is being written.
Interrupted(killed) ==
    /\ step' = 0
    /\ piece' \in {piece} \cup
           IF killed /\ step # 0 /\ Pieces(service)[step] \notin Commands
           THEN {[piece EXCEPT ![Pieces(service)[step]] = "torn"]} ELSE {}
    /\ UNCHANGED service

\* What no later setup will do: a piece that is not new although its check is passed.
Overlooked == \E p \in Mine : ~New(p) /\ New(CheckedBy(p))

Complete == \A p \in Mine : New(p)
===============================================================================
