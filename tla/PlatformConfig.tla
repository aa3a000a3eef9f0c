---------------------------- MODULE PlatformConfig ----------------------------
(***************************************************************************)
(* PlatformConfig: the two boot files that turn Bluetooth and roaming off.  *)
(* Only what setup looks for in them is kept: for the Bluetooth line, that  *)
(* it is missing; for the roaming line, whether it is there and whether a   *)
(* newline follows it, which is what its removal depends on.                *)
(***************************************************************************)

VARIABLES
    bluetooth,      \* the boot file does not have the line that disables Bluetooth
    roamoff,        \* the driver file's line: absent, ended by a newline, or unended
    needReboot,     \* what the last setup returned
    wanted          \* history: the roaming option of the last setup that returned

platformVars == <<bluetooth, roamoff, needReboot, wanted>>

Options == {"disable", "enable"}

PlatformTypeOK ==
    /\ bluetooth \in BOOLEAN /\ needReboot \in BOOLEAN
    /\ roamoff \in {"absent", "ended", "unended"}
    /\ wanted \in Options \cup {"none"}

\* The files may have been edited by hand.
PlatformInit ==
    /\ bluetooth \in BOOLEAN
    /\ roamoff \in {"absent", "ended", "unended"}
    /\ needReboot = FALSE /\ wanted = "none"

IsRoamingEnabled == roamoff = "absent"

\* Appended, or written to a new file, without a newline of its own.
DisableRoaming == roamoff' = "unended"

\* Mutant: the line is looked for without the end that it has.
EnableRoamingNever == roamoff' = roamoff

\* Removes the line together with the newline after it, or nothing.
EnableRoaming == roamoff' = IF roamoff = "ended" THEN "absent" ELSE roamoff

SetupPlatform(option) ==
    /\ bluetooth' = FALSE
    /\ CASE option = "disable" /\ IsRoamingEnabled  -> DisableRoaming
         [] option = "enable"  /\ ~IsRoamingEnabled -> EnableRoaming
         [] OTHER                                   -> UNCHANGED roamoff
    /\ needReboot' = (bluetooth \/ (option = "disable") = IsRoamingEnabled)
    /\ wanted' = option

\* The command that sets power saving raises, after the Bluetooth line is written.
SetupPlatformRaises == bluetooth' = FALSE /\ UNCHANGED <<roamoff, needReboot, wanted>>
===============================================================================
