------------------------------ MODULE SystemProxy ------------------------------
(***************************************************************************)
(* The operating system's HTTP proxy (proxy/access): SetProxy and          *)
(* ClearProxy on macOS, Windows and Linux.  The setting of one network     *)
(* service is modelled; macOS has one for each and treats them alike.  A   *)
(* call of the system may fail, to set the proxy or to clear it, and then       *)
(* changes nothing; the callers drop the error.                            *)
(***************************************************************************)
VARIABLES
    os,
    setting,    \* whether the proxy is on, and which server it names
    authP       \* macOS: whether the user was asked for the right to change it

systemVars == <<os, setting, authP>>

Settings == [on : BOOLEAN, server : {"none", "ours", "other"}]

SystemTypeOK ==
    /\ os \in {"darwin", "windows", "linux"}
    /\ setting \in Settings
    /\ authP \in {"unasked", "granted", "refused"}

SystemInit ==
    /\ os \in {"darwin", "windows", "linux"}
    /\ setting \in {[on |-> FALSE, server |-> "none"], [on |-> TRUE, server |-> "other"]}
    /\ authP = "unasked"

Ours == [on |-> TRUE, server |-> "ours"]

\* The user is asked once, and the answer kept.
SetOnDarwin ==
    /\ os = "darwin"
    /\ authP' \in IF authP = "unasked" THEN {"granted", "refused"} ELSE {authP}
    /\ setting' \in IF authP' = "granted" THEN {Ours, setting} ELSE {setting}

\* Two values of the registry (a third, the exceptions, concerns HTTPS): the first may
\* be written without the second.
SetOnWindows ==
    /\ os = "windows"
    /\ setting' \in {setting, [setting EXCEPT !.on = TRUE], Ours}
    /\ authP' = authP

NotOnLinux == os = "linux" /\ UNCHANGED <<setting, authP>>

SetProxy == (SetOnDarwin \/ SetOnWindows \/ NotOnLinux) /\ os' = os

\* Mutant: disableProxy passes the flag of enableProxy.
ClearOnDarwinEnables ==
    /\ os = "darwin"
    /\ setting' = IF authP = "granted" THEN Ours ELSE setting

\* Nothing that this process has not set, and no other server, is cleared.
ClearOnDarwin ==
    /\ os = "darwin"
    /\ setting' = IF authP = "granted" /\ setting.server = "ours"
                  THEN [on |-> FALSE, server |-> "none"] ELSE setting

\* The proxy is switched off, whoever's it is.
ClearOnWindows == os = "windows" /\ setting' = [setting EXCEPT !.on = FALSE]

NothingOnLinux == os = "linux" /\ setting' = setting

\* The call that succeeds: a failure, of the authorisation, the lock, the registry or the
\* commit, leaves the setting.
ClearProxy(succeeds) ==
    /\ IF succeeds
       THEN ClearOnDarwin \/ ClearOnWindows \/ NothingOnLinux
       ELSE setting' = setting
    /\ UNCHANGED <<os, authP>>

===============================================================================
