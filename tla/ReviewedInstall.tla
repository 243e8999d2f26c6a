-------------------------- MODULE ReviewedInstall --------------------------
(***************************************************************************)
(* What an installation promises to the user who reviews it: the packages  *)
(* change only as one transaction that was shown, over a database that is  *)
(* still the one shown, with nothing but the release as it was published;  *)
(* success is reported only with the whole selection in place, and with    *)
(* every package that still needs a reboot.  Others may change packages at *)
(* any time but while the transaction runs.                                *)
(***************************************************************************)
EXTENDS Naturals

CONSTANTS
    Packages, Selected, NeedReboot, \* all packages, those asked for, those that need a reboot
    Key,      \* the entry of the release key, which is added before the transaction
    Versions, Target \* of packages, and of the release

VARIABLES
    installed, \* the package database: version and install time of each name
    others,    \* how often other actors have changed something
    phase,     \* open, agreed, installing or installed
    dry,       \* only a preview was asked for
    genuine,   \* all that was taken is the release's, and the release is right
    shown,     \* package -> the version it replaces, of the transaction agreed to
    left,      \* what the running transaction still has to install
    put,       \* what it has installed
    complete, told \* success was reported, and with which reboots

vars == <<installed, others, phase, dry, genuine, shown, left, put, complete, told>>

Names == Packages \cup {Key}
Nothing == [n \in {} |-> 0]

Install(n, v) ==
    /\ installed' = [installed EXCEPT ![n] = installed'[n]]
    /\ installed'[n].version = v

Closed == /\ phase' = "open" /\ shown' = Nothing /\ left' = {}
          /\ genuine' \in BOOLEAN
          /\ UNCHANGED <<installed, others, dry, put>>

Init ==
    /\ installed \in [Names -> [version : Versions, time : Nat]]
    /\ others \in Nat
    /\ phase = "open" /\ dry = FALSE /\ genuine \in BOOLEAN
    /\ shown = Nothing /\ left = {} /\ put = {}
    /\ complete = FALSE /\ told = {}

Ask ==
    /\ phase = "open"
    /\ dry' \in BOOLEAN
    /\ put' = {} /\ complete' = FALSE /\ told' = {}
    /\ UNCHANGED <<installed, others, phase, genuine, shown, left>>

Gather ==
    /\ phase = "open"
    /\ genuine' \in BOOLEAN
    /\ UNCHANGED <<installed, others, phase, dry, shown, left, put, complete, told>>

Agree ==
    /\ phase = "open" /\ genuine /\ ~dry
    /\ phase' = "agreed"
    /\ DOMAIN shown' \subseteq Packages /\ DOMAIN shown' \cap Selected # {}
    /\ UNCHANGED <<installed, others, dry, genuine, left, put, complete, told>>

TakeKey ==
    /\ phase = "agreed"
    /\ installed[Key].version = 0
    /\ Install(Key, 1)
    /\ UNCHANGED <<others, phase, dry, genuine, shown, left, put, complete, told>>

StartInstall ==
    /\ phase = "agreed"
    /\ installed[Key].version # 0
    /\ \A n \in DOMAIN shown : installed[n].version = shown[n]
    /\ phase' = "installing"
    /\ left' = DOMAIN shown
    /\ UNCHANGED <<installed, others, dry, genuine, shown, put, complete, told>>

InstallNext ==
    /\ phase = "installing"
    /\ \E n \in left : Install(n, Target) /\ left' = left \ {n} /\ put' = put \cup {n}
    /\ UNCHANGED <<others, phase, dry, genuine, shown, complete, told>>

Finish ==
    /\ phase = "installing" /\ left = {} /\ put = DOMAIN shown
    /\ phase' = "installed"
    /\ UNCHANGED <<installed, others, dry, genuine, shown, left, put, complete, told>>

Succeed ==
    /\ phase = "installed"
    /\ \A n \in Selected : installed[n].version = Target
    /\ Closed
    /\ complete' = TRUE
    /\ put \cap NeedReboot \subseteq told' /\ told' \subseteq NeedReboot

\* A session may end at any point, also within the transaction.
GiveUp == Closed /\ complete' = FALSE /\ told' = {}

Others ==
    /\ others' = others + 1
    /\ installed' \in [Names -> [version : Versions, time : Nat]]
    /\ phase = "installing" => installed' = installed
    /\ UNCHANGED <<phase, dry, genuine, shown, left, put, complete, told>>

Next ==
    \/ Ask \/ Gather \/ Agree \/ TakeKey
    \/ StartInstall \/ InstallNext \/ Finish \/ Succeed \/ GiveUp
    \/ Others

Spec == Init /\ [][Next]_vars
=============================================================================
