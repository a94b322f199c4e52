-------------------------- MODULE ActivityLifecycle --------------------------
(***************************************************************************)
(* What the update orchestrator promises to agents and host, without       *)
(* channels, goroutines or locks: an update activity goes through its      *)
(* phases in one direction, a phase begins for all domains together, what  *)
(* was decided about the domains stays true while it is acted upon, and    *)
(* the host is rebooted only over finished domains.                        *)
(***************************************************************************)
EXTENDS Naturals

CONSTANT Domains

VARIABLES
    stage,    \* what the activity waits for, or "closed", or "idle"
    level,    \* level[d]: how far the domain d of the activity has come
    commanding,  \* the phase commands are being issued for, or 0
    reboot    \* a reboot has been decided upon

avars == <<stage, level, commanding, reboot>>

\* the levels of a domain; the phases are numbered by the level they start from
Unidentified == 0
Identified   == 1
Downloaded   == 2
FinishedAll  == 3
Phase == {Identified, Downloaded}

Open == {"identify", "download", "update", "finish"}

\* all domains of the activity have come as far as n
reached(n) == \A d \in DOMAIN level : level[d] >= n

\* no domain falls below what the stage was entered with
floor == CASE stage = "download" -> Identified
           [] stage = "update"   -> Downloaded
           [] stage = "closed" /\ reboot -> FinishedAll
           [] OTHER -> Unidentified

LifecycleInit ==
    /\ stage = "idle"
    /\ level = [d \in {} |-> Unidentified]
    /\ commanding = 0
    /\ reboot = FALSE

\* an activity for some domains begins; without any it is over at once
Begin ==
    /\ stage = "idle"
    /\ reboot' = FALSE
    /\ UNCHANGED commanding
    /\ \E ds \in SUBSET Domains :
         /\ stage' = IF ds = {} THEN "closed" ELSE "identify"
         /\ level' = [d \in ds |-> Unidentified]

\* a report moves one domain, while no phase is being commanded
Move ==
    /\ commanding = 0
    /\ UNCHANGED <<stage, commanding, reboot>>
    /\ \E d \in DOMAIN level, n \in floor..FinishedAll : level' = [level EXCEPT ![d] = n]

\* the barriers
Proceed ==
    /\ \/ stage = "identify" /\ reached(Identified) /\ stage' = "download"
       \/ stage = "download" /\ reached(Downloaded) /\ stage' = "update"
    /\ UNCHANGED <<level, commanding, reboot>>

\* from the last barrier on, or after a refusal or an error, there is none left
Skip ==
    /\ stage \in Open
    /\ stage' = "finish"
    /\ UNCHANGED <<level, commanding, reboot>>

\* the commands of a phase are issued, domain by domain
Issue(n) ==
    /\ stage \notin {"idle", "identify"}
    /\ n = Downloaded => stage # "download"
    /\ commanding' = n
    /\ reached(n)
    /\ UNCHANGED <<stage, level, reboot>>

Issued ==
    /\ commanding' = 0
    /\ UNCHANGED <<stage, level, reboot>>

\* the activity is over, in the end or before
Close ==
    /\ stage \in Open
    /\ stage' = "closed"
    /\ reboot' \in BOOLEAN
    /\ reboot' => reached(FinishedAll)
    /\ UNCHANGED <<level, commanding>>

Dispose ==
    /\ stage = "closed"
    /\ commanding = 0
    /\ stage' = "idle"
    /\ level' = [d \in {} |-> Unidentified]
    /\ UNCHANGED <<commanding, reboot>>

LifecycleNext ==
    \/ Move
    \/ Begin
    \/ \E n \in Phase : Issue(n)
    \/ Proceed
    \/ Skip
    \/ Issued
    \/ Close
    \/ Dispose

Lifecycle == LifecycleInit /\ [][LifecycleNext]_avars

=============================================================================
