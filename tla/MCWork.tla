------------------------------- MODULE MCWork -------------------------------
(***************************************************************************)
(* The components that share no state with each other, checked in one run: *)
(* a behaviour is of one of them, chosen at its start; the others keep     *)
(* their initial state.                                                    *)
(***************************************************************************)
EXTENDS Save, Pointer, Jobs, RunMarks, Guard, Relay, TLC

CONSTANTS s1, s2, s3, s4, b1, b2, d1, d2, na1, na2, j1, t1, x1

VARIABLE part

\* s1 and s4 save box b1 to one name from one runtime dir, s3 to another name; s2 saves another box
\* to s1's name, from another runtime dir.
MCBoxOf == s1 :> b1 @@ s2 :> b2 @@ s3 :> b1 @@ s4 :> b1
MCDirOf == s1 :> d1 @@ s2 :> d2 @@ s3 :> d1 @@ s4 :> d1
MCNameOf == s1 :> na1 @@ s2 :> na1 @@ s3 :> na2 @@ s4 :> na1

MCStopOf == t1 :> j1

workVars == <<part, saveVars, ptrVars, jobsVars, marksVars, guardVars, relayVars>>

WorkInit ==
    /\ part \in {"save", "pointer", "jobs", "marks", "guard", "relay"}
    /\ SaveInit /\ PtrInit /\ JobsInit /\ MarksInit /\ GuardInit /\ RelayInit
    /\ dest[na2] = None /\ (part # "save" => dest[na1] = None)
    /\ part # "pointer" => ~conf
    /\ part # "guard" => gaddrs = x1

WorkNext ==
    /\ UNCHANGED part
    /\ \/ /\ part = "save" /\ SaveNext
          /\ UNCHANGED <<ptrVars, jobsVars, marksVars, guardVars, relayVars>>
       \/ /\ part = "pointer" /\ PtrNext
          /\ UNCHANGED <<saveVars, jobsVars, marksVars, guardVars, relayVars>>
       \/ /\ part = "jobs" /\ JobsNext
          /\ UNCHANGED <<saveVars, ptrVars, marksVars, guardVars, relayVars>>
       \/ /\ part = "marks" /\ MarksNext
          /\ UNCHANGED <<saveVars, ptrVars, jobsVars, guardVars, relayVars>>
       \/ /\ part = "guard" /\ GuardNext
          /\ UNCHANGED <<saveVars, ptrVars, jobsVars, marksVars, relayVars>>
       \/ /\ part = "relay" /\ RelayNext
          /\ UNCHANGED <<saveVars, ptrVars, jobsVars, marksVars, guardVars>>

WorkSpec == WorkInit /\ [][WorkNext]_workVars

\* The type invariants of the six components.
WorkTypeOK ==
    SaveTypeOK /\ PtrTypeOK /\ JobsTypeOK /\ MarksTypeOK /\ GuardTypeOK /\ RelayTypeOK
=============================================================================
