------------------------ MODULE PrivacyErasureProofs ------------------------
(***************************************************************************)
(* Proofs about module PrivacyErasure, for any memories, contents, derived *)
(* files, copies and deletion plans.                                       *)
(***************************************************************************)
EXTENDS PrivacyErasure, TLAPS

(***************************************************************************)
(* The strengthening.  Gateway memory is empty while the Gateway is down;  *)
(* a preview under way has a token of its own; a copy being made when the  *)
(* Gateway starts is a stray, every other registered one is in every plan; *)
(* and an execution that has failed in nothing has emptied what it passed. *)
(***************************************************************************)
Memory ==
  /\ ~up => /\ exec = NoExec
            /\ \A t \in Tokens : plan[t] = None /\ prev[t] = NoPreview
  /\ exec.pc = "idle" => exec = NoExec
  /\ \A t \in Tokens : prev[t] # NoPreview => t \notin plans /\ exec.token # t
  /\ \A t \in Tokens : prev[t].pc = "findDerived" => prev[t].version \in Versions

Running ==
  /\ exec.pc = "check" => plan[exec.token].state = "pending"
  /\ \A t \in Tokens :
       plan[t] # None /\ plan[t].state = "running" => exec.token = t

Behind ==
  /\ TombstoneFirst
  /\ exec.pc \notin {"idle", "check"} => ThePlan.memory \in tomb

Registered ==
  /\ CopiesStayRegistered
  /\ \A a \in Artifacts :
       copying[a] # None => a \notin ledger /\ (up => a \in stray)
  /\ exec.pc = "product_metadata" =>
       \A a \in exec.deleted : disk[a] = {} \/ a \in stray \/ a \in headless
  /\ \A t \in Tokens, a \in Artifacts :
       plan[t] # None =>
         /\ a \in plan[t].artifacts => copying[a] = None
         /\ a \in ledger => a \in plan[t].artifacts \cup stray

Gone ==
  /\ CompleteMeansGone
  /\ \A m \in Memories, a \in Artifacts :
       receipt[m] = "complete" /\ copying[a] # None /\ m \in copying[a] => a \in stray

Cleared ==
  /\ exec.pc = "index_l1" => ~exec.failed
  /\ exec.pc \in Steps /\ ~exec.failed =>
       /\ exec.pc \in {"readable_l1", "source_l0", "managed_copies",
                       "product_metadata", "index_l1"}
            => "readable_l0" \notin rows[ThePlan.memory]
       /\ exec.pc \in {"source_l0", "managed_copies", "product_metadata", "index_l1"}
            => "readable_l1" \notin rows[ThePlan.memory]
       /\ exec.pc \in {"managed_copies", "product_metadata", "index_l1"}
            => "source_l0" \notin rows[ThePlan.memory]
       /\ exec.pc \in {"product_metadata", "index_l1"}
            => \A a \in ThePlan.artifacts : disk[a] = {} \/ a \in headless

Inv == TypeOK /\ Memory /\ Running /\ Behind /\ Registered /\ Gone /\ Cleared

-----------------------------------------------------------------------------
(* Types. *)

LEMMA PlanType ==
  ASSUME NEW p \in Plan
  PROVE  /\ p # None
         /\ p.memory \in Memories /\ p.version \in Versions
         /\ p.artifacts \in SUBSET Artifacts /\ p.derived \in SUBSET Files
         /\ p.snapshot \in [Files -> SUBSET Text]
         /\ [p EXCEPT !.expired = TRUE] \in Plan
         /\ [p EXCEPT !.state = "running"] \in Plan
         /\ [p EXCEPT !.state = "partial", !.expired = FALSE] \in Plan
BY ErasureAssumption DEF Plan

LEMMA EmptyType ==
  /\ NoPreview.pc = "idle"
  /\ NoExec.pc = "idle" /\ NoExec.token = None /\ NoExec.failed = FALSE /\ NoExec.deleted = {}
  /\ NoExec \in [pc : Steps \cup {"idle"}, token : Tokens \cup {None},
                 failed : BOOLEAN, deleted : SUBSET Artifacts]
BY DEF NoExec, NoPreview

PlansType ==
  /\ plan \in [Tokens -> Plan \cup {None}]
  /\ plans \in SUBSET {t \in Tokens : plan[t] # None}
  /\ exec \in [pc : Steps \cup {"idle"}, token : Tokens \cup {None},
               failed : BOOLEAN, deleted : SUBSET Artifacts]
  /\ exec.pc # "idle" => exec.token \in Tokens /\ plan[exec.token] # None

LEMMA ForgetType ==
  ASSUME TypeOK, NEW T, Forget(T), exec' = exec
  PROVE  PlansType'
BY DEF Forget, TypeOK, PlansType

LEMMA EndPartialType ==
  ASSUME TypeOK, NEW t \in Tokens, EndPartial(t), UNCHANGED plans
  PROVE  PlansType'
<1>1. t \in plans => plan[t] \in Plan
  BY DEF TypeOK
<1>2. plan' \in [Tokens -> Plan \cup {None}]
  BY <1>1, PlanType DEF EndPartial, TypeOK
<1>3. t \in plans => plan'[t] # None
  BY <1>1, PlanType DEF EndPartial, TypeOK
<1> QED
  BY <1>2, <1>3, EmptyType DEF EndPartial, TypeOK, PlansType

LEMMA RunType ==
  ASSUME TypeOK, NEW t \in Tokens, plan[t] # None, Run(t), UNCHANGED plans
  PROVE  PlansType'
<1>1. plan[t] \in Plan
  BY DEF TypeOK
<1>2. CASE EndPartial(t)
  BY <1>2, EndPartialType
<1>3. CASE ~ EndPartial(t)
  <2>1. plan' = [plan EXCEPT ![t].state = "running"]
    BY <1>3 DEF Run
  <2>2. plan'[t] = [plan[t] EXCEPT !.state = "running"]
    BY <2>1 DEF TypeOK
  <2>3. plan' \in [Tokens -> Plan \cup {None}] /\ plan'[t] # None
    BY <1>1, <2>1, <2>2, PlanType DEF TypeOK
  <2>4. exec' = [exec EXCEPT !.pc = "derived_l2", !.token = t]
    BY <1>3 DEF Run
  <2> QED
    BY <2>1, <2>3, <2>4 DEF TypeOK, PlansType, Steps
<1> QED
  BY <1>2, <1>3


LEMMA RedactType ==
  ASSUME TypeOK, ThePlan \in Plan, NEW F, Redact(F)
  PROVE  file' \in [Files -> SUBSET Text]
<1>1. \A f \in Files : ThePlan.snapshot[f] \in SUBSET Text
  BY PlanType
<1> QED
  BY <1>1 DEF Redact, TypeOK

LEMMA DerivedSteps ==
  ASSUME DerivedStep
  PROVE  \E F \in SUBSET Files : Redact(F)
<1>1. Scenes \in SUBSET Files /\ {Core} \in SUBSET Files /\ {} \in SUBSET Files
  BY DEF Files
<1> QED
  BY <1>1 DEF DerivedStep, Attempt

LEMMA RowSteps ==
  ASSUME RowStep \/ IndexStep
  PROVE  rows' = rows \/ \E s \in Stores : DropRows(s)
BY DEF RowStep, IndexStep, Attempt, Stores

LEMMA DropType ==
  /\ TypeOK /\ rows' = rows => rows' \in [Memories -> SUBSET Stores]
  /\ \A s \in Stores : TypeOK /\ DropRows(s) => rows' \in [Memories -> SUBSET Stores]
BY DEF DropRows, TypeOK


LEMMA NextType == TypeOK /\ Memory /\ [Next]_vars => TypeOK'
<1> SUFFICES ASSUME TypeOK, Memory, [Next]_vars PROVE TypeOK'
  OBVIOUS
<1>1. ASSUME NEW m \in Memories, Correct(m) PROVE TypeOK'
  BY <1>1 DEF Correct, copies, gateway, TypeOK
<1>2. ASSUME NEW m \in Memories, Delete(m) PROVE TypeOK'
  BY <1>2 DEF Delete, copies, gateway, TypeOK
<1>3. ASSUME NEW m \in Memories, Annotate(m) PROVE TypeOK'
  BY <1>3 DEF Annotate, copies, gateway, TypeOK
<1>4. ASSUME NEW m \in Memories, NEW t \in Tokens, PreviewBegin(m, t) PROVE TypeOK'
  <2>1. \E T : Forget(T)
    BY <1>4 DEF PreviewBegin
  <2>2. PlansType'
    BY <1>4, <2>1, ForgetType DEF PreviewBegin
  <2>3. prev' \in [Tokens -> {NoPreview} \cup
           [pc : {"findL1", "findDerived"}, memory : Memories, version : Versions \cup {0}]]
    BY <1>4 DEF PreviewBegin, TypeOK
  <2> QED
    BY <1>4, <2>2, <2>3 DEF PreviewBegin, store, copies, TypeOK, PlansType
<1>5. ASSUME NEW m \in Memories, NEW f \in Files, Derive(m, f) PROVE TypeOK'
  <2>1. <<m, content[m]>> \in Text
    BY DEF TypeOK, Text
  <2> QED
    BY <1>5, <2>1 DEF Derive, copies, gateway, TypeOK
<1>6. ASSUME NEW t \in Tokens, PreviewFindL1(t) PROVE TypeOK'
  <2>1. prev[t].memory \in Memories /\ prev[t].pc = "findL1"
    BY <1>6, EmptyType DEF PreviewFindL1, TypeOK
  <2>2. prev' \in [Tokens -> {NoPreview} \cup
           [pc : {"findL1", "findDerived"}, memory : Memories, version : Versions \cup {0}]]
    BY <1>6, <2>1, EmptyType DEF PreviewFindL1, TypeOK
  <2> QED
    BY <1>6, <2>2 DEF PreviewFindL1, store, copies, TypeOK
<1>7. ASSUME NEW t \in Tokens, PreviewStore(t) PROVE TypeOK'
  <2> DEFINE D == {f \in Files : Occurs(prev[t].memory, prev[t].version, f)}
             new == [memory |-> prev[t].memory, version |-> prev[t].version, derived |-> D,
                     snapshot |-> [f \in Files |-> IF f \in D THEN file[f] ELSE {}],
                     artifacts |-> ledger, state |-> "pending", expired |-> FALSE]
  <2>1. prev[t].memory \in Memories /\ prev[t].version \in Versions
    BY <1>7, EmptyType DEF PreviewStore, TypeOK, Memory
  <2>2. new \in Plan
    BY <2>1 DEF Plan, TypeOK
  <2>3. new # None
    BY <2>2, PlanType
  <2>4. plan' = [plan EXCEPT ![t] = new]
    BY <1>7 DEF PreviewStore
  <2> HIDE DEF new
  <2>5. plan' \in [Tokens -> Plan \cup {None}] /\ \A s \in Tokens : plan[s] # None => plan'[s] # None
    BY <2>2, <2>3, <2>4 DEF TypeOK
  <2>6. plan'[t] # None
    BY <2>3, <2>4 DEF TypeOK
  <2> QED
    BY <1>7, <2>5, <2>6 DEF PreviewStore, store, copies, TypeOK
<1>8. ASSUME NEW t \in Tokens, Cancel(t) PROVE TypeOK'
  <2>1. PlansType'
    BY <1>8, ForgetType DEF Cancel
  <2> QED
    BY <1>8, <2>1 DEF Cancel, store, copies, TypeOK, PlansType
<1>9. ASSUME NEW t \in Tokens, Expire(t) PROVE TypeOK'
  <2>1. plan[t] \in Plan
    BY <1>9 DEF Expire, TypeOK
  <2>2. plan' = [plan EXCEPT ![t] = [plan[t] EXCEPT !.expired = TRUE]]
    BY <1>9 DEF Expire
  <2>3. plan' \in [Tokens -> Plan \cup {None}] /\ \A s \in Tokens : plan[s] # None => plan'[s] # None
    BY <2>1, <2>2, PlanType DEF TypeOK
  <2> QED
    BY <1>9, <2>3 DEF Expire, store, copies, TypeOK
<1>10. ASSUME NEW t \in Tokens, ExecuteBegin(t) PROVE TypeOK'
  <2>1. plan[t] # None
    BY <1>10 DEF ExecuteBegin, TypeOK
  <2>2. PlansType'
    <3>1. CASE Forget({t}) /\ UNCHANGED exec
      BY <3>1, ForgetType
    <3>2. CASE exec' = [NoExec EXCEPT !.pc = "check", !.token = t] /\ UNCHANGED <<plan, plans>>
      BY <2>1, <3>2, EmptyType DEF TypeOK, PlansType, Steps
    <3>3. CASE Run(t) /\ UNCHANGED plans
      BY <2>1, <3>3, RunType
    <3> QED
      BY <1>10, <3>1, <3>2, <3>3 DEF ExecuteBegin
  <2>3. tomb' \in SUBSET Memories
    <3>1. plan[t] \in Plan
      BY <2>1 DEF TypeOK
    <3>2. plan[t].memory \in Memories
      BY <3>1, PlanType
    <3>3. tomb' = tomb \/ tomb' = tomb \cup {plan[t].memory}
      BY <1>10 DEF ExecuteBegin, Run, ThePlan
    <3> QED
      BY <3>2, <3>3 DEF TypeOK
  <2> QED
    BY <1>10, <2>2, <2>3 DEF ExecuteBegin, AfterRun, copies, TypeOK, PlansType
<1>11. ASSUME NEW a \in Artifacts, CopyBegin(a) PROVE TypeOK'
  BY <1>11 DEF CopyBegin, store, gateway, TypeOK
<1>12. ASSUME NEW a \in Artifacts, CopyEnd(a) PROVE TypeOK'
  <2>1. copying[a] \in SUBSET Memories
    BY <1>12 DEF CopyEnd, TypeOK
  <2> QED
    BY <1>12, <2>1 DEF CopyEnd, gateway, TypeOK
<1>13. CASE DerivedStep
  <2>1. exec.token \in Tokens /\ plan[exec.token] \in Plan
    BY <1>13 DEF DerivedStep, Attempt, TypeOK
  <2>2. file' \in [Files -> SUBSET Text]
    BY <1>13, <2>1, DerivedSteps, RedactType DEF ThePlan
  <2>3. PlansType'
    BY <1>13, <2>1, PlanType DEF DerivedStep, Attempt, Steps, TypeOK,
       PlansType
  <2> QED
    BY <1>13, <2>2, <2>3 DEF DerivedStep, copies, TypeOK, PlansType
<1>14. CASE RowStep
  <2>1. exec.token \in Tokens /\ plan[exec.token] \in Plan
    BY <1>14 DEF RowStep, Attempt, TypeOK
  <2>2. rows' \in [Memories -> SUBSET Stores]
    BY <1>14, RowSteps, DropType
  <2>3. PlansType'
    BY <1>14, <2>1, PlanType DEF RowStep, Attempt, Steps, TypeOK, PlansType
  <2> QED
    BY <1>14, <2>2, <2>3 DEF RowStep, copies, TypeOK, PlansType
<1>15. CASE CopyStep
  <2>1. exec.token \in Tokens /\ plan[exec.token] \in Plan
    BY <1>15 DEF CopyStep, TypeOK
  <2>2. disk' \in [Artifacts -> SUBSET Memories]
    BY <1>15 DEF CopyStep, RemoveCopies, TypeOK
  <2>3. PICK A \in SUBSET ThePlan.artifacts :
           exec' = [exec EXCEPT !.pc = "product_metadata", !.deleted = A,
                                !.failed = @ \/ A # ThePlan.artifacts]
    BY <1>15 DEF CopyStep
  <2>4. A \in SUBSET Artifacts
    BY <2>1, <2>3, PlanType DEF ThePlan
  <2>5. PlansType'
    BY <1>15, <2>1, <2>3, <2>4, PlanType DEF CopyStep, Steps, TypeOK,
       PlansType
  <2>6. headless' \in SUBSET Backups
    BY <1>15 DEF CopyStep, Behead, TypeOK
  <2> QED
    BY <1>15, <2>2, <2>5, <2>6 DEF CopyStep, copies, TypeOK, PlansType
<1>16. CASE MetadataStep
  <2>1. exec.token \in Tokens /\ plan[exec.token] \in Plan
    BY <1>16 DEF MetadataStep, TypeOK
  <2>2. meta' \in SUBSET Memories /\ ledger' \in SUBSET Artifacts /\ tomb' \in SUBSET Memories
    BY <1>16, <2>1, PlanType DEF MetadataStep, ThePlan, TypeOK
  <2>3. PlansType'
    BY <1>16, <2>1, PlanType DEF MetadataStep, Steps, TypeOK, PlansType
  <2> QED
    BY <1>16, <2>2, <2>3 DEF MetadataStep, copies, TypeOK, PlansType
<1>17. CASE IndexStep
  <2>1. exec.token \in Tokens /\ plan[exec.token] \in Plan
    BY <1>17 DEF IndexStep, Attempt, TypeOK
  <2>2. rows' \in [Memories -> SUBSET Stores]
    BY <1>17, RowSteps, DropType
  <2>3. PlansType'
    BY <1>17, <2>1, PlanType DEF IndexStep, Attempt, Steps, TypeOK, PlansType
  <2> QED
    BY <1>17, <2>2, <2>3 DEF IndexStep, copies, TypeOK, PlansType
<1>18. CASE Finish
  <2>1. exec.token \in Tokens /\ plan[exec.token] \in Plan
    BY <1>18 DEF Finish, TypeOK
  <2>2. receipt' \in [Memories -> {"none", "partial", "complete"}]
    BY <1>18, <2>1, PlanType DEF Finish, TypeOK
  <2>3. PlansType'
    <3>1. CASE plans' = plans \ {exec.token} /\ plan' = [plan EXCEPT ![exec.token] = None] /\ exec' = NoExec
      BY <3>1, EmptyType DEF TypeOK, PlansType
    <3>2. CASE EndPartial(exec.token) /\ UNCHANGED plans
      BY <2>1, <3>2, EndPartialType
    <3> QED
      BY <1>18, <3>1, <3>2 DEF Finish
  <2> QED
    BY <1>18, <2>2, <2>3 DEF Finish, copies, TypeOK, PlansType
<1>19. CASE Check
  <2>1. exec.token \in Tokens /\ plan[exec.token] # None
    BY <1>19 DEF Check, TypeOK
  <2>2. PlansType'
    <3>1. CASE /\ exec' = NoExec
               /\ plan' = [plan EXCEPT ![exec.token] = IF exec.token \in plans THEN @ ELSE None]
      BY <1>19, <2>1, <3>1, EmptyType DEF Check, AfterRun, TypeOK, PlansType
    <3>2. CASE Run(exec.token)
      BY <1>19, <2>1, <3>2, RunType DEF Check
    <3> QED
      BY <1>19, <3>1, <3>2 DEF Check
  <2>3. tomb' \in SUBSET Memories
    <3>1. plan[exec.token] \in Plan
      BY <2>1 DEF TypeOK
    <3>2. plan[exec.token].memory \in Memories
      BY <3>1, PlanType
    <3>3. tomb' = tomb \/ tomb' = tomb \cup {plan[exec.token].memory}
      BY <1>19 DEF Check, Run, ThePlan
    <3> QED
      BY <3>2, <3>3 DEF TypeOK
  <2> QED
    BY <1>19, <2>2, <2>3 DEF Check, AfterRun, copies, TypeOK, PlansType
<1>20. CASE Stop
  BY <1>20, EmptyType DEF Stop, store, copies, TypeOK
<1>21. CASE Start
  BY <1>21 DEF Start, store, TypeOK
<1>22. CASE UNCHANGED vars
  BY <1>22 DEF vars, store, copies, gateway, TypeOK
<1> QED
  BY <1>1, <1>2, <1>3, <1>4, <1>5, <1>6, <1>7, <1>8, <1>9, <1>10, <1>11,
     <1>12, <1>13, <1>14, <1>15, <1>16, <1>17, <1>18, <1>19, <1>20, <1>21,
     <1>22 DEF Next, Execute

-----------------------------------------------------------------------------
(* Gateway memory: previews, plans and the execution. *)

LEMMA EndPartialPlan ==
  ASSUME TypeOK, NEW t \in Tokens, EndPartial(t)
  PROVE  /\ exec' = NoExec
         /\ \A s \in Tokens \ {t} : plan'[s] = plan[s]
         /\ t \notin plans => plan'[t] = None
         /\ t \in plans => /\ plan[t] # None
                           /\ plan'[t].state = "partial"
                           /\ plan'[t].memory = plan[t].memory
                           /\ plan'[t].artifacts = plan[t].artifacts
<1>1. t \in plans => plan[t] \in Plan /\ plan[t] # None
  BY DEF TypeOK
<1>2. /\ exec' = NoExec
      /\ \A s \in Tokens \ {t} : plan'[s] = plan[s]
      /\ t \notin plans => plan'[t] = None
      /\ t \in plans => plan'[t] = [plan[t] EXCEPT !.state = "partial", !.expired = FALSE]
  BY DEF EndPartial, TypeOK
<1> QED
  BY <1>1, <1>2 DEF Plan

LEMMA RunPlan ==
  ASSUME TypeOK, NEW t \in Tokens, plan[t] # None, Run(t)
  PROVE  \/ EndPartial(t) /\ tomb' = tomb
         \/ /\ exec'.pc = "derived_l2" /\ exec'.token = t
            /\ exec'.failed = exec.failed
            /\ tomb' = tomb \cup {plan[t].memory}
            /\ \A s \in Tokens \ {t} : plan'[s] = plan[s]
            /\ plan'[t].state = "running"
            /\ plan'[t].memory = plan[t].memory
            /\ plan'[t].artifacts = plan[t].artifacts
<1>1. plan[t] \in Plan
  BY DEF TypeOK
<1>2. CASE EndPartial(t) /\ UNCHANGED tomb
  BY <1>2
<1>3. CASE /\ tomb' = tomb \cup {plan[t].memory}
           /\ plan' = [plan EXCEPT ![t].state = "running"]
           /\ exec' = [exec EXCEPT !.pc = "derived_l2", !.token = t]
  <2>1. /\ plan'[t] = [plan[t] EXCEPT !.state = "running"]
        /\ \A s \in Tokens \ {t} : plan'[s] = plan[s]
    BY <1>3 DEF TypeOK
  <2>2. exec'.pc = "derived_l2" /\ exec'.token = t /\ exec'.failed = exec.failed
    BY <1>3 DEF TypeOK
  <2> QED
    BY <1>1, <1>3, <2>1, <2>2 DEF Plan
<1> QED
  BY <1>2, <1>3 DEF Run

LEMMA NextMemory == TypeOK /\ Memory /\ [Next]_vars => Memory'
<1> SUFFICES ASSUME TypeOK, Memory, [Next]_vars PROVE Memory'
  OBVIOUS
<1>1. ASSUME NEW m \in Memories, Correct(m) PROVE Memory'
  BY <1>1, EmptyType DEF Correct, copies, gateway, TypeOK, Memory
<1>2. ASSUME NEW m \in Memories, Delete(m) PROVE Memory'
  BY <1>2, EmptyType DEF Delete, copies, gateway, TypeOK, Memory
<1>3. ASSUME NEW m \in Memories, Annotate(m) PROVE Memory'
  BY <1>3, EmptyType DEF Annotate, copies, gateway, TypeOK, Memory
<1>4. ASSUME NEW m \in Memories, NEW t \in Tokens, PreviewBegin(m, t) PROVE Memory'
  BY <1>4, EmptyType DEF PreviewBegin, Forget, store, copies, TypeOK, Memory
<1>5. ASSUME NEW m \in Memories, NEW f \in Files, Derive(m, f) PROVE Memory'
  BY <1>5, EmptyType DEF Derive, copies, gateway, TypeOK, Memory
<1>6. ASSUME NEW t \in Tokens, PreviewFindL1(t) PROVE Memory'
  BY <1>6, EmptyType DEF PreviewFindL1, store, copies, TypeOK, Memory
<1>7. ASSUME NEW t \in Tokens, PreviewStore(t) PROVE Memory'
  BY <1>7, EmptyType DEF PreviewStore, store, copies, TypeOK, Memory
<1>8. ASSUME NEW t \in Tokens, Cancel(t) PROVE Memory'
  BY <1>8, EmptyType DEF Cancel, Forget, store, copies, TypeOK, Memory
<1>9. ASSUME NEW t \in Tokens, Expire(t) PROVE Memory'
  BY <1>9, EmptyType DEF Expire, store, copies, TypeOK, Memory
<1>10. ASSUME NEW t \in Tokens, ExecuteBegin(t) PROVE Memory'
  BY <1>10, EmptyType DEF ExecuteBegin, Forget, Run, EndPartial, AfterRun,
     copies, TypeOK, Memory
<1>11. ASSUME NEW a \in Artifacts, CopyBegin(a) PROVE Memory'
  BY <1>11, EmptyType DEF CopyBegin, store, gateway, TypeOK, Memory
<1>12. ASSUME NEW a \in Artifacts, CopyEnd(a) PROVE Memory'
  BY <1>12, EmptyType DEF CopyEnd, gateway, TypeOK, Memory
<1>13. CASE DerivedStep
  BY <1>13, EmptyType DEF DerivedStep, Attempt, Redact, ThePlan, copies,
     TypeOK, Memory
<1>14. CASE RowStep
  BY <1>14, EmptyType DEF RowStep, Attempt, DropRows, ThePlan, copies,
     TypeOK, Memory
<1>15. CASE CopyStep
  BY <1>15, EmptyType DEF CopyStep, RemoveCopies, ThePlan, copies, TypeOK,
     Memory
<1>16. CASE MetadataStep
  BY <1>16, EmptyType DEF MetadataStep, ThePlan, copies, TypeOK, Memory
<1>17. CASE IndexStep
  BY <1>17, EmptyType DEF IndexStep, Attempt, DropRows, ThePlan, copies,
     TypeOK, Memory
<1>18. CASE Finish
  <2>1. exec.token \in Tokens /\ plan[exec.token] # None
    BY <1>18 DEF Finish, TypeOK
  <2>2. CASE EndPartial(exec.token) /\ UNCHANGED plans
    BY <1>18, <2>1, <2>2, EndPartialPlan, EmptyType, ErasureAssumption DEF
       Finish, TypeOK, Memory
  <2>3. CASE /\ plans' = plans \ {exec.token} /\ plan' = [plan EXCEPT ![exec.token] = None]
             /\ exec' = NoExec
    BY <1>18, <2>1, <2>3, EmptyType, ErasureAssumption DEF Finish, TypeOK,
       Memory
  <2> QED
    BY <1>18, <2>2, <2>3 DEF Finish
<1>19. CASE Check
  <2>1. exec.token \in Tokens /\ plan[exec.token] # None
    BY <1>19 DEF Check, TypeOK
  <2>2. CASE EndPartial(exec.token) /\ UNCHANGED tomb
    BY <1>19, <2>1, <2>2, EndPartialPlan, EmptyType, ErasureAssumption DEF
       Check, AfterRun, copies, TypeOK, Memory
  <2>3. CASE Run(exec.token) /\ ~(EndPartial(exec.token) /\ UNCHANGED tomb)
    BY <1>19, <2>1, <2>3, RunPlan, EmptyType, ErasureAssumption DEF Check,
       AfterRun, copies, TypeOK, Memory
  <2>4. CASE /\ exec' = NoExec /\ UNCHANGED tomb
             /\ plan' = [plan EXCEPT ![exec.token] = IF exec.token \in plans THEN @ ELSE None]
    BY <1>19, <2>1, <2>4, EmptyType, ErasureAssumption DEF Check, AfterRun,
       copies, TypeOK, Memory
  <2> QED
    BY <1>19, <2>2, <2>3, <2>4 DEF Check
<1>20. CASE Stop
  BY <1>20, EmptyType DEF Stop, store, copies, TypeOK, Memory
<1>21. CASE Start
  BY <1>21, EmptyType DEF Start, store, TypeOK, Memory
<1>22. CASE UNCHANGED vars
  BY <1>22 DEF vars, store, copies, gateway, TypeOK, Memory
<1> QED
  BY <1>1, <1>2, <1>3, <1>4, <1>5, <1>6, <1>7, <1>8, <1>9, <1>10, <1>11,
     <1>12, <1>13, <1>14, <1>15, <1>16, <1>17, <1>18, <1>19, <1>20, <1>21,
     <1>22 DEF Next, Execute

LEMMA NextRunning == TypeOK /\ Memory /\ Running /\ [Next]_vars => Running'
<1> SUFFICES ASSUME TypeOK, Memory, Running, [Next]_vars PROVE Running'
  OBVIOUS
<1>1. ASSUME NEW m \in Memories, Correct(m) PROVE Running'
  BY <1>1, EmptyType DEF Correct, copies, gateway, TypeOK, Memory, Running
<1>2. ASSUME NEW m \in Memories, Delete(m) PROVE Running'
  BY <1>2, EmptyType DEF Delete, copies, gateway, TypeOK, Memory, Running
<1>3. ASSUME NEW m \in Memories, Annotate(m) PROVE Running'
  BY <1>3, EmptyType DEF Annotate, copies, gateway, TypeOK, Memory, Running
<1>4. ASSUME NEW m \in Memories, NEW t \in Tokens, PreviewBegin(m, t) PROVE Running'
  BY <1>4, EmptyType DEF PreviewBegin, Forget, store, copies, TypeOK,
     Memory, Running
<1>5. ASSUME NEW m \in Memories, NEW f \in Files, Derive(m, f) PROVE Running'
  BY <1>5, EmptyType DEF Derive, copies, gateway, TypeOK, Memory, Running
<1>6. ASSUME NEW t \in Tokens, PreviewFindL1(t) PROVE Running'
  BY <1>6, EmptyType DEF PreviewFindL1, store, copies, TypeOK, Memory, Running
<1>7. ASSUME NEW t \in Tokens, PreviewStore(t) PROVE Running'
  BY <1>7, EmptyType DEF PreviewStore, store, copies, TypeOK, Memory, Running
<1>8. ASSUME NEW t \in Tokens, Cancel(t) PROVE Running'
  BY <1>8, EmptyType DEF Cancel, Forget, store, copies, TypeOK, Memory,
     Running
<1>9. ASSUME NEW t \in Tokens, Expire(t) PROVE Running'
  BY <1>9, EmptyType DEF Expire, store, copies, TypeOK, Memory, Running
<1>10. ASSUME NEW t \in Tokens, ExecuteBegin(t) PROVE Running'
  <2>1. t \in Tokens /\ plan[t] # None /\ exec = NoExec
    BY <1>10 DEF ExecuteBegin, TypeOK
  <2>2. CASE EndPartial(t) /\ UNCHANGED <<plans, tomb>>
    BY <1>10, <2>1, <2>2, EndPartialPlan, EmptyType, ErasureAssumption DEF
       ExecuteBegin, AfterRun, copies, TypeOK, Memory, Running
  <2>3. CASE Run(t) /\ ~(EndPartial(t) /\ UNCHANGED tomb) /\ UNCHANGED plans
    BY <1>10, <2>1, <2>3, RunPlan, EmptyType, ErasureAssumption DEF
       ExecuteBegin, AfterRun, copies, TypeOK, Memory, Running
  <2>4. CASE Forget({t}) /\ UNCHANGED <<exec, tomb>>
    BY <1>10, <2>1, <2>4, EmptyType, ErasureAssumption DEF ExecuteBegin,
       Forget, AfterRun, copies, TypeOK, Memory, Running
  <2>5. CASE /\ exec' = [NoExec EXCEPT !.pc = "check", !.token = t]
             /\ plan[t].state = "pending" /\ UNCHANGED <<plan, plans, tomb>>
    BY <1>10, <2>1, <2>5, EmptyType, ErasureAssumption DEF ExecuteBegin,
       AfterRun, copies, TypeOK, Memory, Running
  <2> QED
    BY <1>10, <2>2, <2>3, <2>4, <2>5 DEF ExecuteBegin
<1>11. ASSUME NEW a \in Artifacts, CopyBegin(a) PROVE Running'
  BY <1>11, EmptyType DEF CopyBegin, store, gateway, TypeOK, Memory, Running
<1>12. ASSUME NEW a \in Artifacts, CopyEnd(a) PROVE Running'
  BY <1>12, EmptyType DEF CopyEnd, gateway, TypeOK, Memory, Running
<1>13. CASE DerivedStep
  BY <1>13, EmptyType DEF DerivedStep, Attempt, Redact, ThePlan, copies,
     TypeOK, Memory, Running
<1>14. CASE RowStep
  BY <1>14, EmptyType DEF RowStep, Attempt, DropRows, ThePlan, copies,
     TypeOK, Memory, Running
<1>15. CASE CopyStep
  BY <1>15, EmptyType DEF CopyStep, RemoveCopies, ThePlan, copies, TypeOK,
     Memory, Running
<1>16. CASE MetadataStep
  BY <1>16, EmptyType DEF MetadataStep, ThePlan, copies, TypeOK, Memory,
     Running
<1>17. CASE IndexStep
  BY <1>17, EmptyType DEF IndexStep, Attempt, DropRows, ThePlan, copies,
     TypeOK, Memory, Running
<1>18. CASE Finish
  <2>1. exec.token \in Tokens /\ plan[exec.token] # None
    BY <1>18 DEF Finish, TypeOK
  <2>2. CASE EndPartial(exec.token) /\ UNCHANGED plans
    BY <1>18, <2>1, <2>2, EndPartialPlan, EmptyType DEF Finish, TypeOK,
       Memory, Running
  <2>3. CASE /\ plans' = plans \ {exec.token} /\ plan' = [plan EXCEPT ![exec.token] = None]
             /\ exec' = NoExec
    BY <1>18, <2>1, <2>3, EmptyType DEF Finish, TypeOK, Memory, Running
  <2> QED
    BY <1>18, <2>2, <2>3 DEF Finish
<1>19. CASE Check
  <2>1. exec.token \in Tokens /\ plan[exec.token] # None
    BY <1>19 DEF Check, TypeOK
  <2>2. CASE EndPartial(exec.token) /\ UNCHANGED tomb
    BY <1>19, <2>1, <2>2, EndPartialPlan, EmptyType DEF Check, AfterRun,
       copies, TypeOK, Memory, Running
  <2>3. CASE Run(exec.token) /\ ~(EndPartial(exec.token) /\ UNCHANGED tomb)
    BY <1>19, <2>1, <2>3, RunPlan, EmptyType DEF Check, AfterRun, copies,
       TypeOK, Memory, Running
  <2>4. CASE /\ exec' = NoExec /\ UNCHANGED tomb
             /\ plan' = [plan EXCEPT ![exec.token] = IF exec.token \in plans THEN @ ELSE None]
    BY <1>19, <2>1, <2>4, EmptyType DEF Check, AfterRun, copies, TypeOK,
       Memory, Running
  <2> QED
    BY <1>19, <2>2, <2>3, <2>4 DEF Check
<1>20. CASE Stop
  BY <1>20, EmptyType DEF Stop, store, copies, TypeOK, Memory, Running
<1>21. CASE Start
  BY <1>21, EmptyType DEF Start, store, TypeOK, Memory, Running
<1>22. CASE UNCHANGED vars
  BY <1>22 DEF vars, store, copies, gateway, TypeOK, Memory, Running
<1> QED
  BY <1>1, <1>2, <1>3, <1>4, <1>5, <1>6, <1>7, <1>8, <1>9, <1>10, <1>11,
     <1>12, <1>13, <1>14, <1>15, <1>16, <1>17, <1>18, <1>19, <1>20, <1>21,
     <1>22 DEF Next, Execute

-----------------------------------------------------------------------------
(* Tombstones, registered copies, receipts. *)

LEMMA StepPlan ==
  ASSUME TypeOK, DerivedStep \/ RowStep \/ CopyStep \/ MetadataStep \/ IndexStep
  PROVE  /\ ThePlan' = ThePlan /\ ThePlan \in Plan /\ ThePlan # None
         /\ exec.pc \notin {"idle", "check"} /\ exec'.token = exec.token
         /\ exec'.pc \notin {"idle", "check"}
<1>1. /\ exec.pc \notin {"idle", "check"} /\ exec'.token = exec.token
      /\ exec'.pc \notin {"idle", "check"} /\ plan' = plan
  BY DEF DerivedStep, RowStep, CopyStep, MetadataStep, IndexStep, Attempt,
     TypeOK
<1> QED
  BY <1>1, PlanType DEF ThePlan, TypeOK

LEMMA OthersKeepPlan ==
  ASSUME TypeOK, Memory, exec.pc # "idle", exec' = exec,
         \/ UNCHANGED plan
         \/ \E T : Forget(T)
         \/ \E t \in Tokens : PreviewStore(t) \/ Expire(t)
  PROVE  /\ ThePlan'.memory = ThePlan.memory
         /\ ThePlan'.artifacts = ThePlan.artifacts
<1>1. exec.token \in Tokens /\ plan[exec.token] \in Plan
  BY DEF TypeOK
<1>2. CASE UNCHANGED plan
  BY <1>2 DEF ThePlan
<1>3. CASE \E T : Forget(T)
  BY <1>1, <1>3 DEF Forget, ThePlan, TypeOK
<1>4. CASE \E t \in Tokens : PreviewStore(t)
  <2>1. PICK t \in Tokens : PreviewStore(t)
    BY <1>4
  <2>2. exec.token # t
    BY <2>1, EmptyType DEF PreviewStore, Memory
  <2> QED
    BY <1>1, <2>1, <2>2 DEF PreviewStore, ThePlan, TypeOK
<1>5. CASE \E t \in Tokens : Expire(t)
  BY <1>1, <1>5 DEF Expire, ThePlan, TypeOK, Plan
<1> QED
  BY <1>2, <1>3, <1>4, <1>5

LEMMA RowsShrink ==
  ASSUME TypeOK, RowStep \/ IndexStep
  PROVE  \A m \in Memories : rows'[m] \subseteq rows[m]
BY RowSteps DEF DropRows, TypeOK

LEMMA NextBehind == TypeOK /\ Memory /\ Behind /\ [Next]_vars => Behind'
<1> SUFFICES ASSUME TypeOK, Memory, Behind, [Next]_vars PROVE Behind'
  OBVIOUS
<1>1. ASSUME NEW m \in Memories, Correct(m) PROVE Behind'
  <2>1. exec' = exec /\ UNCHANGED plan
    BY <1>1 DEF Correct, copies, gateway
  <2>2. exec.pc # "idle" => /\ ThePlan'.memory = ThePlan.memory
                           /\ ThePlan'.artifacts = ThePlan.artifacts
    BY <2>1, OthersKeepPlan
  <2> QED
    BY <1>1, <2>1, <2>2 DEF Correct, copies, gateway, TypeOK, Behind,
       TombstoneFirst
<1>2. ASSUME NEW m \in Memories, Delete(m) PROVE Behind'
  <2>1. exec' = exec /\ UNCHANGED plan
    BY <1>2 DEF Delete, copies, gateway
  <2>2. exec.pc # "idle" => /\ ThePlan'.memory = ThePlan.memory
                           /\ ThePlan'.artifacts = ThePlan.artifacts
    BY <2>1, OthersKeepPlan
  <2> QED
    BY <1>2, <2>1, <2>2 DEF Delete, copies, gateway, TypeOK, Behind,
       TombstoneFirst
<1>3. ASSUME NEW m \in Memories, Annotate(m) PROVE Behind'
  <2>1. exec' = exec /\ UNCHANGED plan
    BY <1>3 DEF Annotate, copies, gateway
  <2>2. exec.pc # "idle" => /\ ThePlan'.memory = ThePlan.memory
                           /\ ThePlan'.artifacts = ThePlan.artifacts
    BY <2>1, OthersKeepPlan
  <2> QED
    BY <1>3, <2>1, <2>2 DEF Annotate, copies, gateway, TypeOK, Behind,
       TombstoneFirst
<1>4. ASSUME NEW m \in Memories, NEW t \in Tokens, PreviewBegin(m, t) PROVE Behind'
  <2>1. exec' = exec /\ \E T : Forget(T)
    BY <1>4 DEF PreviewBegin, store, copies
  <2>2. exec.pc # "idle" => /\ ThePlan'.memory = ThePlan.memory
                           /\ ThePlan'.artifacts = ThePlan.artifacts
    BY <2>1, OthersKeepPlan
  <2> QED
    BY <1>4, <2>1, <2>2 DEF PreviewBegin, store, copies, TypeOK, Behind,
       TombstoneFirst
<1>5. ASSUME NEW m \in Memories, NEW f \in Files, Derive(m, f) PROVE Behind'
  <2>1. exec' = exec /\ UNCHANGED plan
    BY <1>5 DEF Derive, copies, gateway
  <2>2. exec.pc # "idle" => /\ ThePlan'.memory = ThePlan.memory
                           /\ ThePlan'.artifacts = ThePlan.artifacts
    BY <2>1, OthersKeepPlan
  <2> QED
    BY <1>5, <2>1, <2>2 DEF Derive, copies, gateway, TypeOK, Behind,
       TombstoneFirst
<1>6. ASSUME NEW t \in Tokens, PreviewFindL1(t) PROVE Behind'
  <2>1. exec' = exec /\ UNCHANGED plan
    BY <1>6 DEF PreviewFindL1, store, copies
  <2>2. exec.pc # "idle" => /\ ThePlan'.memory = ThePlan.memory
                           /\ ThePlan'.artifacts = ThePlan.artifacts
    BY <2>1, OthersKeepPlan
  <2> QED
    BY <1>6, <2>1, <2>2 DEF PreviewFindL1, store, copies, TypeOK, Behind,
       TombstoneFirst
<1>7. ASSUME NEW t \in Tokens, PreviewStore(t) PROVE Behind'
  <2>1. exec' = exec
    BY <1>7 DEF PreviewStore, store, copies
  <2>2. exec.pc # "idle" => /\ ThePlan'.memory = ThePlan.memory
                           /\ ThePlan'.artifacts = ThePlan.artifacts
    BY <2>1, <1>7, OthersKeepPlan
  <2> QED
    BY <1>7, <2>1, <2>2 DEF PreviewStore, store, copies, TypeOK, Behind,
       TombstoneFirst
<1>8. ASSUME NEW t \in Tokens, Cancel(t) PROVE Behind'
  <2>1. exec' = exec /\ \E T : Forget(T)
    BY <1>8 DEF Cancel, store, copies
  <2>2. exec.pc # "idle" => /\ ThePlan'.memory = ThePlan.memory
                           /\ ThePlan'.artifacts = ThePlan.artifacts
    BY <2>1, OthersKeepPlan
  <2> QED
    BY <1>8, <2>1, <2>2 DEF Cancel, store, copies, TypeOK, Behind,
       TombstoneFirst
<1>9. ASSUME NEW t \in Tokens, Expire(t) PROVE Behind'
  <2>1. exec' = exec
    BY <1>9 DEF Expire, store, copies
  <2>2. exec.pc # "idle" => /\ ThePlan'.memory = ThePlan.memory
                           /\ ThePlan'.artifacts = ThePlan.artifacts
    BY <2>1, <1>9, OthersKeepPlan
  <2> QED
    BY <1>9, <2>1, <2>2 DEF Expire, store, copies, TypeOK, Behind,
       TombstoneFirst
<1>10. ASSUME NEW t \in Tokens, ExecuteBegin(t) PROVE Behind'
  <2>1. t \in Tokens /\ plan[t] # None /\ exec = NoExec
    BY <1>10 DEF ExecuteBegin, TypeOK
  <2>2. CASE EndPartial(t) /\ UNCHANGED <<plans, tomb>>
    BY <1>10, <2>1, <2>2, EndPartialPlan, EmptyType, EmptyType,
       ErasureAssumption DEF ExecuteBegin, AfterRun, copies, ThePlan, TypeOK,
       TypeOK, Memory, Behind, TombstoneFirst
  <2>3. CASE Run(t) /\ ~(EndPartial(t) /\ UNCHANGED tomb) /\ UNCHANGED plans
    BY <1>10, <2>1, <2>3, RunPlan, EmptyType, EmptyType, ErasureAssumption
       DEF ExecuteBegin, AfterRun, copies, ThePlan, TypeOK, TypeOK, Memory,
       Behind, TombstoneFirst
  <2>4. CASE Forget({t}) /\ UNCHANGED <<exec, tomb>>
    BY <1>10, <2>1, <2>4, EmptyType, EmptyType, ErasureAssumption DEF
       ExecuteBegin, Forget, AfterRun, copies, ThePlan, TypeOK, TypeOK,
       Memory, Behind, TombstoneFirst
  <2>5. CASE /\ exec' = [NoExec EXCEPT !.pc = "check", !.token = t]
             /\ plan[t].state = "pending" /\ UNCHANGED <<plan, plans, tomb>>
    BY <1>10, <2>1, <2>5, EmptyType, EmptyType, ErasureAssumption DEF
       ExecuteBegin, AfterRun, copies, ThePlan, TypeOK, TypeOK, Memory,
       Behind, TombstoneFirst
  <2> QED
    BY <1>10, <2>2, <2>3, <2>4, <2>5 DEF ExecuteBegin
<1>11. ASSUME NEW a \in Artifacts, CopyBegin(a) PROVE Behind'
  <2>1. exec' = exec /\ UNCHANGED plan
    BY <1>11 DEF CopyBegin, store, gateway
  <2>2. exec.pc # "idle" => /\ ThePlan'.memory = ThePlan.memory
                           /\ ThePlan'.artifacts = ThePlan.artifacts
    BY <2>1, OthersKeepPlan
  <2> QED
    BY <1>11, <2>1, <2>2 DEF CopyBegin, store, gateway, TypeOK, Behind,
       TombstoneFirst
<1>12. ASSUME NEW a \in Artifacts, CopyEnd(a) PROVE Behind'
  <2>1. exec' = exec /\ UNCHANGED plan
    BY <1>12 DEF CopyEnd, gateway
  <2>2. exec.pc # "idle" => /\ ThePlan'.memory = ThePlan.memory
                           /\ ThePlan'.artifacts = ThePlan.artifacts
    BY <2>1, OthersKeepPlan
  <2> QED
    BY <1>12, <2>1, <2>2 DEF CopyEnd, gateway, TypeOK, Behind, TombstoneFirst
<1>13. CASE DerivedStep
  BY <1>13, EmptyType, StepPlan DEF DerivedStep, Attempt, Redact, ThePlan,
     copies, TypeOK, Memory, Behind, TombstoneFirst
<1>14. CASE RowStep
  BY <1>14, EmptyType, StepPlan DEF RowStep, Attempt, DropRows, ThePlan,
     copies, TypeOK, Memory, Behind, TombstoneFirst
<1>15. CASE CopyStep
  BY <1>15, EmptyType, StepPlan DEF CopyStep, RemoveCopies, ThePlan,
     copies, TypeOK, Memory, Behind, TombstoneFirst
<1>16. CASE MetadataStep
  BY <1>16, EmptyType, StepPlan DEF MetadataStep, ThePlan, copies, TypeOK,
     Memory, Behind, TombstoneFirst
<1>17. CASE IndexStep
  BY <1>17, EmptyType, StepPlan DEF IndexStep, Attempt, DropRows, ThePlan,
     copies, TypeOK, Memory, Behind, TombstoneFirst
<1>18. CASE Finish
  <2>1. exec.token \in Tokens /\ plan[exec.token] # None
    BY <1>18 DEF Finish, TypeOK
  <2>2. CASE EndPartial(exec.token) /\ UNCHANGED plans
    BY <1>18, <2>1, <2>2, EndPartialPlan, EmptyType, EmptyType,
       ErasureAssumption DEF Finish, TypeOK, TypeOK, Memory, Behind,
       TombstoneFirst
  <2>3. CASE /\ plans' = plans \ {exec.token} /\ plan' = [plan EXCEPT ![exec.token] = None]
             /\ exec' = NoExec
    BY <1>18, <2>1, <2>3, EmptyType, EmptyType, ErasureAssumption DEF
       Finish, TypeOK, TypeOK, Memory, Behind, TombstoneFirst
  <2> QED
    BY <1>18, <2>2, <2>3 DEF Finish
<1>19. CASE Check
  <2>1. exec.token \in Tokens /\ plan[exec.token] # None
    BY <1>19 DEF Check, TypeOK
  <2>2. CASE EndPartial(exec.token) /\ UNCHANGED tomb
    BY <1>19, <2>1, <2>2, EndPartialPlan, EmptyType, EmptyType,
       ErasureAssumption DEF Check, AfterRun, copies, ThePlan, TypeOK, TypeOK,
       Memory, Behind, TombstoneFirst
  <2>3. CASE Run(exec.token) /\ ~(EndPartial(exec.token) /\ UNCHANGED tomb)
    BY <1>19, <2>1, <2>3, RunPlan, EmptyType, EmptyType, ErasureAssumption
       DEF Check, AfterRun, copies, ThePlan, TypeOK, TypeOK, Memory, Behind,
       TombstoneFirst
  <2>4. CASE /\ exec' = NoExec /\ UNCHANGED tomb
             /\ plan' = [plan EXCEPT ![exec.token] = IF exec.token \in plans THEN @ ELSE None]
    BY <1>19, <2>1, <2>4, EmptyType, EmptyType, ErasureAssumption DEF
       Check, AfterRun, copies, ThePlan, TypeOK, TypeOK, Memory, Behind,
       TombstoneFirst
  <2> QED
    BY <1>19, <2>2, <2>3, <2>4 DEF Check
<1>20. CASE Stop
  BY <1>20, EmptyType DEF Stop, store, copies, TypeOK, Memory, Behind,
     TombstoneFirst
<1>21. CASE Start
  BY <1>21, EmptyType DEF Start, store, TypeOK, Memory, Behind, TombstoneFirst
<1>22. CASE UNCHANGED vars
  <2>1. exec' = exec /\ UNCHANGED plan
    BY <1>22 DEF vars, gateway
  <2>2. exec.pc # "idle" => /\ ThePlan'.memory = ThePlan.memory
                           /\ ThePlan'.artifacts = ThePlan.artifacts
    BY <2>1, OthersKeepPlan
  <2> QED
    BY <1>22, <2>1, <2>2 DEF vars, store, copies, gateway, Behind,
       TombstoneFirst
<1> QED
  BY <1>1, <1>2, <1>3, <1>4, <1>5, <1>6, <1>7, <1>8, <1>9, <1>10, <1>11,
     <1>12, <1>13, <1>14, <1>15, <1>16, <1>17, <1>18, <1>19, <1>20, <1>21,
     <1>22 DEF Next, Execute

LEMMA NextRegistered == TypeOK /\ Memory /\ Registered /\ [Next]_vars => Registered'
<1> SUFFICES ASSUME TypeOK, Memory, Registered, [Next]_vars PROVE Registered'
  OBVIOUS
<1>1. ASSUME NEW m \in Memories, Correct(m) PROVE Registered'
  BY <1>1, EmptyType DEF Correct, copies, gateway, TypeOK, Memory,
     Registered, CopiesStayRegistered
<1>2. ASSUME NEW m \in Memories, Delete(m) PROVE Registered'
  BY <1>2, EmptyType DEF Delete, copies, gateway, TypeOK, Memory,
     Registered, CopiesStayRegistered
<1>3. ASSUME NEW m \in Memories, Annotate(m) PROVE Registered'
  BY <1>3, EmptyType DEF Annotate, copies, gateway, TypeOK, Memory,
     Registered, CopiesStayRegistered
<1>4. ASSUME NEW m \in Memories, NEW t \in Tokens, PreviewBegin(m, t) PROVE Registered'
  BY <1>4, EmptyType DEF PreviewBegin, Forget, store, copies, TypeOK,
     Memory, Registered, CopiesStayRegistered
<1>5. ASSUME NEW m \in Memories, NEW f \in Files, Derive(m, f) PROVE Registered'
  BY <1>5, EmptyType DEF Derive, copies, gateway, TypeOK, Memory,
     Registered, CopiesStayRegistered
<1>6. ASSUME NEW t \in Tokens, PreviewFindL1(t) PROVE Registered'
  BY <1>6, EmptyType DEF PreviewFindL1, store, copies, TypeOK, Memory,
     Registered, CopiesStayRegistered
<1>7. ASSUME NEW t \in Tokens, PreviewStore(t) PROVE Registered'
  BY <1>7, EmptyType DEF PreviewStore, store, copies, TypeOK, Memory,
     Registered, CopiesStayRegistered
<1>8. ASSUME NEW t \in Tokens, Cancel(t) PROVE Registered'
  BY <1>8, EmptyType DEF Cancel, Forget, store, copies, TypeOK, Memory,
     Registered, CopiesStayRegistered
<1>9. ASSUME NEW t \in Tokens, Expire(t) PROVE Registered'
  BY <1>9, EmptyType DEF Expire, store, copies, TypeOK, Memory, Registered,
     CopiesStayRegistered
<1>10. ASSUME NEW t \in Tokens, ExecuteBegin(t) PROVE Registered'
  <2>1. t \in Tokens /\ plan[t] # None /\ exec = NoExec
    BY <1>10 DEF ExecuteBegin, TypeOK
  <2>2. CASE EndPartial(t) /\ UNCHANGED <<plans, tomb>>
    BY <1>10, <2>1, <2>2, EndPartialPlan, EmptyType, EmptyType,
       ErasureAssumption DEF ExecuteBegin, AfterRun, copies, ThePlan, TypeOK,
       TypeOK, Memory, Registered, CopiesStayRegistered
  <2>3. CASE Run(t) /\ ~(EndPartial(t) /\ UNCHANGED tomb) /\ UNCHANGED plans
    BY <1>10, <2>1, <2>3, RunPlan, EmptyType, EmptyType, ErasureAssumption
       DEF ExecuteBegin, AfterRun, copies, ThePlan, TypeOK, TypeOK, Memory,
       Registered, CopiesStayRegistered
  <2>4. CASE Forget({t}) /\ UNCHANGED <<exec, tomb>>
    BY <1>10, <2>1, <2>4, EmptyType, EmptyType, ErasureAssumption DEF
       ExecuteBegin, Forget, AfterRun, copies, ThePlan, TypeOK, TypeOK,
       Memory, Registered, CopiesStayRegistered
  <2>5. CASE /\ exec' = [NoExec EXCEPT !.pc = "check", !.token = t]
             /\ plan[t].state = "pending" /\ UNCHANGED <<plan, plans, tomb>>
    BY <1>10, <2>1, <2>5, EmptyType, EmptyType, ErasureAssumption DEF
       ExecuteBegin, AfterRun, copies, ThePlan, TypeOK, TypeOK, Memory,
       Registered, CopiesStayRegistered
  <2> QED
    BY <1>10, <2>2, <2>3, <2>4, <2>5 DEF ExecuteBegin
<1>11. ASSUME NEW a \in Artifacts, CopyBegin(a) PROVE Registered'
  BY <1>11, EmptyType DEF CopyBegin, store, gateway, TypeOK, Memory,
     Registered, CopiesStayRegistered
<1>12. ASSUME NEW a \in Artifacts, CopyEnd(a) PROVE Registered'
  BY <1>12, EmptyType DEF CopyEnd, gateway, TypeOK, Memory, Registered,
     CopiesStayRegistered
<1>13. CASE DerivedStep
  <2>1. exec'.pc # "product_metadata"
    BY <1>13 DEF DerivedStep, Attempt, TypeOK
  <2>2. UNCHANGED <<ledger, disk, headless, copying, stray, up, plan>>
    BY <1>13 DEF DerivedStep, copies
  <2> QED
    BY <2>1, <2>2 DEF Registered, CopiesStayRegistered
<1>14. CASE RowStep
  <2>1. exec'.pc # "product_metadata"
    BY <1>14 DEF RowStep, Attempt, TypeOK
  <2>2. UNCHANGED <<ledger, disk, headless, copying, stray, up, plan>>
    BY <1>14 DEF RowStep, copies
  <2> QED
    BY <2>1, <2>2 DEF Registered, CopiesStayRegistered
<1>15. CASE CopyStep
  <2>1. PICK A \in SUBSET ThePlan.artifacts :
           /\ RemoveCopies(A)
           /\ exec' = [exec EXCEPT !.pc = "product_metadata", !.deleted = A,
                                   !.failed = @ \/ A # ThePlan.artifacts]
    BY <1>15 DEF CopyStep
  <2>2. \A a \in Artifacts : disk'[a] = IF a \in A \ headless THEN {} ELSE disk[a]
    BY <2>1 DEF RemoveCopies
  <2>5. headless \subseteq headless'
    BY <1>15 DEF CopyStep, Behead
  <2>3. exec'.deleted = A /\ A \subseteq Artifacts
    BY <1>15, <2>1, StepPlan, PlanType DEF TypeOK
  <2>4. UNCHANGED <<ledger, copying, stray, up, plan>>
    BY <1>15 DEF CopyStep, copies
  <2> QED
    BY <2>2, <2>3, <2>4, <2>5 DEF Registered, CopiesStayRegistered
<1>16. CASE MetadataStep
  BY <1>16, EmptyType, StepPlan DEF MetadataStep, ThePlan, copies, TypeOK,
     Memory, Registered, CopiesStayRegistered
<1>17. CASE IndexStep
  <2>1. exec'.pc # "product_metadata"
    BY <1>17 DEF IndexStep, Attempt, TypeOK
  <2>2. UNCHANGED <<ledger, disk, headless, copying, stray, up, plan>>
    BY <1>17 DEF IndexStep, copies
  <2> QED
    BY <2>1, <2>2 DEF Registered, CopiesStayRegistered
<1>18. CASE Finish
  <2>1. exec.token \in Tokens /\ plan[exec.token] # None
    BY <1>18 DEF Finish, TypeOK
  <2>2. UNCHANGED <<ledger, disk, headless, copying, stray, up>>
    BY <1>18 DEF Finish, copies
  <2>3. CASE EndPartial(exec.token)
    BY <2>1, <2>2, <2>3, EndPartialPlan, EmptyType DEF Registered,
       CopiesStayRegistered
  <2>4. CASE plan' = [plan EXCEPT ![exec.token] = None] /\ exec' = NoExec
    <3>1. \A t \in Tokens : plan'[t] # None => plan'[t] = plan[t]
      BY <2>1, <2>4 DEF TypeOK
    <3>2. exec'.pc = "idle"
      BY <2>4, EmptyType
    <3> QED
      BY <2>2, <3>1, <3>2 DEF Registered, CopiesStayRegistered
  <2> QED
    BY <1>18, <2>3, <2>4 DEF Finish
<1>19. CASE Check
  <2>1. exec.token \in Tokens /\ plan[exec.token] # None
    BY <1>19 DEF Check, TypeOK
  <2>2. CASE EndPartial(exec.token) /\ UNCHANGED tomb
    BY <1>19, <2>1, <2>2, EndPartialPlan, EmptyType, EmptyType,
       ErasureAssumption DEF Check, AfterRun, copies, ThePlan, TypeOK, TypeOK,
       Memory, Registered, CopiesStayRegistered
  <2>3. CASE Run(exec.token) /\ ~(EndPartial(exec.token) /\ UNCHANGED tomb)
    BY <1>19, <2>1, <2>3, RunPlan, EmptyType, EmptyType, ErasureAssumption
       DEF Check, AfterRun, copies, ThePlan, TypeOK, TypeOK, Memory,
       Registered, CopiesStayRegistered
  <2>4. CASE /\ exec' = NoExec /\ UNCHANGED tomb
             /\ plan' = [plan EXCEPT ![exec.token] = IF exec.token \in plans THEN @ ELSE None]
    BY <1>19, <2>1, <2>4, EmptyType, EmptyType, ErasureAssumption DEF
       Check, AfterRun, copies, ThePlan, TypeOK, TypeOK, Memory, Registered,
       CopiesStayRegistered
  <2> QED
    BY <1>19, <2>2, <2>3, <2>4 DEF Check
<1>20. CASE Stop
  BY <1>20, EmptyType DEF Stop, store, copies, TypeOK, Memory, Registered,
     CopiesStayRegistered
<1>21. CASE Start
  BY <1>21, EmptyType DEF Start, store, TypeOK, Memory, Registered,
     CopiesStayRegistered
<1>22. CASE UNCHANGED vars
  BY <1>22 DEF vars, store, copies, gateway, TypeOK, Memory, Registered,
     CopiesStayRegistered
<1> QED
  BY <1>1, <1>2, <1>3, <1>4, <1>5, <1>6, <1>7, <1>8, <1>9, <1>10, <1>11,
     <1>12, <1>13, <1>14, <1>15, <1>16, <1>17, <1>18, <1>19, <1>20, <1>21,
     <1>22 DEF Next, Execute

LEMMA NextGone == TypeOK /\ Memory /\ Registered /\ Gone /\ [Next]_vars => Gone'
<1> SUFFICES ASSUME TypeOK, Memory, Registered, Gone, [Next]_vars PROVE Gone'
  OBVIOUS
<1>1. ASSUME NEW m \in Memories, Correct(m) PROVE Gone'
  BY <1>1, EmptyType DEF Correct, copies, gateway, TypeOK, Memory, Gone,
     CompleteMeansGone
<1>2. ASSUME NEW m \in Memories, Delete(m) PROVE Gone'
  BY <1>2, EmptyType DEF Delete, copies, gateway, TypeOK, Memory, Gone,
     CompleteMeansGone
<1>3. ASSUME NEW m \in Memories, Annotate(m) PROVE Gone'
  BY <1>3, EmptyType DEF Annotate, copies, gateway, TypeOK, Memory, Gone,
     CompleteMeansGone
<1>4. ASSUME NEW m \in Memories, NEW t \in Tokens, PreviewBegin(m, t) PROVE Gone'
  BY <1>4, EmptyType DEF PreviewBegin, Forget, store, copies, TypeOK,
     Memory, Gone, CompleteMeansGone
<1>5. ASSUME NEW m \in Memories, NEW f \in Files, Derive(m, f) PROVE Gone'
  BY <1>5, EmptyType DEF Derive, copies, gateway, TypeOK, Memory, Gone,
     CompleteMeansGone
<1>6. ASSUME NEW t \in Tokens, PreviewFindL1(t) PROVE Gone'
  BY <1>6, EmptyType DEF PreviewFindL1, store, copies, TypeOK, Memory,
     Gone, CompleteMeansGone
<1>7. ASSUME NEW t \in Tokens, PreviewStore(t) PROVE Gone'
  BY <1>7, EmptyType DEF PreviewStore, store, copies, TypeOK, Memory, Gone,
     CompleteMeansGone
<1>8. ASSUME NEW t \in Tokens, Cancel(t) PROVE Gone'
  BY <1>8, EmptyType DEF Cancel, Forget, store, copies, TypeOK, Memory,
     Gone, CompleteMeansGone
<1>9. ASSUME NEW t \in Tokens, Expire(t) PROVE Gone'
  BY <1>9, EmptyType DEF Expire, store, copies, TypeOK, Memory, Gone,
     CompleteMeansGone
<1>10. ASSUME NEW t \in Tokens, ExecuteBegin(t) PROVE Gone'
  <2>1. t \in Tokens /\ plan[t] # None /\ exec = NoExec
    BY <1>10 DEF ExecuteBegin, TypeOK
  <2>2. CASE EndPartial(t) /\ UNCHANGED <<plans, tomb>>
    BY <1>10, <2>1, <2>2, EndPartialPlan, EmptyType, EmptyType,
       ErasureAssumption DEF ExecuteBegin, AfterRun, copies, TypeOK, TypeOK,
       Memory, Gone, CompleteMeansGone
  <2>3. CASE Run(t) /\ ~(EndPartial(t) /\ UNCHANGED tomb) /\ UNCHANGED plans
    BY <1>10, <2>1, <2>3, RunPlan, EmptyType, EmptyType, ErasureAssumption
       DEF ExecuteBegin, AfterRun, copies, TypeOK, TypeOK, Memory, Gone,
       CompleteMeansGone
  <2>4. CASE Forget({t}) /\ UNCHANGED <<exec, tomb>>
    BY <1>10, <2>1, <2>4, EmptyType, EmptyType, ErasureAssumption DEF
       ExecuteBegin, Forget, AfterRun, copies, TypeOK, TypeOK, Memory, Gone,
       CompleteMeansGone
  <2>5. CASE /\ exec' = [NoExec EXCEPT !.pc = "check", !.token = t]
             /\ plan[t].state = "pending" /\ UNCHANGED <<plan, plans, tomb>>
    BY <1>10, <2>1, <2>5, EmptyType, EmptyType, ErasureAssumption DEF
       ExecuteBegin, AfterRun, copies, TypeOK, TypeOK, Memory, Gone,
       CompleteMeansGone
  <2> QED
    BY <1>10, <2>2, <2>3, <2>4, <2>5 DEF ExecuteBegin
<1>11. ASSUME NEW a \in Artifacts, CopyBegin(a) PROVE Gone'
  BY <1>11, EmptyType DEF CopyBegin, store, gateway, TypeOK, Memory, Gone,
     CompleteMeansGone
<1>12. ASSUME NEW a \in Artifacts, CopyEnd(a) PROVE Gone'
  BY <1>12, EmptyType DEF CopyEnd, gateway, TypeOK, Memory, Gone,
     CompleteMeansGone
<1>13. CASE DerivedStep
  BY <1>13, EmptyType DEF DerivedStep, Attempt, Redact, ThePlan, copies,
     TypeOK, Memory, Gone, CompleteMeansGone
<1>14. CASE RowStep
  BY <1>14, RowsShrink DEF RowStep, copies, Gone, CompleteMeansGone
<1>15. CASE CopyStep
  <2>1. \A a \in Artifacts : disk'[a] \subseteq disk[a]
    BY <1>15 DEF CopyStep, RemoveCopies, TypeOK
  <2>2. headless \subseteq headless'
    BY <1>15 DEF CopyStep, Behead
  <2> QED
    BY <1>15, <2>1, <2>2 DEF CopyStep, copies, Gone, CompleteMeansGone
<1>16. CASE MetadataStep
  BY <1>16, EmptyType DEF MetadataStep, ThePlan, copies, TypeOK, Memory,
     Gone, CompleteMeansGone
<1>17. CASE IndexStep
  BY <1>17, RowsShrink DEF IndexStep, copies, Gone, CompleteMeansGone
<1>18. CASE Finish
  <2>1. exec.token \in Tokens /\ ThePlan \in Plan /\ plan[exec.token] # None /\ up
    BY <1>18, EmptyType DEF Finish, ThePlan, TypeOK, Memory
  <2>2. UNCHANGED <<rows, tomb, ledger, disk, headless, copying, stray, up>>
    BY <1>18 DEF Finish, copies
  <2>3. CASE receipt' \in {receipt, [receipt EXCEPT ![ThePlan.memory] = "partial"]}
    BY <2>2, <2>3 DEF TypeOK, Gone, CompleteMeansGone
  <2>4. CASE ~Residue /\ receipt' = [receipt EXCEPT ![ThePlan.memory] = "complete"]
    <3>1. rows[ThePlan.memory] = {} /\ ThePlan.memory \in tomb
      BY <2>4 DEF Residue
    <3>2. \A a \in Artifacts : disk[a] # {} => a \in stray \/ a \in headless \ ledger
      BY <2>1, <2>4 DEF Residue, ThePlan, Registered, CopiesStayRegistered
    <3>3. \A a \in Artifacts : copying[a] # None => a \in stray
      BY <2>1 DEF Registered
    <3> QED
      BY <2>2, <2>4, <3>1, <3>2, <3>3 DEF TypeOK, Gone, CompleteMeansGone
  <2> QED
    BY <1>18, <2>3, <2>4 DEF Finish
<1>19. CASE Check
  <2>1. exec.token \in Tokens /\ plan[exec.token] # None
    BY <1>19 DEF Check, TypeOK
  <2>2. CASE EndPartial(exec.token) /\ UNCHANGED tomb
    BY <1>19, <2>1, <2>2, EndPartialPlan, EmptyType, EmptyType,
       ErasureAssumption DEF Check, AfterRun, copies, TypeOK, TypeOK, Memory,
       Gone, CompleteMeansGone
  <2>3. CASE Run(exec.token) /\ ~(EndPartial(exec.token) /\ UNCHANGED tomb)
    BY <1>19, <2>1, <2>3, RunPlan, EmptyType, EmptyType, ErasureAssumption
       DEF Check, AfterRun, copies, TypeOK, TypeOK, Memory, Gone,
       CompleteMeansGone
  <2>4. CASE /\ exec' = NoExec /\ UNCHANGED tomb
             /\ plan' = [plan EXCEPT ![exec.token] = IF exec.token \in plans THEN @ ELSE None]
    BY <1>19, <2>1, <2>4, EmptyType, EmptyType, ErasureAssumption DEF
       Check, AfterRun, copies, TypeOK, TypeOK, Memory, Gone,
       CompleteMeansGone
  <2> QED
    BY <1>19, <2>2, <2>3, <2>4 DEF Check
<1>20. CASE Stop
  BY <1>20, EmptyType DEF Stop, store, copies, TypeOK, Memory, Gone,
     CompleteMeansGone
<1>21. CASE Start
  BY <1>21, EmptyType DEF Start, store, TypeOK, Memory, Gone,
     CompleteMeansGone
<1>22. CASE UNCHANGED vars
  BY <1>22 DEF vars, store, copies, gateway, TypeOK, Memory, Gone,
     CompleteMeansGone
<1> QED
  BY <1>1, <1>2, <1>3, <1>4, <1>5, <1>6, <1>7, <1>8, <1>9, <1>10, <1>11,
     <1>12, <1>13, <1>14, <1>15, <1>16, <1>17, <1>18, <1>19, <1>20, <1>21,
     <1>22 DEF Next, Execute

LEMMA NextCleared == TypeOK /\ Memory /\ Registered /\ Cleared /\ [Next]_vars => Cleared'
<1> SUFFICES ASSUME TypeOK, Memory, Registered, Cleared, [Next]_vars PROVE Cleared'
  OBVIOUS
<1>1. ASSUME NEW m \in Memories, Correct(m) PROVE Cleared'
  <2>1. exec' = exec /\ UNCHANGED plan
    BY <1>1 DEF Correct, copies, gateway
  <2>2. exec.pc # "idle" => /\ ThePlan'.memory = ThePlan.memory
                           /\ ThePlan'.artifacts = ThePlan.artifacts
    BY <2>1, OthersKeepPlan
  <2> QED
    BY <1>1, <2>1, <2>2 DEF Correct, copies, gateway, TypeOK, Cleared
<1>2. ASSUME NEW m \in Memories, Delete(m) PROVE Cleared'
  <2>1. exec' = exec /\ UNCHANGED plan
    BY <1>2 DEF Delete, copies, gateway
  <2>2. exec.pc # "idle" => /\ ThePlan'.memory = ThePlan.memory
                           /\ ThePlan'.artifacts = ThePlan.artifacts
    BY <2>1, OthersKeepPlan
  <2>3. \A o \in Memories : rows'[o] \subseteq rows[o]
    BY <1>2 DEF Delete, TypeOK
  <2>4. exec.pc # "idle" => ThePlan.memory \in Memories
    BY PlanType DEF TypeOK, ThePlan
  <2> QED
    BY <1>2, <2>1, <2>2, <2>3, <2>4, EmptyType DEF Steps,  Delete, copies,
       gateway, Cleared
<1>3. ASSUME NEW m \in Memories, Annotate(m) PROVE Cleared'
  <2>1. exec' = exec /\ UNCHANGED plan
    BY <1>3 DEF Annotate, copies, gateway
  <2>2. exec.pc # "idle" => /\ ThePlan'.memory = ThePlan.memory
                           /\ ThePlan'.artifacts = ThePlan.artifacts
    BY <2>1, OthersKeepPlan
  <2> QED
    BY <1>3, <2>1, <2>2 DEF Annotate, copies, gateway, TypeOK, Cleared
<1>4. ASSUME NEW m \in Memories, NEW t \in Tokens, PreviewBegin(m, t) PROVE Cleared'
  <2>1. exec' = exec /\ \E T : Forget(T)
    BY <1>4 DEF PreviewBegin, store, copies
  <2>2. exec.pc # "idle" => /\ ThePlan'.memory = ThePlan.memory
                           /\ ThePlan'.artifacts = ThePlan.artifacts
    BY <2>1, OthersKeepPlan
  <2> QED
    BY <1>4, <2>1, <2>2 DEF PreviewBegin, store, copies, TypeOK, Cleared
<1>5. ASSUME NEW m \in Memories, NEW f \in Files, Derive(m, f) PROVE Cleared'
  <2>1. exec' = exec /\ UNCHANGED plan
    BY <1>5 DEF Derive, copies, gateway
  <2>2. exec.pc # "idle" => /\ ThePlan'.memory = ThePlan.memory
                           /\ ThePlan'.artifacts = ThePlan.artifacts
    BY <2>1, OthersKeepPlan
  <2> QED
    BY <1>5, <2>1, <2>2 DEF Derive, copies, gateway, TypeOK, Cleared
<1>6. ASSUME NEW t \in Tokens, PreviewFindL1(t) PROVE Cleared'
  <2>1. exec' = exec /\ UNCHANGED plan
    BY <1>6 DEF PreviewFindL1, store, copies
  <2>2. exec.pc # "idle" => /\ ThePlan'.memory = ThePlan.memory
                           /\ ThePlan'.artifacts = ThePlan.artifacts
    BY <2>1, OthersKeepPlan
  <2> QED
    BY <1>6, <2>1, <2>2 DEF PreviewFindL1, store, copies, TypeOK, Cleared
<1>7. ASSUME NEW t \in Tokens, PreviewStore(t) PROVE Cleared'
  <2>1. exec' = exec
    BY <1>7 DEF PreviewStore, store, copies
  <2>2. exec.pc # "idle" => /\ ThePlan'.memory = ThePlan.memory
                           /\ ThePlan'.artifacts = ThePlan.artifacts
    BY <2>1, <1>7, OthersKeepPlan
  <2> QED
    BY <1>7, <2>1, <2>2 DEF PreviewStore, store, copies, TypeOK, Cleared
<1>8. ASSUME NEW t \in Tokens, Cancel(t) PROVE Cleared'
  <2>1. exec' = exec /\ \E T : Forget(T)
    BY <1>8 DEF Cancel, store, copies
  <2>2. exec.pc # "idle" => /\ ThePlan'.memory = ThePlan.memory
                           /\ ThePlan'.artifacts = ThePlan.artifacts
    BY <2>1, OthersKeepPlan
  <2> QED
    BY <1>8, <2>1, <2>2 DEF Cancel, store, copies, TypeOK, Cleared
<1>9. ASSUME NEW t \in Tokens, Expire(t) PROVE Cleared'
  <2>1. exec' = exec
    BY <1>9 DEF Expire, store, copies
  <2>2. exec.pc # "idle" => /\ ThePlan'.memory = ThePlan.memory
                           /\ ThePlan'.artifacts = ThePlan.artifacts
    BY <2>1, <1>9, OthersKeepPlan
  <2> QED
    BY <1>9, <2>1, <2>2 DEF Expire, store, copies, TypeOK, Cleared
<1>10. ASSUME NEW t \in Tokens, ExecuteBegin(t) PROVE Cleared'
  <2>1. t \in Tokens /\ plan[t] # None /\ exec = NoExec
    BY <1>10 DEF ExecuteBegin, TypeOK
  <2>2. CASE EndPartial(t) /\ UNCHANGED <<plans, tomb>>
    BY <1>10, <2>1, <2>2, EndPartialPlan, EmptyType, EmptyType,
       ErasureAssumption DEF ExecuteBegin, AfterRun, copies, ThePlan, TypeOK,
       TypeOK, Memory, Cleared
  <2>3. CASE Run(t) /\ ~(EndPartial(t) /\ UNCHANGED tomb) /\ UNCHANGED plans
    BY <1>10, <2>1, <2>3, RunPlan, EmptyType, EmptyType, ErasureAssumption
       DEF ExecuteBegin, AfterRun, copies, ThePlan, TypeOK, TypeOK, Memory,
       Cleared
  <2>4. CASE Forget({t}) /\ UNCHANGED <<exec, tomb>>
    BY <1>10, <2>1, <2>4, EmptyType, EmptyType, ErasureAssumption DEF
       ExecuteBegin, Forget, AfterRun, copies, ThePlan, TypeOK, TypeOK,
       Memory, Cleared
  <2>5. CASE /\ exec' = [NoExec EXCEPT !.pc = "check", !.token = t]
             /\ plan[t].state = "pending" /\ UNCHANGED <<plan, plans, tomb>>
    BY <1>10, <2>1, <2>5, EmptyType, EmptyType, ErasureAssumption DEF
       ExecuteBegin, AfterRun, copies, ThePlan, TypeOK, TypeOK, Memory,
       Cleared
  <2> QED
    BY <1>10, <2>2, <2>3, <2>4, <2>5 DEF ExecuteBegin
<1>11. ASSUME NEW a \in Artifacts, CopyBegin(a) PROVE Cleared'
  <2>1. exec' = exec /\ UNCHANGED plan
    BY <1>11 DEF CopyBegin, store, gateway
  <2>2. exec.pc # "idle" => /\ ThePlan'.memory = ThePlan.memory
                           /\ ThePlan'.artifacts = ThePlan.artifacts
    BY <2>1, OthersKeepPlan
  <2> QED
    BY <1>11, <2>1, <2>2 DEF CopyBegin, store, gateway, TypeOK, Cleared
<1>12. ASSUME NEW a \in Artifacts, CopyEnd(a) PROVE Cleared'
  <2>1. exec' = exec /\ UNCHANGED plan
    BY <1>12 DEF CopyEnd, gateway
  <2>2. exec.pc # "idle" => /\ ThePlan'.memory = ThePlan.memory
                           /\ ThePlan'.artifacts = ThePlan.artifacts
    BY <2>1, OthersKeepPlan
  <2>3. exec.pc # "idle" => exec.token \in Tokens /\ plan[exec.token] # None /\ a \notin ThePlan.artifacts
    BY <1>12 DEF CopyEnd, ThePlan, TypeOK, Registered
  <2>4. \A b \in Artifacts : b # a => disk'[b] = disk[b]
    BY <1>12 DEF CopyEnd, TypeOK
  <2> QED
    BY <1>12, <2>1, <2>2, <2>3, <2>4, EmptyType DEF CopyEnd, gateway, Cleared
<1>13. CASE DerivedStep
  BY <1>13, EmptyType, StepPlan DEF DerivedStep, Attempt, Redact, ThePlan,
     copies, TypeOK, Memory, Cleared
<1>14. CASE RowStep
  <2>1. ThePlan' = ThePlan /\ ThePlan.memory \in Memories
    BY <1>14, StepPlan, PlanType
  <2>2. rows'[ThePlan.memory] \subseteq rows[ThePlan.memory]
    BY <1>14, <2>1, RowsShrink
  <2>3. CASE Attempt("readable_l0", "readable_l1", UNCHANGED rows, DropRows("readable_l0"))
    <3>1. /\ exec.pc = "readable_l0" /\ exec'.pc = "readable_l1"
          /\ ~exec'.failed => ~exec.failed /\ DropRows("readable_l0")
      BY <2>3 DEF Attempt, TypeOK
    <3>2. DropRows("readable_l0") => "readable_l0" \notin rows'[ThePlan.memory]
      BY <2>1 DEF DropRows, TypeOK
    <3> QED
      BY <2>1, <2>2, <3>1, <3>2 DEF Cleared, Steps
  <2>4. CASE Attempt("readable_l1", "source_l0", UNCHANGED rows, DropRows("readable_l1"))
    <3>1. /\ exec.pc = "readable_l1" /\ exec'.pc = "source_l0"
          /\ ~exec'.failed => ~exec.failed /\ DropRows("readable_l1")
      BY <2>4 DEF Attempt, TypeOK
    <3>2. DropRows("readable_l1") => "readable_l1" \notin rows'[ThePlan.memory]
      BY <2>1 DEF DropRows, TypeOK
    <3> QED
      BY <2>1, <2>2, <3>1, <3>2 DEF Cleared, Steps
  <2>5. CASE Attempt("source_l0", "managed_copies", UNCHANGED rows, DropRows("source_l0"))
    <3>1. /\ exec.pc = "source_l0" /\ exec'.pc = "managed_copies"
          /\ ~exec'.failed => ~exec.failed /\ DropRows("source_l0")
      BY <2>5 DEF Attempt, TypeOK
    <3>2. DropRows("source_l0") => "source_l0" \notin rows'[ThePlan.memory]
      BY <2>1 DEF DropRows, TypeOK
    <3> QED
      BY <2>1, <2>2, <3>1, <3>2 DEF Cleared, Steps
  <2> QED
    BY <1>14, <2>3, <2>4, <2>5 DEF RowStep
<1>15. CASE CopyStep
  <2>1. PICK A \in SUBSET ThePlan.artifacts :
           /\ RemoveCopies(A)
           /\ exec' = [exec EXCEPT !.pc = "product_metadata", !.deleted = A,
                                   !.failed = @ \/ A # ThePlan.artifacts]
    BY <1>15 DEF CopyStep
  <2>2. /\ exec'.pc = "product_metadata" /\ exec.pc = "managed_copies"
        /\ ~exec'.failed => ~exec.failed /\ A = ThePlan.artifacts
    BY <1>15, <2>1 DEF CopyStep, TypeOK
  <2>3. /\ ThePlan' = ThePlan /\ ThePlan.artifacts \subseteq Artifacts
        /\ UNCHANGED rows
    BY <1>15, StepPlan, PlanType DEF CopyStep
  <2>4. ~exec'.failed => \A a \in ThePlan.artifacts : disk'[a] = {} \/ a \in headless
    BY <2>1, <2>2, <2>3 DEF RemoveCopies
  <2>5. headless \subseteq headless'
    BY <1>15 DEF CopyStep, Behead
  <2> QED
    BY <2>2, <2>3, <2>4, <2>5 DEF Cleared, Steps
<1>16. CASE MetadataStep
  BY <1>16, EmptyType, StepPlan DEF MetadataStep, ThePlan, copies, TypeOK,
     Memory, Cleared
<1>17. CASE IndexStep
  BY <1>17, EmptyType, StepPlan DEF IndexStep, Attempt, DropRows, ThePlan,
     copies, TypeOK, Memory, Cleared
<1>18. CASE Finish
  <2>1. exec.token \in Tokens /\ plan[exec.token] # None
    BY <1>18 DEF Finish, TypeOK
  <2>2. CASE EndPartial(exec.token) /\ UNCHANGED plans
    BY <1>18, <2>1, <2>2, EndPartialPlan, EmptyType, EmptyType,
       ErasureAssumption DEF Finish, TypeOK, TypeOK, Memory, Cleared
  <2>3. CASE /\ plans' = plans \ {exec.token} /\ plan' = [plan EXCEPT ![exec.token] = None]
             /\ exec' = NoExec
    BY <1>18, <2>1, <2>3, EmptyType, EmptyType, ErasureAssumption DEF
       Finish, TypeOK, TypeOK, Memory, Cleared
  <2> QED
    BY <1>18, <2>2, <2>3 DEF Finish
<1>19. CASE Check
  <2>1. exec.token \in Tokens /\ plan[exec.token] # None
    BY <1>19 DEF Check, TypeOK
  <2>2. CASE EndPartial(exec.token) /\ UNCHANGED tomb
    BY <1>19, <2>1, <2>2, EndPartialPlan, EmptyType, EmptyType,
       ErasureAssumption DEF Check, AfterRun, copies, ThePlan, TypeOK, TypeOK,
       Memory, Cleared
  <2>3. CASE Run(exec.token) /\ ~(EndPartial(exec.token) /\ UNCHANGED tomb)
    BY <1>19, <2>1, <2>3, RunPlan, EmptyType, EmptyType, ErasureAssumption
       DEF Check, AfterRun, copies, ThePlan, TypeOK, TypeOK, Memory, Cleared
  <2>4. CASE /\ exec' = NoExec /\ UNCHANGED tomb
             /\ plan' = [plan EXCEPT ![exec.token] = IF exec.token \in plans THEN @ ELSE None]
    BY <1>19, <2>1, <2>4, EmptyType, EmptyType, ErasureAssumption DEF
       Check, AfterRun, copies, ThePlan, TypeOK, TypeOK, Memory, Cleared
  <2> QED
    BY <1>19, <2>2, <2>3, <2>4 DEF Check
<1>20. CASE Stop
  BY <1>20, EmptyType DEF Stop, store, copies, TypeOK, Memory, Cleared
<1>21. CASE Start
  BY <1>21, EmptyType DEF Start, store, TypeOK, Memory, Cleared
<1>22. CASE UNCHANGED vars
  <2>1. exec' = exec /\ UNCHANGED plan
    BY <1>22 DEF vars, gateway
  <2>2. exec.pc # "idle" => /\ ThePlan'.memory = ThePlan.memory
                           /\ ThePlan'.artifacts = ThePlan.artifacts
    BY <2>1, OthersKeepPlan
  <2> QED
    BY <1>22, <2>1, <2>2 DEF vars, store, copies, gateway, Cleared
<1> QED
  BY <1>1, <1>2, <1>3, <1>4, <1>5, <1>6, <1>7, <1>8, <1>9, <1>10, <1>11,
     <1>12, <1>13, <1>14, <1>15, <1>16, <1>17, <1>18, <1>19, <1>20, <1>21,
     <1>22 DEF Next, Execute

-----------------------------------------------------------------------------
(* The theorems. *)

LEMMA InitInv == Init => Inv
BY EmptyType, ErasureAssumption
   DEF Init, Inv, TypeOK, Memory, Running, Behind, TombstoneFirst, Registered, CopiesStayRegistered, Gone, CompleteMeansGone, Cleared, Steps

LEMMA NextInv == Inv /\ [Next]_vars => Inv'
BY NextType, NextMemory, NextRunning, NextBehind, NextRegistered, NextGone,
   NextCleared DEF Inv

THEOREM Invariance == Spec => []Inv
BY InitInv, NextInv, PTL DEF Spec

\* Type correctness.
THEOREM TypeCorrect == Spec => []TypeOK
<1>1. Inv => TypeOK
  BY DEF Inv
<1> QED
  BY <1>1, Invariance, PTL

\* No data of a memory is destroyed before its tombstone, for any number of
\* plans, executions, failures and restarts.
THEOREM TombstoneIsFirst == Spec => []TombstoneFirst
<1>1. Inv => TombstoneFirst
  BY DEF Inv, Behind
<1> QED
  BY <1>1, Invariance, PTL

\* A complete receipt stays true of every store, and of every copy but the
\* strays and the struck-off remains of half-removed backups.
THEOREM CompleteIsGone == Spec => []CompleteMeansGone
<1>1. Inv => CompleteMeansGone
  BY DEF Inv, Gone
<1> QED
  BY <1>1, Invariance, PTL

\* A copy on disk is registered, a stray or what is left of a backup.
THEOREM NoCopyForgotten == Spec => []CopiesStayRegistered
<1>1. Inv => CopiesStayRegistered
  BY DEF Inv, Registered
<1> QED
  BY <1>1, Invariance, PTL

\* A listed plan in state running is the one being executed.
THEOREM RunningIsExecuted == Spec => []RunningHasExecution
<1>1. Inv => RunningHasExecution
  BY DEF Inv, Running, RunningHasExecution, TypeOK
<1> QED
  BY <1>1, Invariance, PTL

LastRow(m) ==
  exec' # exec /\ Indexed(m) /\ ~Indexed(m)' =>
    /\ rows[m] = {"index_l1"}
    /\ \A a \in ThePlan.artifacts : disk[a] = {} \/ a \in headless

LEMMA LastRowStep ==
  ASSUME Inv, [Next]_vars, NEW m \in Memories
  PROVE  LastRow(m)
<1>1. CASE UNCHANGED rows \/ UNCHANGED exec
  BY <1>1 DEF LastRow, Indexed
<1>2. CASE RowStep
  <2>1. /\ exec.pc # "idle" /\ ThePlan.memory \in Memories
    BY <1>2, StepPlan, PlanType DEF Inv
  <2>2. \A s \in {"readable_l0", "readable_l1", "source_l0"} :
          DropRows(s) => (Indexed(m) => Indexed(m)')
    BY <2>1 DEF DropRows, Indexed, Inv, TypeOK
  <2>3. UNCHANGED rows \/ \E s \in {"readable_l0", "readable_l1", "source_l0"} : DropRows(s)
    BY <1>2 DEF RowStep, Attempt
  <2> QED
    BY <1>1, <2>2, <2>3 DEF LastRow
<1>3. CASE IndexStep
  <2>1. ThePlan.memory \in Memories /\ exec.pc = "index_l1" /\ ~exec.failed
    BY <1>3, StepPlan, PlanType DEF IndexStep, Attempt, Inv, Cleared
  <2>2. /\ "readable_l0" \notin rows[ThePlan.memory]
        /\ "readable_l1" \notin rows[ThePlan.memory]
        /\ "source_l0" \notin rows[ThePlan.memory]
        /\ \A a \in ThePlan.artifacts : disk[a] = {} \/ a \in headless
    BY <2>1 DEF Inv, Cleared, Steps
  <2>3. Indexed(m) /\ ~Indexed(m)' => m = ThePlan.memory
    BY <1>3, <2>1 DEF IndexStep, Attempt, DropRows, Indexed, Inv, TypeOK
  <2>4. Indexed(ThePlan.memory) => rows[ThePlan.memory] = {"index_l1"}
    BY <2>1, <2>2 DEF Indexed, Inv, TypeOK, Stores
  <2> QED
    BY <2>2, <2>3, <2>4 DEF LastRow
<1>4. [Next]_vars => RowStep \/ IndexStep \/ UNCHANGED rows \/ UNCHANGED exec
  BY DEF Next, Execute, vars, store, copies, gateway, AfterRun, Correct,
     Delete,
         Annotate, PreviewBegin, Derive, PreviewFindL1, PreviewStore, Cancel, Expire,
         ExecuteBegin, CopyBegin, CopyEnd, DerivedStep, CopyStep, MetadataStep,
         Finish, Check, Stop, Start
<1> QED
  BY <1>1, <1>2, <1>3, <1>4

\* The execution deletes the index row last, of the plan's rows and copies; what
\* is left of a backup without its manifest does not hold it up.
THEOREM IndexIsLast == Spec => IndexGoesLast
<1>1. Inv /\ [Next]_vars => [\A m \in Memories :
        exec' # exec /\ Indexed(m) /\ ~Indexed(m)' =>
          /\ rows[m] = {"index_l1"}
          /\ \A a \in ThePlan.artifacts : disk[a] = {} \/ a \in headless]_vars
  BY LastRowStep DEF LastRow
<1> QED
  BY <1>1, Invariance, PTL DEF Spec, IndexGoesLast
=============================================================================
