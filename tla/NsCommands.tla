----------------------------- MODULE NsCommands -----------------------------
(***************************************************************************)
(* The namespace commands of the esxcli plugin (main.c, nvme_lib.c):       *)
(* create, delete, attach, detach, format and list.  A command is one run  *)
(* of the plugin's process, a script of steps, each an ioctl of the driver *)
(* or a command of the host, any of which may fail, with its work done or  *)
(* not; what is done stays, unless the code undoes it.                     *)
(*                                                                         *)
(* External: the device's namespaces, the driver's list of them, and the   *)
(* host, which claims and uses their paths while a command runs.           *)
(***************************************************************************)
EXTENDS Integers, Sequences, FiniteSets

CONSTANTS NumNs   (* idCtrlr->nn: the namespace ids are 1..NumNs           *)

ASSUME NumNsAssumption == NumNs \in Nat \ {0}

VARIABLES
  ns,         (* the namespaces: allocated, attached; the driver's status; *)
              (* their path claimed by the host, and in use                *)
  nsMgmt,     (* OACS: the device manages namespaces                       *)
  activeList, (* the version of the device is 1.1 or later                 *)
  nsCmd,      (* the command under way, or the last one: whether it has    *)
              (* unclaimed the path, given up a rescan, been told of a     *)
              (* failure of what was done, told success                    *)
  nsAt        (* its next step; "out" when it has returned                 *)

nsVars == <<ns, nsMgmt, activeList, nsCmd, nsAt>>

NsIds == 1..NumNs
GivenIds == 0..(NumNs + 1)                (* what may be typed after -n    *)
Statuses == {"online", "offline", "absent"}

-----------------------------------------------------------------------------
(* The scripts, after the parameters.  "rescan" is the filesystem's,       *)
(* "reclaim" that of the adapter's paths.                                  *)

Checks == {"open", "support", "malloc", "ctrlrId", "valid", "allocated", "attached",
           "notAttached", "notOnline", "identify", "formatSupport", "parameters"}

NsCreate == <<"open", "support", "malloc", "create", "done">>
NsDelete == <<"open", "support", "valid", "allocated", "notAttached", "notOnline",
              "delete", "done">>
NsAttach == <<"open", "ctrlrId", "support", "valid", "allocated", "notAttached",
              "malloc", "attach", "listAttach", "done">>
(* A mutation of NsDetach: success is told before the driver's list is     *)
(* updated.                                                                *)
NsDetachEarly ==
  <<"open", "ctrlrId", "support", "valid", "allocated", "attached", "status",
    "deviceName", "unclaim", "offline", "malloc", "detach", "done", "listDetach",
    "reclaim">>
NsDetach ==
  <<"open", "ctrlrId", "support", "valid", "allocated", "attached", "status",
    "deviceName", "unclaim", "offline", "malloc", "detach", "listDetach", "done",
    "reclaim">>
NsFormat ==
  <<"open", "valid", "attached", "identify", "formatSupport", "parameters", "status",
    "deviceName", "unclaim", "offline", "format", "update", "online", "rescan",
    "done", "reclaim">>
(* The controllers of a namespace, and the attributes of one.              *)
ListController == <<"open", "support", "malloc", "valid", "allocated", "identify", "done">>
NsGet == <<"open", "malloc", "identify", "done">>
Scripts == [create |-> NsCreate, delete |-> NsDelete, attach |-> NsAttach,
            detach |-> NsDetach, format |-> NsFormat,
            listController |-> ListController, get |-> NsGet]

(* The failures that jump to a label before out_reclaim.  A mutation: the  *)
(* failure to set the namespace offline does not.                          *)
ReclaimsAfterDetach(name, step) == name = "detach" /\ step \in {"detach", "listDetach"}
Reclaims(name, step) ==
  \/ name = "detach" /\ step \in {"offline", "detach", "listDetach"}
  \/ name = "format" /\ step = "offline"

NsIdle == nsAt = "out"
Target == ns[nsCmd.id]
After(step) ==
  LET script == Scripts[nsCmd.name]
      i == CHOOSE j \in DOMAIN script : script[j] = step
  IN IF i = Len(script) THEN "out" ELSE script[i + 1]
Become(attributes) == ns' = [ns EXCEPT ![nsCmd.id] = attributes]

NoNsCmd == [name |-> "none", id |-> 0, unclaimed |-> FALSE, gaveUp |-> FALSE,
            misled |-> FALSE, success |-> FALSE]

NsBegin(name, id) ==
  /\ NsIdle
  /\ nsCmd' = [NoNsCmd EXCEPT !.name = name, !.id = id]
  /\ nsAt' = Head(Scripts[name])
  /\ UNCHANGED <<ns, nsMgmt, activeList>>

(* An ioctl, an allocation or a command of the host fails, or a check.     *)
(* "gaveUp" is a failed rescan.  The device, the driver or the host may    *)
(* have done what was asked of it all the same: "misled" is so at a step   *)
(* after whose failure the code does not reclaim the path.                 *)
FailAt(step, done) ==
  /\ nsAt' = IF Reclaims(nsCmd.name, step) THEN "reclaim" ELSE "out"
  /\ nsCmd' = [nsCmd EXCEPT !.unclaimed = @ \/ (done /\ step = "unclaim"),
                            !.gaveUp = (step = "rescan"),
                            !.misled = (done /\ step \in {"unclaim", "online"})]
  /\ UNCHANGED <<nsMgmt, activeList>>
NsStepFails == nsAt \notin {"out", "done", "reclaim"} /\ FailAt(nsAt, FALSE) /\ UNCHANGED ns

(* The answer to a step that has done its work.                            *)
Answer(ok) ==
  IF ok THEN nsAt' = After(nsAt) /\ UNCHANGED <<nsMgmt, activeList, nsCmd>>
  ELSE FailAt(nsAt, TRUE)

(* A step that changes nothing but the command's place.                    *)
NsGoto(step) == nsAt' = step /\ UNCHANGED <<ns, nsMgmt, activeList, nsCmd>>

-----------------------------------------------------------------------------
(* The checks, in the words of nvme_lib.c.  A device of version 1.0 has no *)
(* list of active namespaces.                                              *)

ValidNsId(id) == id \in NsIds
AllocatedNsId(id) == ValidNsId(id) /\ ns[id].allocated
AttachedNsId(id) == ValidNsId(id) /\ (activeList => ns[id].attached)

(* A mutation of Passes: an attached namespace may be deleted.             *)
PassesAttached(step, id) ==
  CASE step = "support" -> nsMgmt
    [] step = "valid" -> ValidNsId(id)
    [] step = "allocated" -> AllocatedNsId(id)
    [] step = "attached" -> AttachedNsId(id)
    [] step = "notOnline" -> ns[id].status # "online"
    [] OTHER -> TRUE
Passes(step, id) ==
  CASE step = "support" -> nsMgmt
    [] step = "valid" -> ValidNsId(id)
    [] step = "allocated" -> AllocatedNsId(id)
    [] step = "attached" -> AttachedNsId(id)
    [] step = "notAttached" -> ~AttachedNsId(id)
    [] step = "notOnline" -> ns[id].status # "online"
    [] OTHER -> TRUE

CheckPasses == nsAt \in Checks /\ Passes(nsAt, nsCmd.id) /\ NsGoto(After(nsAt))

-----------------------------------------------------------------------------
(* The steps that change something.                                        *)

NewNs == [allocated |-> TRUE, attached |-> FALSE, status |-> "absent",
          claimed |-> FALSE, inUse |-> FALSE]
NoNs == [NewNs EXCEPT !.allocated = FALSE]

(* The device gives the new namespace its id.                              *)
NsMgmtCreate(id, ok) ==
  /\ nsAt = "create" /\ ~ns[id].allocated
  /\ ns' = [ns EXCEPT ![id] = NewNs]
  /\ Answer(ok)

NsMgmtDelete(ok) ==
  /\ nsAt = "delete"
  /\ Become([Target EXCEPT !.allocated = FALSE, !.attached = FALSE])
  /\ Answer(ok)

NsAttachCommand(ok) ==
  /\ nsAt \in {"attach", "detach"}
  /\ Become([Target EXCEPT !.attached = (nsAt = "attach")])
  /\ Answer(ok)

(* The driver takes the namespace in, offline if it does not support its   *)
(* format, or leaves it, and its path goes.                                *)
NsListUpdate(status, ok) ==
  /\ \/ nsAt = "listAttach" /\ status # "absent" /\ Become([Target EXCEPT !.status = status])
     \/ /\ nsAt = "listDetach" /\ status = "absent"
        /\ Become([Target EXCEPT !.status = status, !.claimed = FALSE, !.inUse = FALSE])
  /\ Answer(ok)

(* Only an online namespace is unclaimed and set offline.                  *)
NsGetStatus ==
  /\ nsAt = "status"
  /\ NsGoto(IF Target.status = "online" THEN "deviceName" ELSE After("offline"))

(* VMK_NOT_FOUND is the answer for an unclaimed path, and for one whose    *)
(* line is not understood.  A mutation: it also spares the offline.        *)
GetDeviceNameSparing ==
  /\ nsAt = "deviceName"
  /\ \/ Target.claimed /\ NsGoto("unclaim")
     \/ NsGoto(After("offline"))
GetDeviceName ==
  /\ nsAt = "deviceName"
  /\ \/ Target.claimed /\ NsGoto("unclaim")
     \/ NsGoto("offline")

(* The host refuses while the path is in use.  ExecuteCommand takes any    *)
(* output of the host's command for a failure, also of one that worked,    *)
(* and no output for success, also of one that did not.                    *)
UnclaimPath(ok) ==
  /\ nsAt = "unclaim" /\ ~Target.inUse
  /\ Become([Target EXCEPT !.claimed = FALSE])
  /\ IF ok THEN /\ nsCmd' = [nsCmd EXCEPT !.unclaimed = TRUE]
                /\ nsAt' = "offline"
                /\ UNCHANGED <<nsMgmt, activeList>>
     ELSE FailAt(nsAt, TRUE)
UnclaimNothing == nsAt = "unclaim" /\ NsGoto("offline")

(* The driver does not know a namespace that is not in its list.           *)
NsSetStatus(ok) ==
  /\ nsAt \in {"offline", "online"} /\ Target.status # "absent"
  /\ Become([Target EXCEPT !.status = nsAt])
  /\ Answer(ok)

(* The format itself, the driver's reading of the new attributes, and the  *)
(* rescan of the filesystems change nothing that is modelled.              *)
FormatNvm == nsAt = "format" /\ NsGoto(After(nsAt))
NsUpdate == nsAt = "update" /\ NsGoto(After(nsAt))
RescanFilesystems == nsAt = "rescan" /\ NsGoto(After(nsAt))

TellSuccess ==
  /\ nsAt = "done"
  /\ nsCmd' = [nsCmd EXCEPT !.success = TRUE]
  /\ nsAt' = After(nsAt)
  /\ UNCHANGED <<ns, nsMgmt, activeList>>

(* The host looks for the paths of the adapter.  The result is ignored.    *)
ReclaimPaths(works) ==
  /\ nsAt = "reclaim"
  /\ nsAt' = "out"
  /\ IF works
     THEN /\ ns' = [id \in NsIds |->
                      [ns[id] EXCEPT !.claimed = @ \/ ns[id].status = "online"]]
          /\ UNCHANGED nsCmd
     ELSE nsCmd' = [nsCmd EXCEPT !.gaveUp = TRUE] /\ UNCHANGED ns
  /\ UNCHANGED <<nsMgmt, activeList>>

(* External: the host claims the path of a namespace, uses it and stops.   *)
HostClaims(id) ==
  /\ ns[id].status = "online" /\ ~ns[id].claimed
  /\ ns' = [ns EXCEPT ![id].claimed = TRUE]
  /\ UNCHANGED <<nsMgmt, activeList, nsCmd, nsAt>>
HostUses(id) ==
  /\ ns[id].claimed
  /\ ns' = [ns EXCEPT ![id].inUse = ~@]
  /\ UNCHANGED <<nsMgmt, activeList, nsCmd, nsAt>>

NsStep ==
  \/ NsStepFails \/ CheckPasses \/ NsGetStatus \/ GetDeviceName \/ UnclaimNothing
  \/ FormatNvm \/ NsUpdate \/ RescanFilesystems \/ TellSuccess
  \/ \E ok \in BOOLEAN :
       \/ NsMgmtDelete(ok) \/ NsAttachCommand(ok) \/ UnclaimPath(ok) \/ NsSetStatus(ok)
       \/ \E id \in NsIds : NsMgmtCreate(id, ok)
       \/ \E status \in Statuses : NsListUpdate(status, ok)
  \/ \E works \in BOOLEAN : ReclaimPaths(works)

(* The namespace id is looked at once it is known to be valid; "create"    *)
(* has none.                                                               *)
NsNext ==
  \/ NsStep
  \/ \E name \in DOMAIN Scripts, id \in GivenIds : NsBegin(name, id)
  \/ \E id \in NsIds : HostClaims(id) \/ HostUses(id)

(* A device that does not manage namespaces has them all, attached.        *)
NsInit ==
  /\ nsMgmt \in BOOLEAN /\ activeList \in BOOLEAN
  /\ ns = [id \in NsIds |-> IF nsMgmt THEN NoNs
                            ELSE [NewNs EXCEPT !.attached = TRUE, !.status = "online"]]
  /\ nsCmd = NoNsCmd /\ nsAt = "out"

-----------------------------------------------------------------------------
(* NvmePlugin_DeviceNsList, of the two lists of the device.                *)

NamespaceInfo(id, status) == [nsId |-> id, status |-> status]

(* A mutation of MergedLists: an id of both lists is listed twice.         *)
MergedListsTwice(allocatedIds, activeIds) ==
  LET merged[at \in (1..(Len(allocatedIds) + 1)) \X (1..(Len(activeIds) + 1))] ==
        LET i == at[1]
            j == at[2]
        IN IF i <= Len(allocatedIds) /\ (j > Len(activeIds) \/ allocatedIds[i] <= activeIds[j])
           THEN <<NamespaceInfo(allocatedIds[i], "allocated")>> \o merged[<<i + 1, j>>]
           ELSE IF j > Len(activeIds) THEN <<>>
           ELSE <<NamespaceInfo(activeIds[j], "active")>> \o merged[<<i, j + 1>>]
  IN merged[<<1, 1>>]
MergedLists(allocatedIds, activeIds) ==
  LET merged[at \in (1..(Len(allocatedIds) + 1)) \X (1..(Len(activeIds) + 1))] ==
        LET i == at[1]
            j == at[2]
            left == i <= Len(allocatedIds)
            right == j <= Len(activeIds)
        IN IF left /\ (~right \/ allocatedIds[i] < activeIds[j])
           THEN <<NamespaceInfo(allocatedIds[i], "allocated")>> \o merged[<<i + 1, j>>]
           ELSE IF ~right THEN <<>>
           ELSE <<NamespaceInfo(activeIds[j], "active")>>
                \o merged[<<IF left /\ allocatedIds[i] = activeIds[j] THEN i + 1 ELSE i, j + 1>>]
  IN merged[<<1, 1>>]

(* A device lists the ids in ascending order, the allocated ones if it     *)
(* manages namespaces, the active ones from version 1.1 on.                *)
Ascending(ids) ==
  [i \in 1..Cardinality(ids) |->
     CHOOSE id \in ids : Cardinality({x \in ids : x < id}) = i - 1]
AllocatedList == Ascending(IF nsMgmt THEN {id \in NsIds : ns[id].allocated} ELSE {})
ActiveList == Ascending(IF activeList THEN {id \in NsIds : ns[id].attached} ELSE {})
NsList ==
  IF nsMgmt \/ activeList THEN MergedLists(AllocatedList, ActiveList)
  ELSE [i \in NsIds |-> NamespaceInfo(i, "active")]
=============================================================================
