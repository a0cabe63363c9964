------------------------------- MODULE Esxcli -------------------------------
(***************************************************************************)
(* The esxcli plugin: one command at a time, of the namespaces or of the   *)
(* transfers.  The two share no state, so that a behaviour has commands of *)
(* one kind.                                                               *)
(***************************************************************************)
EXTENDS NsCommands, Transfers

VARIABLE area   (* the kind of the behaviour's commands                    *)

vars == <<nsVars, trVars, area>>

Init ==
  /\ area \in {"namespaces", "transfers"}
  /\ NsInit /\ TrInit
  /\ area = "transfers" => nsMgmt /\ activeList

Step == (NsStep /\ UNCHANGED trVars) \/ (TrStep /\ UNCHANGED nsVars)

Next ==
  /\ UNCHANGED area
  /\ \/ area = "namespaces" /\ NsNext /\ UNCHANGED trVars
     \/ area = "transfers" /\ TrNext /\ UNCHANGED nsVars

Spec == Init /\ [][Next]_vars

(* The process runs on: every ioctl and command of the host returns.       *)
FairSpec == Spec /\ WF_nsVars(NsStep) /\ WF_trVars(TrStep)

-----------------------------------------------------------------------------
(* Properties.                                                             *)

(* A namespace is deleted only while it is neither attached nor online:    *)
(* what DeviceNsDelete has asked of the device and of the driver still     *)
(* holds when it sends the command.                                        *)
DeletesDetached ==
  [][\A id \in NsIds : ns[id].allocated /\ ~ns'[id].allocated =>
       ~ns[id].attached /\ ns[id].status # "online"]_vars

(* A namespace is formatted only while it is attached and not online, also *)
(* when its path was not to be found, and although the host may claim the  *)
(* path again after it was unclaimed.  That no path to it is claimed or    *)
(* used then is more, and is not so.                                       *)
FormatsOffline ==
  nsAt = "format" => Target.status # "online" /\ AttachedNsId(nsCmd.id)

(* What a command tells the user it has done is done, at the device and in *)
(* the driver's list, when it is told, and when the command returns; a     *)
(* firmware commit too.                                                    *)
SuccessIsDone ==
  /\ tr.success /\ tr.name = "commit" => committed
  /\ nsCmd.success =>
       CASE nsCmd.name = "delete" -> ~Target.allocated
         [] nsCmd.name = "attach" -> Target.attached /\ Target.status # "absent"
         [] nsCmd.name = "detach" -> ~Target.attached /\ Target.status = "absent"
         [] nsCmd.name = "format" -> Target.attached /\ Target.status = "online"
         [] OTHER -> TRUE

(* A path that a command has unclaimed is claimed again when the command   *)
(* returns, unless the namespace is offline or gone.  The code gives up    *)
(* where the host does not rescan: the paths, or the filesystems, after    *)
(* which DeviceNsFormat does not get to the paths; and where it is told    *)
(* that what was done has failed, the unclaiming or the setting online.    *)
PathsGivenBack ==
  NsIdle /\ nsCmd.unclaimed /\ Target.status = "online" /\ ~Target.claimed =>
    nsCmd.gaveUp \/ nsCmd.misled

(* DeviceNsList lists each namespace of the device's lists once, in order, *)
(* and as active if and only if it is attached.                            *)
ListsEachOnce ==
  LET listed == NsList
      Known(id) == (nsMgmt /\ ns[id].allocated) \/ (activeList /\ ns[id].attached)
  IN /\ \A i, j \in DOMAIN listed : i < j => listed[i].nsId < listed[j].nsId
     /\ nsMgmt \/ activeList =>
          {listed[i].nsId : i \in DOMAIN listed} = {id \in NsIds : Known(id)}
     /\ activeList => \A i \in DOMAIN listed :
          (listed[i].status = "active") <=> ns[listed[i].nsId].attached

(* When success is told of a download, the device has received the image   *)
(* from its first byte to its last, each piece where the one before it     *)
(* ended, whatever buffer could be had: if the length of a transfer is a   *)
(* multiple of a dword, which nothing checks.                              *)
FirmwareIntact ==
  tr.success /\ tr.name = "firmware" /\ tr.xfer % 4 = 0 =>
    /\ \A i \in DOMAIN received :
         LET from == IF i = 1 THEN 0 ELSE received[i - 1].from + received[i - 1].length
         IN received[i].from = from /\ received[i].at = tr.base + from
    /\ received # <<>>
    /\ LET last == received[Len(received)] IN last.from + last.length = tr.size

(* A file of the controller's telemetry or of the persistent events for    *)
(* which success is told holds one version, that of its header, whenever   *)
(* the controller makes a new one, if it does so fewer than NumGens times  *)
(* in one attempt.                                                         *)
LogOfOneVersion ==
  tr.success /\ tr.name \in {"controller", "events"} /\ tr.action # "release" =>
    file = {tr.header}

(* Every command returns: the controller's telemetry is given up when it   *)
(* keeps changing.                                                         *)
CommandReturns == (~NsIdle \/ ~TrIdle) ~> (NsIdle /\ TrIdle)
=============================================================================
