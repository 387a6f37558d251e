-------------------------------- MODULE Disks --------------------------------
(***************************************************************************)
(* AttachDisk and DetachDisk of the three kinds of machines                *)
(* (azure_controller_vmss.go, _vmssflex.go, _standard.go).  A call reads   *)
(* the disks of the machine from a cache, sends the whole new list to      *)
(* Azure, which makes it the machine's list, and corrects the cache.  The  *)
(* callers (the disk driver, outside this repository) make one call at a   *)
(* time for a machine and never delete a disk they have asked for.         *)
(***************************************************************************)
EXTENDS Naturals, FiniteSets

CONSTANTS
    ScaleSetVMs, OtherVMs,      \* machines of a uniform scale set; of a flexible or availability set
    Disk, Lun,                  \* managed disks and logical unit numbers
    DiskFaults,                 \* a subset of {"lookup", "reject", "unsure", "wait", "noresult", "check"}
    MaxDiskFaults, MaxOutside   \* bounds on faults, and on disks removed behind the provider's back

ASSUME DisksAssumption ==
    /\ ScaleSetVMs \cap OtherVMs = {} /\ "none" \notin Disk
    /\ DiskFaults \subseteq {"lookup", "reject", "unsure", "wait", "noresult", "check"}
    /\ MaxDiskFaults \in Nat /\ MaxOutside \in Nat

Host == ScaleSetVMs \cup OtherVMs
\* A list no machine has stands for no entry.
NoEntry == {[disk |-> "none", lun |-> 0]}
NoCall == [pc |-> "idle"]

VARIABLES
    hasDisks,   \* host -> its set of [disk, lun]: Azure's list
    exists,     \* the disks that exist
    dcache,     \* host -> the cached list, or NoEntry
    call,       \* host -> the call that runs for it
    answer,     \* host -> the last call and its result, until the next call
    promised,   \* host -> the disks a call has reported attached and none was asked to detach since
    dbudget     \* what is left of the two bounds

dvars == <<hasDisks, exists, dcache, call, answer, promised, dbudget>>

DInit ==
    /\ hasDisks = [h \in Host |-> {}]
    /\ exists = Disk
    /\ dcache = [h \in Host |-> NoEntry]
    /\ call = [h \in Host |-> NoCall]
    /\ answer = [h \in Host |-> NoCall]
    /\ promised = [h \in Host |-> {}]
    /\ dbudget = [faults |-> MaxDiskFaults, outside |-> MaxOutside]

NamesOf(list) == {e.disk : e \in list}
Asked == {call[h].disk : h \in {g \in Host : call[g].pc # "idle"}}

Allowed(f) == f = "none" \/ (f \in DiskFaults /\ dbudget.faults > 0)
Pay(f) == dbudget' = [dbudget EXCEPT !.faults = IF f = "none" THEN @ ELSE @ - 1]

-----------------------------------------------------------------------------
(* Azure.  An update makes the list, without the disks marked to be        *)
(* detached, the machine's list.  It answers 404 when the list has a disk  *)
(* that does not exist, and refuses a disk that another machine has and    *)
(* two disks on one LUN.                                                   *)

NotFound(list) == NamesOf(list) \ exists # {}
Refused(h, list) ==
    \/ \E g \in Host \ {h} : NamesOf(hasDisks[g]) \cap NamesOf(list) # {}
    \/ \E e, f \in list : e.lun = f.lun /\ e.disk # f.disk

\* A disk is detached and deleted by someone else; the cached list still has it.
RemovedOutside(h, e) ==
    /\ dbudget.outside > 0 /\ e \in hasDisks[h] /\ e.disk \notin Asked
    /\ hasDisks' = [hasDisks EXCEPT ![h] = @ \ {e}]
    /\ exists' = exists \ {e.disk}
    /\ promised' = [promised EXCEPT ![h] = @ \ {e.disk}]
    /\ answer' = [answer EXCEPT ![h] = NoCall]
    /\ dbudget' = [dbudget EXCEPT !.outside = @ - 1]
    /\ UNCHANGED <<dcache, call>>

\* The entry of a machine expires.
ExpireDisks(h) ==
    /\ dcache[h] # NoEntry
    /\ dcache' = [dcache EXCEPT ![h] = NoEntry]
    /\ UNCHANGED <<hasDisks, exists, call, answer, promised, dbudget>>

-----------------------------------------------------------------------------
\* What the look-up of the machine returns, with a default read.
CachedList(h) == IF dcache[h] = NoEntry THEN hasDisks[h] ELSE dcache[h]

Return(h, op, d, result) ==
    /\ call' = [call EXCEPT ![h] = NoCall]
    /\ answer' = [answer EXCEPT ![h] = [pc |-> result, op |-> op, disk |-> d]]

\* AttachDisk: a disk on another LUN is an error; one that is attached already is not added again, but
\* the list is sent all the same.
AttachDisk(h, d, l) ==
    LET list == CachedList(h)
        add == IF d \in NamesOf(list) THEN {} ELSE {[disk |-> d, lun |-> l]}
    IN  /\ call[h].pc = "idle" /\ d \in exists \ Asked
        /\ dcache' = [dcache EXCEPT ![h] = list]
        /\ IF \E e \in list : e.disk = d /\ e.lun # l
           THEN Return(h, "attach", d, "error")
           ELSE /\ call' = [call EXCEPT ![h] = [pc |-> "send", op |-> "attach", disk |-> d,
                                                list |-> list \cup add, off |-> {}]]
                /\ answer' = [answer EXCEPT ![h] = NoCall]
        /\ UNCHANGED <<hasDisks, exists, promised, dbudget>>

\* DetachDisk: the disk is marked; a disk that is not in the list leaves the list as it is.  When the
\* machine cannot be looked up a scale set's machine returns the error and the others return nil.
DetachDisk(h, d) ==
    /\ call[h].pc = "idle" /\ d \notin Asked
    /\ promised' = [promised EXCEPT ![h] = @ \ {d}]
    /\ \E f \in {f \in {"none", "lookup"} : Allowed(f)} :
          /\ Pay(f)
          /\ IF f = "lookup"
             THEN Return(h, "detach", d, IF h \in ScaleSetVMs THEN "error" ELSE "ok") /\ UNCHANGED dcache
             ELSE /\ dcache' = [dcache EXCEPT ![h] = CachedList(h)]
                  /\ call' = [call EXCEPT ![h] = [pc |-> "send", op |-> "detach", disk |-> d,
                                                  list |-> CachedList(h), off |-> {d}]]
                  /\ answer' = [answer EXCEPT ![h] = NoCall]
    /\ UNCHANGED <<hasDisks, exists>>

\* FilterNonExistingDisks: a disk whose check fails stays in the list.
FilterNonExistingDisks(list, unchecked) == {e \in list : e.disk \in exists \cup unchecked}

\* The list of the second try.  A detach of a machine that is not in a uniform scale set starts again
\* from the cached list, in which nothing is marked.
Retried(h) == IF call[h].op = "detach" /\ h \in OtherVMs THEN {} ELSE call[h].off

\* What a call does to the cache when it ends: an attach that failed does nothing, everything else drops
\* the entry, and a result puts the new list there.
BugCacheAfter(h, op, ok, list) == dcache[h]
CacheAfter(h, op, ok, list) ==
    IF op = "attach" /\ ~ok THEN dcache[h] ELSE IF ok THEN list ELSE NoEntry

Applied(list, off) == {e \in list : e.disk \notin off}

Ended(h, ok, result) ==
    LET c == call[h] IN
    /\ dcache' = [dcache EXCEPT ![h] = CacheAfter(h, c.op, ok, result)]
    /\ Return(h, c.op, c.disk, IF ok THEN "ok" ELSE "error")
    /\ promised' = [promised EXCEPT ![h] = IF ok /\ c.op = "attach" THEN @ \cup {c.disk} ELSE @]

\* UpdateAsync of an attach, Update of a detach: the first try, and the second after a 404.
Send(h) ==
    LET c == call[h]
        missing == NotFound(c.list)
    IN  /\ c.pc \in {"send", "resend"}
        /\ IF missing /\ c.pc = "send"
           THEN \E f \in {f \in {"none", "check"} : Allowed(f)} :
                   /\ Pay(f)
                   /\ call' = [call EXCEPT ![h] = [c EXCEPT !.pc = "resend", !.off = Retried(h),
                                  !.list = FilterNonExistingDisks(c.list, IF f = "check" THEN Disk ELSE {})]]
                   /\ UNCHANGED <<hasDisks, dcache, answer, promised>>
           ELSE \E f \in {f \in {"none", "reject", "unsure", "noresult"} : Allowed(f)} :
                   LET refused == missing \/ f = "reject" \/ Refused(h, Applied(c.list, c.off)) IN
                   /\ Pay(f)
                   /\ hasDisks' = [hasDisks EXCEPT ![h] = IF refused THEN @ ELSE Applied(c.list, c.off)]
                   /\ IF refused \/ f = "unsure" THEN Ended(h, FALSE, NoEntry)
                      ELSE IF c.op = "detach"
                      THEN Ended(h, TRUE, IF f = "noresult" THEN NoEntry ELSE Applied(c.list, c.off))
                      ELSE /\ call' = [call EXCEPT ![h].pc = "wait"]
                           /\ UNCHANGED <<dcache, answer, promised>>
        /\ UNCHANGED exists

\* WaitForUpdateResult of an attach; an error says nothing about the update, which has been accepted.
WaitForUpdateResult(h) ==
    /\ call[h].pc = "wait"
    /\ \E f \in {f \in {"none", "wait", "noresult"} : Allowed(f)} :
          /\ Pay(f)
          /\ Ended(h, f # "wait", IF f = "none" THEN hasDisks[h] ELSE NoEntry)
    /\ UNCHANGED <<hasDisks, exists>>

\* UpdateVM: an update without properties, whose result becomes the cached machine.
UpdateVM(h) ==
    /\ call[h].pc = "idle" /\ dcache[h] # NoEntry /\ dcache[h] # hasDisks[h]
    /\ dcache' = [dcache EXCEPT ![h] = hasDisks[h]]
    /\ UNCHANGED <<hasDisks, exists, call, answer, promised, dbudget>>

DNext ==
    \/ \E h \in Host :
          \/ \E d \in Disk : DetachDisk(h, d) \/ (\E l \in Lun : AttachDisk(h, d, l))
          \/ Send(h) \/ WaitForUpdateResult(h) \/ UpdateVM(h) \/ ExpireDisks(h)
          \/ \E e \in hasDisks[h] : RemovedOutside(h, e)

DSpec == DInit /\ [][DNext]_dvars

-----------------------------------------------------------------------------
\* Type invariant of the disks.
DTypeOK ==
    /\ \A h \in Host : hasDisks[h] \subseteq [disk : Disk, lun : Lun]
    /\ exists \subseteq Disk
    /\ \A h \in Host : dcache[h] = NoEntry \/ dcache[h] \subseteq [disk : Disk, lun : Lun]
    /\ \A h \in Host : call[h].pc \in {"idle", "send", "resend", "wait"} /\ promised[h] \subseteq Disk

\* A disk reported attached stays attached until somebody asks to detach it: no later call for the same
\* machine, computed from what the cache says, writes a list without it (AttachDisk, DetachDisk).
PromisedIsKept == \A h \in Host : promised[h] \subseteq NamesOf(hasDisks[h])

\* A detach from a scale set's machine that returned nil has taken the disk off it, so that it can be
\* attached elsewhere, whatever failed on the way and whatever the cached list had (DetachDisk).
DetachedIsOff ==
    \A h \in ScaleSetVMs :
        answer[h].pc = "ok" /\ answer[h].op = "detach" => answer[h].disk \notin NamesOf(hasDisks[h])

\* The same of the other machines.
DetachedIsOffOthers ==
    \A h \in OtherVMs :
        answer[h].pc = "ok" /\ answer[h].op = "detach" => answer[h].disk \notin NamesOf(hasDisks[h])

\* What the calls reported of a machine's disks is so (AttachDisk, DetachDisk).
DisksAsAnswered == DTypeOK /\ PromisedIsKept /\ DetachedIsOff
=============================================================================
