---------------------------- MODULE ComputeProofs ----------------------------
(***************************************************************************)
(* Proofs about the machine layer: what the calls for disks and backend    *)
(* pools report is so, though they work on cached objects, and no cached   *)
(* answer denies a machine that runs.                                      *)
(***************************************************************************)
EXTENDS Machines, Disks, BackendHosts, TLAPS

Entries == [disk : Disk, lun : Lun]

\* A running call for a disk.
DiskCall == [pc : {"send", "resend", "wait"}, op : {"attach", "detach"}, disk : Disk,
             list : SUBSET Entries, off : SUBSET Disk]
DiskAnswer == [pc : {"ok", "error"}, op : {"attach", "detach"}, disk : Disk]

DiskTypes ==
    /\ hasDisks \in [Host -> SUBSET Entries]
    /\ exists \subseteq Disk
    /\ dcache \in [Host -> (SUBSET Entries) \cup {NoEntry}]
    /\ call \in [Host -> DiskCall \cup {NoCall}]
    /\ answer \in [Host -> DiskAnswer \cup {NoCall}]
    /\ promised \in [Host -> SUBSET Disk]

\* A disk is attached to one machine at most.
OneMachine == \A g, h \in Host : g # h => NamesOf(hasDisks[g]) \cap NamesOf(hasDisks[h]) = {}

\* What was promised exists, is attached, and is in the list a call may start
\* from or will send.
Held(h) ==
    /\ promised[h] \subseteq exists
    /\ promised[h] \subseteq NamesOf(hasDisks[h])
    /\ dcache[h] # NoEntry => promised[h] \subseteq NamesOf(dcache[h])
    /\ call[h].pc \in {"send", "resend"} => promised[h] \subseteq NamesOf(Applied(call[h].list, call[h].off))
PromiseHeld == \A h \in Host : Held(h)

\* The disk of a call to attach exists and is in the list that is sent, and in
\* Azure's once that was accepted.
AttachSound ==
    \A h \in Host : (call[h].pc # "idle" /\ call[h].op = "attach") =>
        /\ call[h].disk \in exists /\ call[h].off = {}
        /\ call[h].pc \in {"send", "resend"} => call[h].disk \in NamesOf(call[h].list)
        /\ call[h].pc = "wait" => call[h].disk \in NamesOf(hasDisks[h])

\* The disk of a call to detach stays marked on a scale set's machine.
DetachSound ==
    \A h \in Host :
        /\ (call[h].pc # "idle" /\ call[h].op = "detach") =>
              call[h].pc # "wait" /\ (h \in ScaleSetVMs => call[h].disk \in call[h].off)
        /\ call[h].pc # "idle" => answer[h] = NoCall

DisksInv ==
    DiskTypes /\ OneMachine /\ PromiseHeld /\ AttachSound /\ DetachSound /\ DetachedIsOff

\* The marker of a list that is not cached is no list of a machine.
LEMMA NoEntryIsNoList == NoEntry \notin SUBSET Entries
BY DisksAssumption DEF NoEntry, Entries

\* What is not marked of a list is a list (Applied, FilterNonExistingDisks).
LEMMA ListsStayLists ==
    ASSUME NEW list \in SUBSET Entries, NEW off
    PROVE  /\ Applied(list, off) \in SUBSET Entries
           /\ FilterNonExistingDisks(list, off) \in SUBSET Entries
           /\ NamesOf(list) \subseteq Disk
BY DEF Applied, FilterNonExistingDisks, NamesOf, Entries

\* The look-up of a machine gives a list (CachedList).
LEMMA LookupIsList ==
    ASSUME DiskTypes, NEW h \in Host
    PROVE  CachedList(h) \in SUBSET Entries
BY DEF DiskTypes, CachedList

\* The ways in which an update of a machine goes (Send): it is tried again
\* with fewer disks; it fails, applied or not; it takes a disk off; it is
\* accepted and waited for.
Again(h) ==
    /\ call[h].pc = "send" /\ NotFound(call[h].list)
    /\ \E unchecked \in {{}, Disk} :
          call' = [call EXCEPT ![h] = [pc |-> "resend", op |-> call[h].op, disk |-> call[h].disk,
                                       list |-> FilterNonExistingDisks(call[h].list, unchecked),
                                       off |-> Retried(h)]]
    /\ UNCHANGED <<hasDisks, exists, dcache, answer, promised>>

Done(h) ==
    /\ hasDisks' = [hasDisks EXCEPT ![h] = Applied(call[h].list, call[h].off)]
    /\ ~NotFound(call[h].list) /\ ~Refused(h, Applied(call[h].list, call[h].off))

Reported(h, result) ==
    /\ call' = [call EXCEPT ![h] = NoCall]
    /\ answer' = [answer EXCEPT ![h] = [pc |-> result, op |-> call[h].op, disk |-> call[h].disk]]

FailedUpdate(h) ==
    /\ hasDisks' = hasDisks \/ Done(h)
    /\ Reported(h, "error")
    /\ \/ call[h].op = "attach" /\ dcache' = dcache
       \/ dcache' = [dcache EXCEPT ![h] = NoEntry]
    /\ UNCHANGED <<exists, promised>>

DetachedUpdate(h) ==
    /\ Done(h) /\ Reported(h, "ok") /\ call[h].op = "detach"
    /\ \E list \in {NoEntry, Applied(call[h].list, call[h].off)} : dcache' = [dcache EXCEPT ![h] = list]
    /\ UNCHANGED <<exists, promised>>

AcceptedUpdate(h) ==
    /\ Done(h) /\ call[h].op = "attach"
    /\ call' = [call EXCEPT ![h] = [pc |-> "wait", op |-> "attach", disk |-> call[h].disk,
                                    list |-> call[h].list, off |-> call[h].off]]
    /\ UNCHANGED <<exists, dcache, answer, promised>>

\* The call that tries again, written out.
LEMMA CallRewritten ==
    ASSUME NEW c \in DiskCall
    PROVE  \A r, l : [c EXCEPT !.pc = "resend", !.off = r, !.list = l]
                       = [pc |-> "resend", op |-> c.op, disk |-> c.disk, list |-> l, off |-> r]
<1>1. TAKE r, l
<1> DEFINE m == [c EXCEPT !.pc = "resend"]
           n == [m EXCEPT !.off = r]
<1>2. m = [pc |-> "resend", op |-> c.op, disk |-> c.disk, list |-> c.list, off |-> c.off] BY DEF DiskCall
<1> HIDE DEF m
<1>3. n = [pc |-> "resend", op |-> c.op, disk |-> c.disk, list |-> c.list, off |-> r] BY <1>2
<1> HIDE DEF n
<1>4. [n EXCEPT !.list = l] = [pc |-> "resend", op |-> c.op, disk |-> c.disk, list |-> l, off |-> r] BY <1>3
<1>5. QED BY <1>4, Zenon DEF n, m

LEMMA SendCases ==
    ASSUME DiskTypes, NEW h \in Host, Send(h)
    PROVE  /\ call[h] \in DiskCall /\ call[h].pc \in {"send", "resend"}
           /\ Again(h) \/ FailedUpdate(h) \/ DetachedUpdate(h) \/ AcceptedUpdate(h)
<1>1. call[h] \in DiskCall /\ call[h].pc \in {"send", "resend"}
  <2>1. call[h].pc \in {"send", "resend"} BY DEF Send
  <2>2. call[h] \in DiskCall \cup {NoCall} BY DEF DiskTypes
  <2>3. QED BY <2>1, <2>2 DEF NoCall
<1> DEFINE c == call[h]
<1>2. exists' = exists BY DEF Send
<1>3. CASE NotFound(c.list) /\ c.pc = "send"
  <2>1. PICK f \in {"none", "check"} :
            /\ call' = [call EXCEPT ![h] = [c EXCEPT !.pc = "resend", !.off = Retried(h),
                           !.list = FilterNonExistingDisks(c.list, IF f = "check" THEN Disk ELSE {})]]
            /\ UNCHANGED <<hasDisks, dcache, answer, promised>>
    BY <1>3 DEF Send
  <2>2. PICK unchecked \in {{}, Disk} : unchecked = IF f = "check" THEN Disk ELSE {}
    OBVIOUS
  <2> DEFINE r == Retried(h)
             filtered == FilterNonExistingDisks(c.list, unchecked)
  <2>3. call' = [call EXCEPT ![h] = [c EXCEPT !.pc = "resend", !.off = r, !.list = filtered]]
    BY <2>1, <2>2, Zenon
  <2> HIDE DEF r, filtered
  <2>4. [c EXCEPT !.pc = "resend", !.off = r, !.list = filtered]
          = [pc |-> "resend", op |-> c.op, disk |-> c.disk, list |-> filtered, off |-> r]
    BY <1>1, CallRewritten
  <2>5. call' = [call EXCEPT ![h] = [pc |-> "resend", op |-> c.op, disk |-> c.disk, list |-> filtered, off |-> r]]
    BY <2>3, <2>4, Zenon
  <2>6. Again(h)
    BY <1>2, <1>3, <2>1, <2>5 DEF Again, r, filtered
  <2>7. QED BY <1>1, <2>6
<1>4. CASE ~(NotFound(c.list) /\ c.pc = "send")
  <2> DEFINE new == Applied(c.list, c.off)
  <2>1. PICK f \in {"none", "reject", "unsure", "noresult"} :
            LET refused == NotFound(c.list) \/ f = "reject" \/ Refused(h, new) IN
            /\ hasDisks' = [hasDisks EXCEPT ![h] = IF refused THEN @ ELSE new]
            /\ IF refused \/ f = "unsure" THEN Ended(h, FALSE, NoEntry)
               ELSE IF c.op = "detach" THEN Ended(h, TRUE, IF f = "noresult" THEN NoEntry ELSE new)
               ELSE /\ call' = [call EXCEPT ![h].pc = "wait"]
                    /\ UNCHANGED <<dcache, answer, promised>>
    BY <1>4 DEF Send
  <2> DEFINE refused == NotFound(c.list) \/ f = "reject" \/ Refused(h, new)
  <2>2. CASE refused \/ f = "unsure"
    <3>1. hasDisks' = hasDisks \/ Done(h)
      BY <2>1, <2>2 DEF Done, DiskTypes
    <3>2. Ended(h, FALSE, NoEntry) BY <2>1, <2>2
    <3>3. Reported(h, "error") BY <3>2 DEF Ended, Return, Reported
    <3>4. promised' = [promised EXCEPT ![h] = @] BY <3>2 DEF Ended
    <3>5. promised' = promised BY <3>4 DEF DiskTypes
    <3>6. (c.op = "attach" /\ dcache' = dcache) \/ dcache' = [dcache EXCEPT ![h] = NoEntry]
      BY <3>2, <1>1 DEF Ended, CacheAfter, DiskTypes, DiskCall
    <3>7. FailedUpdate(h) BY <1>2, <3>1, <3>3, <3>5, <3>6 DEF FailedUpdate
    <3>8. QED BY <1>1, <3>7
  <2>3. CASE ~(refused \/ f = "unsure")
    <3>1. Done(h) BY <2>1, <2>3 DEF Done
    <3>2. CASE c.op = "detach"
      <4>1. Ended(h, TRUE, IF f = "noresult" THEN NoEntry ELSE new) BY <2>1, <2>3, <3>2
      <4>2. Reported(h, "ok") BY <4>1 DEF Ended, Return, Reported
      <4>3. promised' = [promised EXCEPT ![h] = @] BY <4>1, <3>2 DEF Ended
      <4>4. promised' = promised BY <4>3 DEF DiskTypes
      <4>5. dcache' = [dcache EXCEPT ![h] = IF f = "noresult" THEN NoEntry ELSE new]
        BY <4>1, <3>2 DEF Ended, CacheAfter
      <4>6. DetachedUpdate(h) BY <1>2, <3>1, <3>2, <4>2, <4>4, <4>5 DEF DetachedUpdate
      <4>7. QED BY <1>1, <4>6
    <3>3. CASE c.op # "detach"
      <4>1. c.op = "attach" BY <1>1, <3>3 DEF DiskCall
      <4>2. call' = [call EXCEPT ![h].pc = "wait"] /\ UNCHANGED <<dcache, answer, promised>>
        BY <2>1, <2>3, <3>3
      <4>3. [c EXCEPT !.pc = "wait"]
              = [pc |-> "wait", op |-> c.op, disk |-> c.disk, list |-> c.list, off |-> c.off]
        BY <1>1 DEF DiskCall
      <4>4. call' = [call EXCEPT ![h] = [c EXCEPT !.pc = "wait"]] BY <4>2 DEF DiskTypes
      <4>5. AcceptedUpdate(h) BY <1>2, <3>1, <4>1, <4>2, <4>3, <4>4 DEF AcceptedUpdate
      <4>6. QED BY <1>1, <4>5
    <3>4. QED BY <3>2, <3>3
  <2>4. QED BY <2>2, <2>3
<1>5. QED BY <1>3, <1>4

\* The wait for an attach ends in an error, or with the disk promised and the
\* cached list corrected or dropped.
LEMMA WaitCases ==
    ASSUME DiskTypes, DetachSound, NEW h \in Host, WaitForUpdateResult(h)
    PROVE  /\ call[h] \in DiskCall /\ call[h].pc = "wait" /\ call[h].op = "attach"
           /\ UNCHANGED <<hasDisks, exists>>
           /\ \/ Reported(h, "error") /\ UNCHANGED <<dcache, promised>>
              \/ /\ Reported(h, "ok")
                 /\ \E list \in {NoEntry, hasDisks[h]} : dcache' = [dcache EXCEPT ![h] = list]
                 /\ promised' = [promised EXCEPT ![h] = @ \cup {call[h].disk}]
<1>1. call[h] \in DiskCall /\ call[h].pc = "wait" BY DEF DiskTypes, WaitForUpdateResult, NoCall
<1>2. call[h].op = "attach" BY <1>1 DEF DetachSound, DiskCall
<1>3. PICK f \in {"none", "wait", "noresult"} : Ended(h, f # "wait", IF f = "none" THEN hasDisks[h] ELSE NoEntry)
  BY DEF WaitForUpdateResult
<1>4. UNCHANGED <<hasDisks, exists>> BY DEF WaitForUpdateResult
<1>5. CASE f = "wait"
  <2>1. Reported(h, "error") BY <1>3, <1>5 DEF Ended, Return, Reported
  <2>2. promised' = [promised EXCEPT ![h] = @] /\ dcache' = [dcache EXCEPT ![h] = dcache[h]]
    BY <1>2, <1>3, <1>5 DEF Ended, CacheAfter
  <2>3. promised' = promised /\ dcache' = dcache BY <2>2 DEF DiskTypes
  <2>4. QED BY <1>1, <1>2, <1>4, <2>1, <2>3
<1>6. CASE f # "wait"
  <2>1. Reported(h, "ok") BY <1>3, <1>6 DEF Ended, Return, Reported
  <2>2. /\ promised' = [promised EXCEPT ![h] = @ \cup {call[h].disk}]
        /\ \E list \in {NoEntry, hasDisks[h]} : dcache' = [dcache EXCEPT ![h] = list]
    BY <1>2, <1>3, <1>6 DEF Ended, CacheAfter
  <2>3. QED BY <1>1, <1>2, <1>4, <2>1, <2>2
<1>7. QED BY <1>5, <1>6

\* A step keeps the types.
LEMMA DiskTypesKept ==
    ASSUME DiskTypes, DetachSound, DNext
    PROVE  DiskTypes'
<1> USE DEF DiskTypes
<1>1. PICK h \in Host :
          \/ \E d \in Disk : DetachDisk(h, d) \/ (\E l \in Lun : AttachDisk(h, d, l))
          \/ Send(h) \/ WaitForUpdateResult(h) \/ UpdateVM(h) \/ ExpireDisks(h)
          \/ \E e \in hasDisks[h] : RemovedOutside(h, e)
  BY DEF DNext
<1>2. ASSUME NEW d \in Disk, DetachDisk(h, d) PROVE DiskTypes'
  <2> DEFINE c == [pc |-> "send", op |-> "detach", disk |-> d, list |-> CachedList(h), off |-> {d}]
             a(r) == [pc |-> r, op |-> "detach", disk |-> d]
  <2>1. c \in DiskCall /\ a("ok") \in DiskAnswer /\ a("error") \in DiskAnswer
    BY LookupIsList DEF DiskCall, DiskAnswer
  <2>2. \/ call' = [call EXCEPT ![h] = NoCall] /\ dcache' = dcache
           /\ (answer' = [answer EXCEPT ![h] = a("ok")] \/ answer' = [answer EXCEPT ![h] = a("error")])
        \/ call' = [call EXCEPT ![h] = c] /\ dcache' = [dcache EXCEPT ![h] = CachedList(h)]
           /\ answer' = [answer EXCEPT ![h] = NoCall]
    BY <1>2 DEF DetachDisk, Return
  <2>3. hasDisks' = hasDisks /\ exists' = exists /\ promised' = [promised EXCEPT ![h] = @ \ {d}]
    BY <1>2 DEF DetachDisk
  <2> HIDE DEF c, a
  <2>4. QED BY <2>1, <2>2, <2>3, LookupIsList
<1>3. ASSUME NEW d \in Disk, NEW l \in Lun, AttachDisk(h, d, l) PROVE DiskTypes'
  <2> DEFINE add == IF d \in NamesOf(CachedList(h)) THEN {} ELSE {[disk |-> d, lun |-> l]}
             c == [pc |-> "send", op |-> "attach", disk |-> d, list |-> CachedList(h) \cup add, off |-> {}]
             a == [pc |-> "error", op |-> "attach", disk |-> d]
  <2>1. add \in SUBSET Entries BY DEF Entries
  <2>2. \/ call' = [call EXCEPT ![h] = NoCall] /\ answer' = [answer EXCEPT ![h] = a]
        \/ call' = [call EXCEPT ![h] = c] /\ answer' = [answer EXCEPT ![h] = NoCall]
    BY <1>3 DEF AttachDisk, Return
  <2>3. /\ hasDisks' = hasDisks /\ exists' = exists /\ promised' = promised
        /\ dcache' = [dcache EXCEPT ![h] = CachedList(h)]
    BY <1>3 DEF AttachDisk
  <2> HIDE DEF add
  <2>4. c \in DiskCall /\ a \in DiskAnswer BY <2>1, LookupIsList DEF DiskCall, DiskAnswer
  <2> HIDE DEF c, a
  <2>5. QED BY <2>2, <2>3, <2>4, LookupIsList
<1>4. ASSUME Send(h) PROVE DiskTypes'
  <2> DEFINE c == call[h]
             new == Applied(c.list, c.off)
             a(r) == [pc |-> r, op |-> c.op, disk |-> c.disk]
  <2>1. c \in DiskCall BY <1>4, SendCases
  <2>2. a("ok") \in DiskAnswer /\ a("error") \in DiskAnswer BY <2>1 DEF DiskCall, DiskAnswer
  <2>3. new \in SUBSET Entries BY <2>1, ListsStayLists DEF DiskCall
  <2>4. CASE Again(h)
    <3>1. PICK unchecked \in {{}, Disk} :
              call' = [call EXCEPT ![h] = [pc |-> "resend", op |-> c.op, disk |-> c.disk,
                          list |-> FilterNonExistingDisks(c.list, unchecked), off |-> Retried(h)]]
      BY <2>4 DEF Again
    <3>2. Retried(h) \in SUBSET Disk BY <2>1 DEF Retried, DiskCall
    <3>3. FilterNonExistingDisks(c.list, unchecked) \in SUBSET Entries BY <2>1, ListsStayLists DEF DiskCall
    <3>4. [pc |-> "resend", op |-> c.op, disk |-> c.disk,
           list |-> FilterNonExistingDisks(c.list, unchecked), off |-> Retried(h)] \in DiskCall
      BY <2>1, <3>2, <3>3 DEF DiskCall
    <3>5. UNCHANGED <<hasDisks, exists, dcache, answer, promised>> BY <2>4 DEF Again
    <3>6. QED BY <3>1, <3>4, <3>5
  <2>5. CASE FailedUpdate(h)
    <3>1. hasDisks' = hasDisks \/ hasDisks' = [hasDisks EXCEPT ![h] = new]
      BY <2>5 DEF FailedUpdate, Done
    <3>2. call' = [call EXCEPT ![h] = NoCall] /\ answer' = [answer EXCEPT ![h] = a("error")]
      BY <2>5 DEF FailedUpdate, Reported
    <3>3. (dcache' = dcache \/ dcache' = [dcache EXCEPT ![h] = NoEntry]) /\ UNCHANGED <<exists, promised>>
      BY <2>5 DEF FailedUpdate
    <3> HIDE DEF new, a
    <3>4. QED BY <2>2, <2>3, <3>1, <3>2, <3>3
  <2>6. CASE DetachedUpdate(h)
    <3>1. /\ hasDisks' = [hasDisks EXCEPT ![h] = new] /\ UNCHANGED <<exists, promised>>
          /\ call' = [call EXCEPT ![h] = NoCall] /\ answer' = [answer EXCEPT ![h] = a("ok")]
          /\ dcache' = [dcache EXCEPT ![h] = NoEntry] \/ dcache' = [dcache EXCEPT ![h] = new]
      BY <2>6 DEF DetachedUpdate, Done, Reported
    <3> HIDE DEF new, a
    <3>2. QED BY <2>2, <2>3, <3>1
  <2>7. CASE AcceptedUpdate(h)
    <3>1. [pc |-> "wait", op |-> "attach", disk |-> c.disk, list |-> c.list, off |-> c.off] \in DiskCall
      BY <2>1 DEF DiskCall
    <3>2. /\ hasDisks' = [hasDisks EXCEPT ![h] = new] /\ UNCHANGED <<exists, dcache, answer, promised>>
          /\ call' = [call EXCEPT ![h] = [pc |-> "wait", op |-> "attach", disk |-> c.disk,
                                          list |-> c.list, off |-> c.off]]
      BY <2>7 DEF AcceptedUpdate, Done
    <3> HIDE DEF new
    <3>3. QED BY <2>3, <3>1, <3>2
  <2>8. QED BY <1>4, <2>4, <2>5, <2>6, <2>7, SendCases
<1>5. ASSUME WaitForUpdateResult(h) PROVE DiskTypes'
  <2> DEFINE a(r) == [pc |-> r, op |-> call[h].op, disk |-> call[h].disk]
  <2>1. call[h] \in DiskCall BY <1>5, WaitCases
  <2>2. call[h].disk \in Disk /\ a("ok") \in DiskAnswer /\ a("error") \in DiskAnswer
    BY <2>1 DEF DiskCall, DiskAnswer
  <2>3. /\ UNCHANGED <<hasDisks, exists>> /\ call' = [call EXCEPT ![h] = NoCall]
        /\ answer' = [answer EXCEPT ![h] = a("ok")] \/ answer' = [answer EXCEPT ![h] = a("error")]
        /\ \/ dcache' = dcache \/ dcache' = [dcache EXCEPT ![h] = NoEntry]
           \/ dcache' = [dcache EXCEPT ![h] = hasDisks[h]]
        /\ promised' = promised \/ promised' = [promised EXCEPT ![h] = @ \cup {call[h].disk}]
    BY <1>5, WaitCases DEF Reported
  <2> HIDE DEF a
  <2>4. QED BY <2>2, <2>3
<1>6. ASSUME UpdateVM(h) PROVE DiskTypes' BY <1>6 DEF UpdateVM
<1>7. ASSUME ExpireDisks(h) PROVE DiskTypes' BY <1>7 DEF ExpireDisks
<1>8. ASSUME NEW e \in hasDisks[h], RemovedOutside(h, e) PROVE DiskTypes'
  BY <1>8 DEF RemovedOutside
<1>9. QED BY <1>1, <1>2, <1>3, <1>4, <1>5, <1>6, <1>7, <1>8
\* The disks of the lists the calls compute.
LEMMA NamesOfLists ==
    ASSUME NEW list, NEW x
    PROVE  /\ NamesOf(Applied(list, x)) = NamesOf(list) \ x
           /\ NamesOf(FilterNonExistingDisks(list, x)) = NamesOf(list) \cap (exists \cup x)
           /\ NamesOf(list) \subseteq NamesOf(list \cup x) /\ NamesOf(x) \subseteq NamesOf(list \cup x)
           /\ NamesOf(list \ {x}) \subseteq NamesOf(list)
           /\ NamesOf(list) \subseteq NamesOf(list \ {x}) \cup {x.disk}
BY DEF NamesOf, Applied, FilterNonExistingDisks

\* What the invariants say of the machines a step does not touch.
Untouched(h) ==
    \A g \in Host : g # h =>
        /\ hasDisks'[g] = hasDisks[g] /\ dcache'[g] = dcache[g] /\ call'[g] = call[g]
        /\ answer'[g] = answer[g] /\ promised'[g] = promised[g]

DisksRest == OneMachine /\ PromiseHeld /\ AttachSound /\ DetachSound /\ DetachedIsOff

LEMMA RemovedOutsideKeeps ==
    ASSUME DisksInv, NEW h \in Host, NEW e \in hasDisks[h], RemovedOutside(h, e)
    PROVE  DisksRest'
<1> USE DEF DisksInv
<1>1. /\ Untouched(h) /\ hasDisks'[h] = hasDisks[h] \ {e} /\ exists' = exists \ {e.disk}
      /\ promised'[h] = promised[h] \ {e.disk} /\ answer'[h] = NoCall /\ dcache' = dcache /\ call' = call
  BY DEF RemovedOutside, Untouched, DiskTypes
<1>2. e.disk \in NamesOf(hasDisks[h]) BY DEF NamesOf
<1>3. \A g \in Host : call[g].pc # "idle" => call[g].disk # e.disk
  BY DEF RemovedOutside, Asked
<1>4. /\ NamesOf(hasDisks'[h]) \subseteq NamesOf(hasDisks[h])
      /\ NamesOf(hasDisks[h]) \subseteq NamesOf(hasDisks'[h]) \cup {e.disk}
  BY <1>1, NamesOfLists
<1>5. OneMachine' BY <1>1, <1>4 DEF OneMachine, Untouched
<1>6. PromiseHeld'
  <2> SUFFICES ASSUME NEW g \in Host PROVE Held(g)' BY DEF PromiseHeld
  <2>1. promised'[g] \subseteq promised[g] BY <1>1 DEF Untouched
  <2>2. e.disk \notin promised'[g]
    BY <1>1, <1>2 DEF Untouched, OneMachine, PromiseHeld, Held
  <2>3. QED BY <1>1, <1>4, <2>1, <2>2 DEF Untouched, PromiseHeld, Held
<1>7. AttachSound'
  BY <1>1, <1>3, <1>4 DEF AttachSound, Untouched
<1>8. DetachSound' BY <1>1 DEF DetachSound, Untouched
<1>9. DetachedIsOff'
  BY <1>1, <1>4 DEF DetachedIsOff, Untouched, NoCall, Host
<1>10. QED BY <1>5, <1>6, <1>7, <1>8, <1>9 DEF DisksRest
LEMMA AttachDiskKeeps ==
    ASSUME DisksInv, NEW h \in Host, NEW d \in Disk, NEW l \in Lun, AttachDisk(h, d, l)
    PROVE  DisksRest'
<1> DEFINE list == CachedList(h)
           add == IF d \in NamesOf(list) THEN {} ELSE {[disk |-> d, lun |-> l]}
           c == [pc |-> "send", op |-> "attach", disk |-> d, list |-> list \cup add, off |-> {}]
           a == [pc |-> "error", op |-> "attach", disk |-> d]
<1>1. /\ Untouched(h) /\ hasDisks' = hasDisks /\ exists' = exists /\ promised' = promised /\ dcache'[h] = list
      /\ \/ call'[h] = NoCall /\ answer'[h] = a
         \/ call'[h] = c /\ answer'[h] = NoCall
  <2>1. /\ hasDisks' = hasDisks /\ exists' = exists /\ promised' = promised
        /\ dcache' = [dcache EXCEPT ![h] = list]
        /\ \/ call' = [call EXCEPT ![h] = NoCall] /\ answer' = [answer EXCEPT ![h] = a]
           \/ call' = [call EXCEPT ![h] = c] /\ answer' = [answer EXCEPT ![h] = NoCall]
    BY DEF AttachDisk, Return
  <2> HIDE DEF list, c, a
  <2>2. QED BY <2>1 DEF Untouched, DiskTypes, DisksInv
<1>2. d \in exists /\ d \in NamesOf(list \cup add)
  <2>1. d \in exists BY DEF AttachDisk
  <2>2. d \notin NamesOf(list) => d \in NamesOf(add) BY DEF NamesOf
  <2> HIDE DEF list, add
  <2>3. QED BY <2>1, <2>2, NamesOfLists
<1>3. promised[h] \subseteq NamesOf(list) /\ promised[h] \subseteq NamesOf(list \cup add)
  <2>1. promised[h] \subseteq NamesOf(list) BY DEF DisksInv, PromiseHeld, Held, CachedList
  <2>2. QED BY <2>1, NamesOfLists
<1> HIDE DEF list, add
<1>4. OneMachine' BY <1>1 DEF OneMachine, DisksInv
<1>5. PromiseHeld'
  <2> SUFFICES ASSUME NEW g \in Host PROVE Held(g)' BY DEF PromiseHeld
  <2>1. CASE g # h BY <1>1, <2>1 DEF Untouched, PromiseHeld, Held, DisksInv
  <2>2. CASE g = h
    <3>1. NamesOf(Applied(list \cup add, {})) = NamesOf(list \cup add) \ {} BY NamesOfLists
    <3>2. promised[h] \subseteq exists /\ promised[h] \subseteq NamesOf(hasDisks[h])
      BY DEF PromiseHeld, Held, DisksInv
    <3>3. call'[h].pc = "send" => NamesOf(Applied(call'[h].list, call'[h].off)) = NamesOf(list \cup add)
      BY <1>1, <3>1 DEF NoCall
    <3>4. call'[h].pc # "resend" BY <1>1 DEF NoCall
    <3>5. QED BY <1>1, <1>3, <2>2, <3>2, <3>3, <3>4 DEF Held
  <2>3. QED BY <2>1, <2>2
<1>6. AttachSound'
  <2>1. \A g \in Host : g # h => call'[g] = call[g] /\ hasDisks'[g] = hasDisks[g] BY <1>1 DEF Untouched
  <2>2. call'[h].pc # "idle" => call'[h].disk = d /\ call'[h].off = {} /\ call'[h].pc = "send"
                                 /\ call'[h].list = list \cup add
    BY <1>1 DEF NoCall
  <2>3. QED BY <1>1, <1>2, <2>1, <2>2 DEF AttachSound, DisksInv
<1>7. DetachSound' BY <1>1 DEF DetachSound, Untouched, NoCall, DisksInv
<1>8. DetachedIsOff' BY <1>1 DEF DetachedIsOff, Untouched, NoCall, Host, DisksInv
<1>9. QED BY <1>4, <1>5, <1>6, <1>7, <1>8 DEF DisksRest

LEMMA DetachDiskKeeps ==
    ASSUME DisksInv, NEW h \in Host, NEW d \in Disk, DetachDisk(h, d)
    PROVE  DisksRest'
<1> DEFINE list == CachedList(h)
           c == [pc |-> "send", op |-> "detach", disk |-> d, list |-> list, off |-> {d}]
           a(r) == [pc |-> r, op |-> "detach", disk |-> d]
<1>1. /\ Untouched(h) /\ hasDisks' = hasDisks /\ exists' = exists /\ promised'[h] = promised[h] \ {d}
      /\ \/ /\ call'[h] = NoCall /\ dcache' = dcache
            /\ answer'[h] = IF h \in ScaleSetVMs THEN a("error") ELSE a("ok")
         \/ call'[h] = c /\ answer'[h] = NoCall /\ dcache'[h] = list
  BY DEF DetachDisk, Return, Untouched, DiskTypes, DisksInv
<1>2. promised[h] \subseteq NamesOf(list) BY DEF DisksInv, PromiseHeld, Held, CachedList
<1> HIDE DEF list
<1>3. OneMachine' BY <1>1 DEF OneMachine, DisksInv
<1>4. PromiseHeld'
  <2> SUFFICES ASSUME NEW g \in Host PROVE Held(g)' BY DEF PromiseHeld
  <2>1. CASE g # h BY <1>1, <2>1 DEF Untouched, PromiseHeld, Held, DisksInv
  <2>2. CASE g = h
    <3>1. NamesOf(Applied(list, {d})) = NamesOf(list) \ {d} BY NamesOfLists
    <3>2. /\ promised[h] \subseteq exists /\ promised[h] \subseteq NamesOf(hasDisks[h])
          /\ dcache[h] # NoEntry => promised[h] \subseteq NamesOf(dcache[h])
      BY DEF PromiseHeld, Held, DisksInv
    <3>3. call'[h].pc = "send" => NamesOf(Applied(call'[h].list, call'[h].off)) = NamesOf(list) \ {d}
      BY <1>1, <3>1 DEF NoCall
    <3>4. call'[h].pc # "resend" BY <1>1 DEF NoCall
    <3>5. QED BY <1>1, <1>2, <2>2, <3>2, <3>3, <3>4 DEF Held
  <2>3. QED BY <2>1, <2>2
<1>5. AttachSound' BY <1>1 DEF AttachSound, Untouched, NoCall, DisksInv
<1>6. DetachSound' BY <1>1 DEF DetachSound, Untouched, NoCall, DisksInv
<1>7. DetachedIsOff' BY <1>1 DEF DetachedIsOff, Untouched, NoCall, Host, DisksInv
<1>8. QED BY <1>3, <1>4, <1>5, <1>6, <1>7 DEF DisksRest

LEMMA SendKeeps ==
    ASSUME DisksInv, NEW h \in Host, Send(h)
    PROVE  DisksRest'
<1> DEFINE c == call[h]
           new == Applied(c.list, c.off)
<1>1. c \in DiskCall /\ c.pc \in {"send", "resend"} BY SendCases DEF DisksInv
<1>2. NamesOf(new) = NamesOf(c.list) \ c.off /\ promised[h] \subseteq NamesOf(new)
  BY <1>1, NamesOfLists DEF DisksInv, PromiseHeld, Held
<1>3. CASE Again(h)
  <2>1. PICK unchecked \in {{}, Disk} :
            call' = [call EXCEPT ![h] = [pc |-> "resend", op |-> c.op, disk |-> c.disk,
                        list |-> FilterNonExistingDisks(c.list, unchecked), off |-> Retried(h)]]
    BY <1>3 DEF Again
  <2> DEFINE filtered == FilterNonExistingDisks(c.list, unchecked)
             r == Retried(h)
  <2>2. NamesOf(filtered) = NamesOf(c.list) \cap (exists \cup unchecked) BY NamesOfLists
  <2>3. NamesOf(Applied(filtered, r)) = NamesOf(filtered) \ r BY NamesOfLists
  <2>4. /\ r \subseteq c.off
        /\ c.op = "attach" => r = c.off
        /\ h \in ScaleSetVMs => r = c.off
    BY DisksAssumption DEF Retried
  <2>5. /\ Untouched(h) /\ UNCHANGED <<hasDisks, exists, dcache, answer, promised>>
        /\ call'[h] = [pc |-> "resend", op |-> c.op, disk |-> c.disk, list |-> filtered, off |-> r]
    BY <1>3, <2>1 DEF Again, Untouched, DiskTypes, DisksInv
  <2> HIDE DEF filtered, r
  <2>6. OneMachine' BY <2>5 DEF OneMachine, DisksInv
  <2>7. PromiseHeld'
    <3> SUFFICES ASSUME NEW g \in Host PROVE Held(g)' BY DEF PromiseHeld
    <3>1. CASE g # h BY <2>5, <3>1 DEF Untouched, PromiseHeld, Held, DisksInv
    <3>2. CASE g = h
      <4>1. promised[h] \subseteq exists BY DEF PromiseHeld, Held, DisksInv
      <4>2. promised[h] \subseteq NamesOf(Applied(filtered, r)) BY <1>2, <2>2, <2>3, <2>4, <4>1
      <4>3. QED BY <2>5, <3>2, <4>2 DEF PromiseHeld, Held, DisksInv
    <3>3. QED BY <3>1, <3>2
  <2>8. AttachSound'
    <3>1. c.op = "attach" => c.disk \in exists /\ r = {} /\ c.disk \in NamesOf(filtered)
      BY <1>1, <2>2, <2>4 DEF AttachSound, DisksInv
    <3>2. QED BY <2>5, <3>1 DEF AttachSound, Untouched, DisksInv
  <2>9. DetachSound' BY <1>1, <2>4, <2>5 DEF DetachSound, Untouched, DisksInv
  <2>10. DetachedIsOff' BY <2>5 DEF DetachedIsOff, DisksInv
  <2>11. QED BY <2>6, <2>7, <2>8, <2>9, <2>10 DEF DisksRest
<1>4. ASSUME Done(h) PROVE /\ \A g \in Host : g # h => hasDisks'[g] = hasDisks[g]
                           /\ hasDisks'[h] = new /\ OneMachine'
  <2>1. \A g \in Host : hasDisks'[g] = IF g = h THEN new ELSE hasDisks[g]
    BY <1>4 DEF Done, DiskTypes, DisksInv
  <2>2. \A g \in Host \ {h} : NamesOf(hasDisks[g]) \cap NamesOf(new) = {} BY <1>4 DEF Done, Refused
  <2> HIDE DEF new
  <2>3. QED BY <2>1, <2>2 DEF OneMachine, DisksInv
<1>5. ASSUME NEW res, Reported(h, res)
      PROVE  /\ \A g \in Host : g # h => call'[g] = call[g] /\ answer'[g] = answer[g]
             /\ call'[h] = NoCall /\ answer'[h] = [pc |-> res, op |-> c.op, disk |-> c.disk]
  BY <1>5 DEF Reported, DiskTypes, DisksInv
<1>6. CASE FailedUpdate(h)
  <2>1. \/ hasDisks' = hasDisks
        \/ (\A g \in Host : g # h => hasDisks'[g] = hasDisks[g]) /\ hasDisks'[h] = new
    BY <1>4, <1>6 DEF FailedUpdate
  <2>2. OneMachine' BY <1>4, <1>6 DEF FailedUpdate, OneMachine, DisksInv
  <2>3. /\ \A g \in Host : g # h => call'[g] = call[g] /\ answer'[g] = answer[g]
        /\ call'[h] = NoCall /\ answer'[h] = [pc |-> "error", op |-> c.op, disk |-> c.disk]
    BY <1>5, <1>6 DEF FailedUpdate
  <2>4. /\ \A g \in Host : dcache'[g] = dcache[g] \/ dcache'[g] = NoEntry
        /\ exists' = exists /\ promised' = promised
    BY <1>6 DEF FailedUpdate, DiskTypes, DisksInv
  <2> HIDE DEF new
  <2>5. PromiseHeld'
    <3> SUFFICES ASSUME NEW g \in Host PROVE Held(g)' BY DEF PromiseHeld
    <3>1. CASE g # h BY <2>1, <2>3, <2>4, <3>1 DEF PromiseHeld, Held, DisksInv
    <3>2. CASE g = h BY <1>2, <2>1, <2>3, <2>4, <3>2 DEF PromiseHeld, Held, DisksInv, NoCall
    <3>3. QED BY <3>1, <3>2
  <2>6. AttachSound' BY <2>1, <2>3, <2>4 DEF AttachSound, DisksInv, NoCall
  <2>7. DetachSound' BY <2>3 DEF DetachSound, DisksInv, NoCall
  <2>8. DetachedIsOff' BY <2>1, <2>3 DEF DetachedIsOff, DisksInv, Host
  <2>9. QED BY <2>2, <2>5, <2>6, <2>7, <2>8 DEF DisksRest
<1>7. CASE DetachedUpdate(h)
  <2>1. (\A g \in Host : g # h => hasDisks'[g] = hasDisks[g]) /\ hasDisks'[h] = new /\ OneMachine'
    BY <1>4, <1>7 DEF DetachedUpdate
  <2>2. /\ \A g \in Host : g # h => call'[g] = call[g] /\ answer'[g] = answer[g]
        /\ call'[h] = NoCall /\ answer'[h] = [pc |-> "ok", op |-> c.op, disk |-> c.disk]
    BY <1>5, <1>7 DEF DetachedUpdate
  <2>3. /\ \A g \in Host : g # h => dcache'[g] = dcache[g]
        /\ dcache'[h] \in {NoEntry, new}
        /\ exists' = exists /\ promised' = promised /\ c.op = "detach"
    BY <1>7 DEF DetachedUpdate, DiskTypes, DisksInv
  <2>4. h \in ScaleSetVMs => c.disk \notin NamesOf(new)
    BY <1>1, <1>2, <2>3 DEF DetachSound, DisksInv
  <2> HIDE DEF new
  <2>5. PromiseHeld'
    <3> SUFFICES ASSUME NEW g \in Host PROVE Held(g)' BY DEF PromiseHeld
    <3>1. CASE g # h BY <2>1, <2>2, <2>3, <3>1 DEF PromiseHeld, Held, DisksInv
    <3>2. CASE g = h BY <1>2, <2>1, <2>2, <2>3, <3>2 DEF PromiseHeld, Held, DisksInv, NoCall
    <3>3. QED BY <3>1, <3>2
  <2>6. AttachSound' BY <2>1, <2>2, <2>3 DEF AttachSound, DisksInv, NoCall
  <2>7. DetachSound' BY <2>2 DEF DetachSound, DisksInv, NoCall
  <2>8. DetachedIsOff' BY <2>1, <2>2, <2>4 DEF DetachedIsOff, DisksInv, Host
  <2>9. QED BY <2>1, <2>5, <2>6, <2>7, <2>8 DEF DisksRest
<1>8. CASE AcceptedUpdate(h)
  <2>1. (\A g \in Host : g # h => hasDisks'[g] = hasDisks[g]) /\ hasDisks'[h] = new /\ OneMachine'
    BY <1>4, <1>8 DEF AcceptedUpdate
  <2>2. /\ \A g \in Host : g # h => call'[g] = call[g]
        /\ call'[h] = [pc |-> "wait", op |-> "attach", disk |-> c.disk, list |-> c.list, off |-> c.off]
        /\ UNCHANGED <<exists, dcache, answer, promised>> /\ c.op = "attach"
    BY <1>8 DEF AcceptedUpdate, DiskTypes, DisksInv
  <2>3. c.disk \in exists /\ c.off = {} /\ c.disk \in NamesOf(new)
    BY <1>1, <1>2, <2>2 DEF AttachSound, DisksInv
  <2> HIDE DEF new
  <2>4. PromiseHeld'
    <3> SUFFICES ASSUME NEW g \in Host PROVE Held(g)' BY DEF PromiseHeld
    <3>1. CASE g # h BY <2>1, <2>2, <3>1 DEF PromiseHeld, Held, DisksInv
    <3>2. CASE g = h BY <1>2, <2>1, <2>2, <3>2 DEF PromiseHeld, Held, DisksInv
    <3>3. QED BY <3>1, <3>2
  <2>5. AttachSound' BY <2>1, <2>2, <2>3 DEF AttachSound, DisksInv
  <2>6. DetachSound'
    <3>1. answer[h] = NoCall BY <1>1 DEF DetachSound, DisksInv
    <3>2. QED BY <2>2, <3>1 DEF DetachSound, DisksInv
  <2>7. DetachedIsOff'
    <3>1. answer[h] = NoCall BY <1>1 DEF DetachSound, DisksInv
    <3>2. QED BY <2>1, <2>2, <3>1 DEF DetachedIsOff, DisksInv, Host, NoCall
  <2>8. QED BY <2>1, <2>4, <2>5, <2>6, <2>7 DEF DisksRest
<1>9. QED BY <1>3, <1>6, <1>7, <1>8, SendCases DEF DisksInv

LEMMA WaitKeeps ==
    ASSUME DisksInv, NEW h \in Host, WaitForUpdateResult(h)
    PROVE  DisksRest'
<1> DEFINE c == call[h]
<1>1. c \in DiskCall /\ c.pc = "wait" /\ c.op = "attach" /\ UNCHANGED <<hasDisks, exists>>
  BY WaitCases DEF DisksInv
<1>2. c.disk \in exists /\ c.disk \in NamesOf(hasDisks[h]) BY <1>1 DEF AttachSound, DisksInv
<1>3. /\ Untouched(h) /\ call'[h] = NoCall
      /\ answer'[h].op = "attach"
      /\ \/ dcache' = dcache /\ promised' = promised
         \/ dcache'[h] \in {NoEntry, hasDisks[h]} /\ promised'[h] = promised[h] \cup {c.disk}
  <2>1. /\ \A g \in Host : g # h => call'[g] = call[g] /\ answer'[g] = answer[g]
        /\ call'[h] = NoCall /\ answer'[h].op = c.op
    BY WaitCases DEF Reported, DiskTypes, DisksInv
  <2>2. /\ \A g \in Host : g # h => dcache'[g] = dcache[g] /\ promised'[g] = promised[g]
        /\ \/ dcache' = dcache /\ promised' = promised
           \/ dcache'[h] \in {NoEntry, hasDisks[h]} /\ promised'[h] = promised[h] \cup {c.disk}
    BY WaitCases DEF DiskTypes, DisksInv
  <2>3. QED BY <1>1, <2>1, <2>2 DEF Untouched
<1>4. OneMachine' BY <1>1 DEF OneMachine, DisksInv
<1>5. PromiseHeld'
  <2> SUFFICES ASSUME NEW g \in Host PROVE Held(g)' BY DEF PromiseHeld
  <2>1. CASE g # h BY <1>1, <1>3, <2>1 DEF Untouched, PromiseHeld, Held, DisksInv
  <2>2. CASE g = h BY <1>1, <1>2, <1>3, <2>2 DEF PromiseHeld, Held, DisksInv, NoCall
  <2>3. QED BY <2>1, <2>2
<1>6. AttachSound' BY <1>1, <1>3 DEF AttachSound, Untouched, NoCall, DisksInv
<1>7. DetachSound' BY <1>3 DEF DetachSound, Untouched, NoCall, DisksInv
<1>8. DetachedIsOff' BY <1>1, <1>3 DEF DetachedIsOff, Untouched, Host, DisksInv
<1>9. QED BY <1>4, <1>5, <1>6, <1>7, <1>8 DEF DisksRest

\* A step that only drops the cached list of a machine, or takes Azure's.
LEMMA CacheStepKeeps ==
    ASSUME DisksInv, NEW h \in Host, UpdateVM(h) \/ ExpireDisks(h)
    PROVE  DisksRest'
<1>1. /\ UNCHANGED <<hasDisks, exists, call, answer, promised>>
      /\ \A g \in Host : dcache'[g] \in {dcache[g], NoEntry, hasDisks[g]}
  BY DEF UpdateVM, ExpireDisks, DiskTypes, DisksInv
<1>2. PromiseHeld' BY <1>1 DEF PromiseHeld, Held, DisksInv
<1>3. (OneMachine /\ AttachSound /\ DetachSound /\ DetachedIsOff)'
  BY <1>1 DEF OneMachine, AttachSound, DetachSound, DetachedIsOff, DisksInv
<1>4. QED BY <1>2, <1>3 DEF DisksRest

LEMMA DisksInductive == DisksInv /\ [DNext]_dvars => DisksInv'
<1> SUFFICES ASSUME DisksInv, [DNext]_dvars PROVE DisksInv' OBVIOUS
<1>1. CASE UNCHANGED dvars
  BY <1>1 DEF dvars, DisksInv, DiskTypes, OneMachine, PromiseHeld, Held, AttachSound, DetachSound, DetachedIsOff
<1>2. CASE DNext
  <2>1. DiskTypes' BY <1>2, DiskTypesKept DEF DisksInv
  <2>2. DisksRest'
    BY <1>2, RemovedOutsideKeeps, AttachDiskKeeps, DetachDiskKeeps, SendKeeps, WaitKeeps, CacheStepKeeps
    DEF DNext
  <2>3. QED BY <2>1, <2>2 DEF DisksInv, DisksRest
<1>3. QED BY <1>1, <1>2

\* Whatever fails and whatever the caches say, for any machines and disks: a
\* disk reported attached stays attached until a detach is asked for, and one
\* reported detached from a scale set's machine is off it (AttachDisk,
\* DetachDisk of azure_controller_vmss.go, _vmssflex.go, _standard.go).
THEOREM DisksAreAsAnswered == DSpec => []DisksAsAnswered
<1>1. DInit => DisksInv
  BY DEF DInit, DisksInv, DiskTypes, OneMachine, PromiseHeld, Held, AttachSound, DetachSound, DetachedIsOff,
         NamesOf, NoCall, Host
<1>2. DisksInv => DisksAsAnswered
  <2> SUFFICES ASSUME DisksInv PROVE DisksAsAnswered OBVIOUS
  <2>1. DTypeOK BY DEF DTypeOK, DisksInv, DiskTypes, DiskCall, NoCall, Entries
  <2>2. PromisedIsKept BY DEF PromisedIsKept, DisksInv, PromiseHeld, Held
  <2>3. QED BY <2>1, <2>2 DEF DisksAsAnswered, DisksInv
<1>3. QED BY <1>1, <1>2, DisksInductive, PTL DEF DSpec
-----------------------------------------------------------------------------
\* What is in the pools of a machine after a call for it: the pools, unless
\* the machine is on somebody else's load balancer; or none of them.
Joined(h, pools, wanted) == \A p \in wanted : p \in pools \/ (h \in Foreign /\ p \notin V6Pool)
Left(pools, gone) == pools \cap gone = {}

Steps == {"flex", "flexhosts", "avhosts", "uniform", "hosts", "send", "invalidate"}
Names == SUBSET (Pool \cup {"foreign"})

\* A running call; an addition is for one pool.
Running(t) ==
    /\ t = [pc |-> t.pc, op |-> t.op, pools |-> t.pools, err |-> t.err, sent |-> t.sent, left |-> t.left]
    /\ t.pc \in Steps /\ t.op \in {"add", "delete"} /\ t.pools \subseteq Pool /\ t.err \in BOOLEAN
    /\ t.left \subseteq BHost
    /\ t.op = "add" => \E p \in Pool : t.pools = {p}
    /\ DOMAIN t.sent \subseteq UHost /\ \A h \in DOMAIN t.sent : t.sent[h] \in Names

\* The result of a call is there when none runs.
TaskTypes == task = Idling \/ (Running(task) /\ outcome = Idling)

PoolTypes ==
    /\ nicPools \in [BHost -> Names] /\ setPools \in [VmSet -> SUBSET Pool]
    /\ nicCache \in [UHost -> Names \cup {Uncached}]
    /\ setCache \in [VmSet -> (SUBSET Pool) \cup {Uncached}]
    /\ inactive \subseteq MayStop /\ nicFailed \subseteq BHost /\ poolFaults \in 0..MaxPoolFaults

\* Only the machines said to be are on another load balancer.
ForeignKnown ==
    /\ \A h \in BHost : "foreign" \in nicPools[h] => h \in Foreign
    /\ task.pc = "send" => \A h \in DOMAIN task.sent : "foreign" \in task.sent[h] => h \in Foreign

\* A cached object is as in Azure, but for the machines being sent.
CachedSound ==
    /\ \A h \in UHost : \/ nicCache[h] \in {Uncached, nicPools[h]}
                        \/ task.pc \in {"send", "invalidate"} /\ h \in DOMAIN task.sent
    /\ setCache["flex"] \in {Uncached, setPools["flex"]}

\* The machines of the steps behind a call without an error are as asked.
AddedSoFar ==
    (task.pc # "idle" /\ task.op = "add" /\ ~task.err) =>
        /\ task.pc \in {"avhosts", "uniform", "hosts", "send", "invalidate"} =>
              \A h \in FHost \ (nicFailed \cup task.left) : Joined(h, nicPools[h], task.pools)
        /\ task.pc \in {"uniform", "hosts", "send", "invalidate"} =>
              \A h \in AHost \ (nicFailed \cup task.left) : Joined(h, nicPools[h], task.pools)
        /\ task.pc = "send" => \A h \in UHost \ task.left :
              Joined(h, IF h \in DOMAIN task.sent THEN task.sent[h] ELSE nicPools[h], task.pools)
        /\ task.pc = "invalidate" => \A h \in UHost \ task.left : Joined(h, nicPools[h], task.pools)

DeletedSoFar ==
    (task.pc # "idle" /\ task.op = "delete" /\ ~task.err) =>
        /\ task.pc = "send" => \A h \in UHost \ task.left :
              Left(IF h \in DOMAIN task.sent THEN task.sent[h] ELSE nicPools[h], task.pools)
        /\ task.pc \in {"invalidate", "flexhosts", "avhosts"} =>
              \A h \in UHost \ task.left : Left(nicPools[h], task.pools)
        /\ task.pc = "avhosts" =>
              (nicFailed = {} => \A h \in FHost \ task.left : nicPools[h] \cap task.pools \subseteq V6Pool)

PoolsInv ==
    /\ TaskTypes /\ PoolTypes /\ ForeignKnown /\ CachedSound /\ AddedSoFar /\ DeletedSoFar
    /\ AddedIsIn /\ DeletedIsOut

\* A running call that goes on to another step, with an error or without.
Moved(u, t, pc, err) ==
    Running(u) /\ u.pc = pc /\ u.op = t.op /\ u.pools = t.pools /\ u.err = err /\ u.sent = t.sent /\ u.left = t.left

LEMMA RunningMoves ==
    ASSUME NEW t, Running(t), NEW pc \in Steps
    PROVE  /\ Moved([t EXCEPT !.pc = pc], t, pc, t.err)
           /\ \A err \in BOOLEAN : Moved([t EXCEPT !.pc = pc, !.err = err], t, pc, err)
<1> DEFINE u == [t EXCEPT !.pc = pc]
           v(e) == [u EXCEPT !.err = e]
<1>1. u = [pc |-> pc, op |-> t.op, pools |-> t.pools, err |-> t.err, sent |-> t.sent, left |-> t.left]
  BY DEF Running
<1>2. Moved(u, t, pc, t.err) BY <1>1 DEF Running, Moved
<1> HIDE DEF u
<1>3. ASSUME NEW e \in BOOLEAN
      PROVE  Moved(v(e), t, pc, e)
  <2>1. v(e) = [pc |-> pc, op |-> t.op, pools |-> t.pools, err |-> e, sent |-> t.sent, left |-> t.left] BY <1>1
  <2>2. QED BY <2>1 DEF Running, Moved
<1> HIDE DEF v
<1>4. QED BY <1>2, <1>3, Zenon DEF u, v

\* The call goes on without a new error, or ends and says whether it had one.
MovedOn(pc) ==
    \/ /\ pc = "end" /\ task' = Idling /\ outcome'.op = task.op /\ outcome'.pools = task.pools
       /\ outcome'.left = task.left /\ (outcome'.pc = "ok" => ~task.err)
    \/ pc # "end" /\ Moved(task', task, pc, task.err) /\ UNCHANGED outcome

LEMMA GotoCases ==
    ASSUME NEW pc \in Steps \cup {"end"}, Running(task), Goto(pc)
    PROVE  MovedOn(pc)
<1>1. CASE pc = "end"
  <2>1. task' = Idling /\ outcome' = [pc |-> IF task.err THEN "error" ELSE "ok", op |-> task.op, pools |-> task.pools,
                                      left |-> task.left]
    BY <1>1 DEF Goto
  <2>2. task.err \in BOOLEAN BY DEF Running
  <2>3. QED BY <1>1, <2>1, <2>2 DEF MovedOn
<1>2. CASE pc # "end"
  <2>1. pc \in Steps BY <1>2
  <2>2. task' = [task EXCEPT !.pc = pc] /\ outcome' = outcome BY <1>2 DEF Goto
  <2>3. Moved([task EXCEPT !.pc = pc], task, pc, task.err) BY <2>1, RunningMoves
  <2>4. QED BY <1>2, <2>2, <2>3 DEF MovedOn
<1>3. QED BY <1>1, <1>2

\* After an error nothing is claimed: the rest of the invariant is kept.
LEMMA ErrorKeeps ==
    ASSUME NEW pc \in (Steps \ {"send", "invalidate"}) \cup {"end"},
           Running(task), outcome = Idling, GotoError(pc)
    PROVE  /\ TaskTypes' /\ AddedSoFar' /\ DeletedSoFar' /\ AddedIsIn' /\ DeletedIsOut'
           /\ task'.pc \notin {"send", "invalidate"}
<1>1. CASE pc = "end"
  <2>1. task' = Idling /\ outcome'.pc = "error" BY <1>1 DEF GotoError
  <2>2. task'.pc = "idle" BY <2>1 DEF Idling
  <2>3. QED BY <2>1, <2>2 DEF TaskTypes, AddedSoFar, DeletedSoFar, AddedIsIn, DeletedIsOut
<1>2. CASE pc # "end"
  <2>1. task' = [task EXCEPT !.pc = pc, !.err = TRUE] /\ outcome' = Idling BY <1>2 DEF GotoError
  <2>2. pc \in Steps /\ pc \notin {"send", "invalidate"} BY <1>2 DEF Steps
  <2>3. Moved([task EXCEPT !.pc = pc, !.err = TRUE], task, pc, TRUE) BY <2>2, RunningMoves
  <2>4. Running(task') /\ task'.pc = pc /\ task'.err = TRUE BY <2>1, <2>3 DEF Moved
  <2>5. outcome'.pc = "idle" BY <2>1 DEF Idling
  <2>6. QED BY <2>1, <2>2, <2>4, <2>5 DEF TaskTypes, AddedSoFar, DeletedSoFar, AddedIsIn, DeletedIsOut
<1>3. QED BY <1>1, <1>2

\* What an addition, and a deletion, makes of the pools of a machine (Target).
LEMMA TargetIsAsAsked ==
    ASSUME Running(task), NEW h \in BHost, NEW pools \in Names, "foreign" \in pools => h \in Foreign
    PROVE  /\ Target(pools) \in Names
           /\ "foreign" \in Target(pools) => h \in Foreign
           /\ task.op = "add" => Joined(h, Target(pools), task.pools)
           /\ task.op = "delete" => Left(Target(pools), task.pools)
<1>1. CASE task.op = "delete"
  BY <1>1, BackendHostsAssumption DEF Target, Running, Names, Left
<1>2. CASE task.op = "add"
  <2>1. PICK p \in Pool : task.pools = {p} BY <1>2 DEF Running
  <2>2. Target(pools) = IF OnSameLB(pools, p) THEN pools \cup {p} ELSE pools BY <1>2, <2>1 DEF Target
  <2>3. QED BY <1>2, <2>1, <2>2, BackendHostsAssumption DEF OnSameLB, Names, Joined
<1>3. QED BY <1>1, <1>2 DEF Running

\* The step an error leads to.
LEMMA FailingStep ==
    ASSUME Running(task), NEW pc \in {"flex", "flexhosts", "avhosts", "uniform", "hosts"}
    PROVE  Failing(pc) \in (Steps \ {"send", "invalidate"}) \cup {"end"}
BY DEF Failing, After, AfterAdding, AfterDeleting, Running, Steps

\* A call that has not ended has an outcome that claims nothing.
LEMMA QuietWhileRunning ==
    ASSUME outcome' = Idling
    PROVE  AddedIsIn' /\ DeletedIsOut'
BY DEF AddedIsIn, DeletedIsOut, Idling

LEMMA BeginKeeps ==
    ASSUME PoolsInv, NEW op \in {"add", "delete"}, NEW pools \in SUBSET Pool, Begin(op, pools),
           op = "add" => \E p \in Pool : pools = {p}
    PROVE  PoolsInv'
<1> DEFINE none == [h \in {} |-> {}]
           first == IF op = "add" THEN "flex" ELSE "uniform"
<1>1. DOMAIN none = {} OBVIOUS
<1>2. PICK lost \in Unnoticed(op), n \in 0..poolFaults :
         /\ poolFaults' = poolFaults - n
         /\ task' = [pc |-> first, op |-> op, pools |-> pools, err |-> FALSE, sent |-> none, left |-> lost]
         /\ outcome' = Idling
         /\ UNCHANGED <<nicPools, setPools, nicCache, inactive, setCache, nicFailed>>
  BY DEF Begin, Charge
<1> HIDE DEF none
<1>11. lost \subseteq BHost BY BackendHostsAssumption DEF Unnoticed, BHost
<1>3. Running(task') BY <1>1, <1>2, <1>11 DEF Running, Steps
<1>4. task'.pc \in {"flex", "uniform"} /\ (op = "add" => task'.pc = "flex") /\ task'.op = op BY <1>2
<1>5. TaskTypes' BY <1>2, <1>3 DEF TaskTypes
<1>6. PoolTypes' BY <1>2, BackendHostsAssumption DEF PoolsInv, PoolTypes
<1>7. task.pc = "idle" BY DEF Begin
<1>8. ForeignKnown' /\ CachedSound' BY <1>2, <1>4, <1>7 DEF PoolsInv, ForeignKnown, CachedSound
<1>9. AddedSoFar' /\ DeletedSoFar' BY <1>4 DEF AddedSoFar, DeletedSoFar
<1>10. QED BY <1>2, <1>5, <1>6, <1>8, <1>9, QuietWhileRunning DEF PoolsInv

\* The step of a scale set touches no machine.
LEMMA UpdateSetKeeps ==
    ASSUME PoolsInv, NEW s \in VmSet, UpdateSet(s)
    PROVE  PoolsInv'
<1> DEFINE seen == IF setCache[s] = Uncached THEN setPools[s] ELSE setCache[s]
           new == Target(seen)
           next == After(s)
<1>1. task.pc = s /\ UNCHANGED <<nicPools, nicCache, inactive, nicFailed>> BY DEF UpdateSet
<1>2. Running(task) /\ outcome = Idling BY <1>1 DEF PoolsInv, TaskTypes, Idling, VmSet
<1>3. seen \in SUBSET Pool BY DEF PoolsInv, PoolTypes
<1>4. new \in SUBSET Pool BY <1>2, <1>3 DEF Target, Running
<1>5. next \in Steps \ {"send", "invalidate"} /\ next \notin {"avhosts", "uniform"}
      /\ (task.op = "delete" => next # "flexhosts")
  BY <1>2 DEF After, AfterAdding, AfterDeleting, Running, Steps, VmSet
<1>6. \/ /\ new = seen /\ setCache' = [setCache EXCEPT ![s] = seen] /\ Goto(next) /\ UNCHANGED <<setPools, poolFaults>>
      \/ \E r \in Results :
            /\ setPools' = [setPools EXCEPT ![s] = IF r = "refused" THEN @ ELSE new]
            /\ setCache' = [setCache EXCEPT ![s] = KeptSet(s, new)]
            /\ Charge(IF r = "done" THEN 0 ELSE 1)
            /\ IF r = "done" THEN Goto(next) ELSE GotoError(Failing(s))
  BY DEF UpdateSet
<1> HIDE DEF seen, new, next
<1>7. /\ setCache' \in [VmSet -> (SUBSET Pool) \cup {Uncached}] /\ setPools' \in [VmSet -> SUBSET Pool]
      /\ poolFaults' \in 0..MaxPoolFaults
  <2>1. KeptSet(s, new) \in (SUBSET Pool) \cup {Uncached} BY <1>4 DEF KeptSet
  <2>2. setPools \in [VmSet -> SUBSET Pool] /\ setCache \in [VmSet -> (SUBSET Pool) \cup {Uncached}]
        /\ poolFaults \in 0..MaxPoolFaults /\ MaxPoolFaults \in Nat
    BY BackendHostsAssumption DEF PoolsInv, PoolTypes
  <2>3. CASE UNCHANGED <<setPools, poolFaults>> /\ setCache' = [setCache EXCEPT ![s] = seen]
    BY <1>3, <2>2, <2>3
  <2>4. ASSUME NEW r \in Results, setPools' = [setPools EXCEPT ![s] = IF r = "refused" THEN @ ELSE new],
               setCache' = [setCache EXCEPT ![s] = KeptSet(s, new)], Charge(IF r = "done" THEN 0 ELSE 1)
        PROVE  /\ setCache' \in [VmSet -> (SUBSET Pool) \cup {Uncached}] /\ setPools' \in [VmSet -> SUBSET Pool]
               /\ poolFaults' \in 0..MaxPoolFaults
    <3>1. poolFaults' \in 0..MaxPoolFaults BY <2>2, <2>4 DEF Charge, Results
    <3>2. setPools' \in [VmSet -> SUBSET Pool] BY <1>4, <2>2, <2>4
    <3>3. QED BY <2>1, <2>2, <2>4, <3>1, <3>2
  <2>5. QED BY <1>6, <2>3, <2>4
<1>8. PoolTypes' BY <1>1, <1>7 DEF PoolsInv, PoolTypes
<1>9. setCache'["flex"] \in {Uncached, setPools'["flex"]}
  <2>1. setCache["flex"] \in {Uncached, setPools["flex"]} BY DEF PoolsInv, CachedSound
  <2>2. s = "flex" => seen = setPools["flex"] BY <2>1 DEF seen
  <2>3. "flex" \in VmSet BY DEF VmSet
  <2>4. QED BY <1>6, <2>1, <2>2, <2>3 DEF PoolsInv, PoolTypes, KeptSet
<1>10. CASE Goto(next)
  <2>1. next \in Steps \cup {"end"} /\ next # "end" BY <1>5 DEF Steps
  <2>2. Moved(task', task, next, task.err) /\ outcome' = outcome BY <1>2, <1>10, <2>1, GotoCases DEF MovedOn
  <2>3. TaskTypes' BY <1>2, <2>2 DEF TaskTypes, Moved
  <2>4. task'.pc = next BY <2>2 DEF Moved
  <2>5. ForeignKnown' BY <1>1, <1>5, <2>4 DEF PoolsInv, ForeignKnown
  <2>6. CachedSound' BY <1>1, <1>9, <2>4 DEF PoolsInv, CachedSound, VmSet
  <2>7. AddedSoFar'
    <3>1. task.op = "add" /\ next = "hosts" => s = "uniform"
      BY DEF next, After, AfterAdding, VmSet
    <3>2. QED BY <1>1, <1>5, <2>2, <3>1 DEF PoolsInv, AddedSoFar, Moved
  <2>8. DeletedSoFar' BY <1>5, <2>2 DEF DeletedSoFar, Moved
  <2>9. QED BY <1>2, <1>8, <2>2, <2>3, <2>5, <2>6, <2>7, <2>8, QuietWhileRunning DEF PoolsInv
<1>11. CASE GotoError(Failing(s))
  <2>1. Failing(s) \in (Steps \ {"send", "invalidate"}) \cup {"end"} BY <1>2, FailingStep DEF VmSet
  <2>2. /\ TaskTypes' /\ AddedSoFar' /\ DeletedSoFar' /\ AddedIsIn' /\ DeletedIsOut'
        /\ task'.pc \notin {"send", "invalidate"}
    BY <1>2, <1>11, <2>1, ErrorKeeps
  <2>3. ForeignKnown' BY <1>1, <2>2 DEF PoolsInv, ForeignKnown
  <2>4. CachedSound' BY <1>1, <1>9, <2>2 DEF PoolsInv, CachedSound, VmSet
  <2>5. QED BY <1>8, <2>2, <2>3, <2>4 DEF PoolsInv
<1>12. QED BY <1>6, <1>10, <1>11

\* The machines that are not sent and not skipped are as asked already.
LEMMA PrepareHostsKeeps ==
    ASSUME PoolsInv, PrepareHosts
    PROVE  PoolsInv'
<1> DEFINE fresh == {h \in UHost : nicCache[h] = Uncached}
           seen == [h \in UHost |-> IF h \in fresh THEN nicPools[h] ELSE nicCache[h]]
           Due(off) == IF task.op = "add" THEN HostsToAdd(seen, off) ELSE HostsToDelete(seen, off)
<1>1. PICK stopped \in {(inactive \ fresh) \cup now : now \in SUBSET (fresh \cap MayStop)} :
         /\ inactive' = stopped
         /\ nicCache' = [h \in UHost |-> IF h \in Due(stopped) THEN Target(seen[h]) ELSE seen[h]]
         /\ task' = [task EXCEPT !.pc = "send", !.sent = [h \in Due(stopped) |-> Target(seen[h])],
                                 !.left = @ \cup stopped]
  BY DEF PrepareHosts
<1>2. /\ task.pc = "hosts" /\ UNCHANGED <<nicPools, setPools, setCache, nicFailed, outcome, poolFaults>>
      /\ stopped \subseteq MayStop
  BY DEF PrepareHosts, PoolsInv, PoolTypes
<1> DEFINE due == Due(stopped)
           sent == [h \in due |-> Target(seen[h])]
           left == task.left \cup stopped
<1>3. Running(task) /\ outcome = Idling BY <1>2 DEF PoolsInv, TaskTypes, Idling
<1>4. \A h \in UHost : seen[h] = nicPools[h] /\ nicPools[h] \in Names /\ h \in BHost
  BY <1>2 DEF PoolsInv, CachedSound, PoolTypes, BHost
<1>5. \A h \in UHost : ("foreign" \in nicPools[h] => h \in Foreign) BY <1>4 DEF PoolsInv, ForeignKnown
<1>6. \A h \in UHost : /\ Target(seen[h]) \in Names /\ ("foreign" \in Target(seen[h]) => h \in Foreign)
                       /\ task.op = "add" => Joined(h, Target(seen[h]), task.pools)
                       /\ task.op = "delete" => Left(Target(seen[h]), task.pools)
  BY <1>3, <1>4, <1>5, TargetIsAsAsked
<1>7. \A h \in UHost : h \notin due /\ h \notin left =>
         /\ task.op = "add" => Joined(h, nicPools[h], task.pools)
         /\ task.op = "delete" => Left(nicPools[h], task.pools)
  <2> SUFFICES ASSUME NEW h \in UHost, h \notin due, h \notin left
               PROVE  /\ task.op = "add" => Joined(h, nicPools[h], task.pools)
                      /\ task.op = "delete" => Left(nicPools[h], task.pools)
    OBVIOUS
  <2>1. CASE task.op = "add"
    <3>1. Target(seen[h]) = seen[h] BY <2>1 DEF HostsToAdd
    <3>2. QED BY <1>4, <1>6, <2>1, <3>1
  <2>2. CASE task.op = "delete"
    <3>1. Target(seen[h]) = seen[h] \/ nicPools[h] \cap task.pools = {} BY <2>2 DEF HostsToDelete, Members
    <3>2. QED BY <1>4, <1>6, <2>2, <3>1 DEF Left
  <2>3. QED BY <1>3, <2>1, <2>2 DEF Running
<1>8. due \subseteq UHost BY DEF HostsToAdd, HostsToDelete, Members
<1>9. DOMAIN sent = due /\ \A h \in due : sent[h] = Target(seen[h]) OBVIOUS
<1>10. /\ task' = [task EXCEPT !.pc = "send", !.sent = sent, !.left = left]
       /\ nicCache' = [h \in UHost |-> IF h \in due THEN Target(seen[h]) ELSE seen[h]]
  BY <1>1, Zenon
<1>11. left \subseteq BHost /\ task.left \subseteq left
  BY <1>2, <1>3, BackendHostsAssumption DEF Running, BHost
<1> HIDE DEF seen, due, sent, left
<1>12. PoolTypes'
  <2>1. nicCache' \in [UHost -> Names \cup {Uncached}] BY <1>4, <1>6, <1>10
  <2>2. QED BY <1>1, <1>2, <2>1 DEF PoolsInv, PoolTypes
<1>13. setCache'["flex"] \in {Uncached, setPools'["flex"]} BY <1>2 DEF PoolsInv, CachedSound
<1>14. task' = [pc |-> "send", op |-> task.op, pools |-> task.pools, err |-> task.err, sent |-> sent, left |-> left]
  <2> DEFINE t == [task EXCEPT !.pc = "send"]
             u == [t EXCEPT !.sent = sent]
  <2>1. t = [pc |-> "send", op |-> task.op, pools |-> task.pools, err |-> task.err, sent |-> task.sent, left |-> task.left]
    BY <1>3 DEF Running
  <2> HIDE DEF t
  <2>2. u = [pc |-> "send", op |-> task.op, pools |-> task.pools, err |-> task.err, sent |-> sent, left |-> task.left]
    BY <2>1
  <2> HIDE DEF u
  <2>3. [u EXCEPT !.left = left]
          = [pc |-> "send", op |-> task.op, pools |-> task.pools, err |-> task.err, sent |-> sent, left |-> left]
    BY <2>2
  <2>4. QED BY <1>10, <2>3, Zenon DEF t, u
<1>15. /\ task'.pc = "send" /\ task'.op = task.op /\ task'.pools = task.pools /\ task'.err = task.err
       /\ task'.sent = sent /\ task'.left = left
  BY <1>14
<1>16. Running(task') BY <1>3, <1>6, <1>8, <1>9, <1>11, <1>14, <1>15 DEF Running, Steps
<1>17. TaskTypes' BY <1>2, <1>3, <1>16 DEF TaskTypes
<1>18. ForeignKnown' BY <1>2, <1>6, <1>8, <1>9, <1>15 DEF PoolsInv, ForeignKnown
<1>19. CachedSound' BY <1>2, <1>4, <1>9, <1>10, <1>13, <1>15 DEF CachedSound
<1>20. AddedSoFar'
  <2>1. task.op = "add" =>
          \A h \in UHost \ left : Joined(h, IF h \in DOMAIN sent THEN sent[h] ELSE nicPools[h], task.pools)
    <3> SUFFICES ASSUME task.op = "add", NEW h \in UHost, h \notin left
                 PROVE  Joined(h, IF h \in DOMAIN sent THEN sent[h] ELSE nicPools[h], task.pools)
      OBVIOUS
    <3>1. CASE h \in due BY <1>6, <1>9, <3>1
    <3>2. CASE h \notin due
      <4>1. (IF h \in DOMAIN sent THEN sent[h] ELSE nicPools[h]) = nicPools[h] BY <1>9, <3>2
      <4>2. Joined(h, nicPools[h], task.pools) BY <1>7, <3>2
      <4>3. QED BY <4>1, <4>2, Zenon
    <3>3. QED BY <3>1, <3>2
  <2>2. QED BY <1>2, <1>11, <1>15, <2>1 DEF PoolsInv, AddedSoFar
<1>21. DeletedSoFar'
  <2>1. task.op = "delete" =>
          \A h \in UHost \ left : Left(IF h \in DOMAIN sent THEN sent[h] ELSE nicPools[h], task.pools)
    <3> SUFFICES ASSUME task.op = "delete", NEW h \in UHost \ left
                 PROVE  Left(IF h \in DOMAIN sent THEN sent[h] ELSE nicPools[h], task.pools)
      OBVIOUS
    <3>1. CASE h \in due BY <1>6, <1>9, <3>1
    <3>2. CASE h \notin due BY <1>7, <1>9, <3>2
    <3>3. QED BY <3>1, <3>2
  <2>2. QED BY <1>2, <1>15, <2>1 DEF PoolsInv, DeletedSoFar
<1>22. QED BY <1>2, <1>3, <1>12, <1>17, <1>18, <1>19, <1>20, <1>21, QuietWhileRunning DEF PoolsInv

\* What is sent is as asked, and stands when no machine failed.
LEMMA UpdateVMsKeeps ==
    ASSUME PoolsInv, UpdateVMs
    PROVE  PoolsInv'
<1>1. task.pc = "send" /\ UNCHANGED <<setPools, nicCache, inactive, setCache, nicFailed, outcome>>
  BY DEF UpdateVMs
<1>2. Running(task) /\ outcome = Idling BY <1>1 DEF PoolsInv, TaskTypes, Idling
<1>3. PICK bad \in SUBSET DOMAIN task.sent, r \in Results :
          /\ bad = {} <=> r = "done"
          /\ nicPools' = [h \in BHost |-> IF h \in DOMAIN task.sent /\ (h \notin bad \/ r = "unsure")
                                          THEN task.sent[h] ELSE nicPools[h]]
          /\ Charge(IF r = "done" THEN 0 ELSE 1)
          /\ task' = [task EXCEPT !.pc = "invalidate", !.err = @ \/ bad # {}]
  BY DEF UpdateVMs
<1> DEFINE err == task.err \/ bad # {}
<1>4. err \in BOOLEAN /\ (~err => ~task.err /\ bad = {}) OBVIOUS
<1>5. task' = [task EXCEPT !.pc = "invalidate", !.err = err] BY <1>3, Zenon
<1> HIDE DEF err
<1>6. Moved(task', task, "invalidate", err) BY <1>2, <1>4, <1>5, RunningMoves DEF Steps
<1>7. /\ Running(task') /\ task'.pc = "invalidate" /\ task'.op = task.op /\ task'.pools = task.pools
      /\ task'.sent = task.sent /\ task'.err = err /\ task'.left = task.left
  BY <1>6 DEF Moved
<1>8. TaskTypes' BY <1>1, <1>2, <1>7 DEF TaskTypes
<1>9. /\ DOMAIN task.sent \subseteq UHost /\ \A h \in DOMAIN task.sent : task.sent[h] \in Names
      /\ \A h \in UHost : h \in BHost
  BY <1>2 DEF Running, BHost
<1>10. \A h \in BHost : nicPools'[h] = nicPools[h] \/ (h \in DOMAIN task.sent /\ nicPools'[h] = task.sent[h])
  BY <1>3
<1>11. PoolTypes'
  <2>1. nicPools' \in [BHost -> Names] BY <1>3, <1>9 DEF PoolsInv, PoolTypes
  <2>2. poolFaults' \in 0..MaxPoolFaults BY <1>3, BackendHostsAssumption DEF PoolsInv, PoolTypes, Charge, Results
  <2>3. QED BY <1>1, <2>1, <2>2 DEF PoolsInv, PoolTypes
<1>12. ForeignKnown' BY <1>1, <1>7, <1>10 DEF PoolsInv, ForeignKnown
<1>13. CachedSound' BY <1>1, <1>7, <1>9, <1>10 DEF PoolsInv, CachedSound
<1>14. bad = {} => \A h \in UHost : nicPools'[h] = IF h \in DOMAIN task.sent THEN task.sent[h] ELSE nicPools[h]
  BY <1>3, <1>9
<1>15. \A h \in FHost \cup AHost : nicPools'[h] = nicPools[h]
  BY <1>9, <1>10, BackendHostsAssumption DEF BHost
<1>16. AddedSoFar' BY <1>1, <1>4, <1>7, <1>14, <1>15 DEF PoolsInv, AddedSoFar
<1>17. DeletedSoFar' BY <1>1, <1>4, <1>7, <1>14 DEF PoolsInv, DeletedSoFar
<1>18. QED BY <1>1, <1>2, <1>8, <1>11, <1>12, <1>13, <1>16, <1>17, QuietWhileRunning DEF PoolsInv

\* The entries of the machines that were sent are dropped before the call goes on.
LEMMA DeleteCacheKeeps ==
    ASSUME PoolsInv, DeleteCacheForNodes
    PROVE  PoolsInv'
<1>1. /\ task.pc = "invalidate" /\ UNCHANGED <<nicPools, setPools, inactive, setCache, nicFailed, poolFaults>>
      /\ nicCache' = [h \in UHost |-> IF h \in DOMAIN task.sent THEN Uncached ELSE nicCache[h]]
      /\ \/ task.err /\ GotoError(Failing("hosts"))
         \/ ~task.err /\ Goto(After("hosts"))
  BY DEF DeleteCacheForNodes, Dropped
<1>2. Running(task) /\ outcome = Idling BY <1>1 DEF PoolsInv, TaskTypes, Idling
<1>3. PoolTypes'
  <2>1. nicCache' \in [UHost -> Names \cup {Uncached}] BY <1>1 DEF PoolsInv, PoolTypes
  <2>2. QED BY <1>1, <2>1 DEF PoolsInv, PoolTypes
<1>4. CachedSound' BY <1>1 DEF PoolsInv, CachedSound
<1>5. task'.pc # "send" => ForeignKnown' BY <1>1 DEF PoolsInv, ForeignKnown
<1>6. CASE task.err /\ GotoError(Failing("hosts"))
  <2>1. Failing("hosts") \in (Steps \ {"send", "invalidate"}) \cup {"end"} BY <1>2, FailingStep
  <2>2. /\ TaskTypes' /\ AddedSoFar' /\ DeletedSoFar' /\ AddedIsIn' /\ DeletedIsOut'
        /\ task'.pc \notin {"send", "invalidate"}
    BY <1>2, <1>6, <2>1, ErrorKeeps
  <2>3. QED BY <1>3, <1>4, <1>5, <2>2 DEF PoolsInv
<1>7. CASE ~task.err /\ Goto(After("hosts"))
  <2> DEFINE next == After("hosts")
  <2>1. next \in {"end", "flexhosts"} /\ (next = "end" <=> task.op = "add")
    BY <1>2 DEF After, AfterAdding, AfterDeleting, Running
  <2> HIDE DEF next
  <2>2. next \in Steps \cup {"end"} BY <2>1 DEF Steps
  <2>3. MovedOn(next) BY <1>2, <1>7, <2>2, GotoCases DEF next
  <2>4. CASE task.op = "delete"
    <3>1. Moved(task', task, "flexhosts", task.err) /\ outcome' = Idling BY <1>2, <2>1, <2>3, <2>4 DEF MovedOn
    <3>2. TaskTypes' /\ task'.pc # "send" BY <3>1 DEF TaskTypes, Moved
    <3>3. AddedSoFar' BY <2>4, <3>1 DEF AddedSoFar, Moved
    <3>4. \A h \in UHost \ task.left : Left(nicPools'[h], task.pools)
      BY <1>1, <1>7, <2>4 DEF PoolsInv, DeletedSoFar
    <3>5. DeletedSoFar' BY <3>1, <3>4 DEF DeletedSoFar, Moved
    <3>6. QED BY <1>3, <1>4, <1>5, <3>1, <3>2, <3>3, <3>5, QuietWhileRunning DEF PoolsInv
  <2>5. CASE task.op = "add"
    <3>1. task' = Idling /\ outcome'.op = "add" /\ outcome'.pools = task.pools /\ outcome'.left = task.left
      BY <2>1, <2>3, <2>5 DEF MovedOn
    <3>2. TaskTypes' /\ task'.pc # "send" BY <3>1 DEF TaskTypes, Idling
    <3>3. AddedSoFar' /\ DeletedSoFar' BY <3>1 DEF AddedSoFar, DeletedSoFar, Idling
    <3>4. DeletedIsOut' BY <3>1 DEF DeletedIsOut
    <3>5. \A h \in BHost \ (nicFailed \cup task.left) : Joined(h, nicPools[h], task.pools)
      BY <1>1, <1>7, <2>5 DEF PoolsInv, AddedSoFar, BHost
    <3>6. AddedIsIn' BY <1>1, <3>1, <3>5 DEF AddedIsIn, Joined
    <3>7. QED BY <1>3, <1>4, <1>5, <3>2, <3>3, <3>4, <3>6 DEF PoolsInv
  <2>6. QED BY <1>2, <2>4, <2>5 DEF Running
<1>8. QED BY <1>1, <1>6, <1>7

\* The updates of the interfaces of the machines of flexible scale sets or of
\* availability sets (UpdateNics): what a step of either kind does.
Interfaces(pc, hosts) == (pc = "flexhosts" /\ hosts = FHost) \/ (pc = "avhosts" /\ hosts = AHost)

LEMMA HostTargets ==
    ASSUME PoolsInv, Running(task), NEW hosts \in {FHost, AHost}, NEW h \in hosts
    PROVE  /\ HostTarget(hosts, h) \in Names
           /\ "foreign" \in HostTarget(hosts, h) => h \in Foreign
           /\ task.op = "add" => Joined(h, HostTarget(hosts, h), task.pools)
           /\ task.op = "delete" => HostTarget(hosts, h) \cap task.pools \subseteq V6Pool
           /\ task.op = "delete" /\ hosts = AHost => Left(HostTarget(hosts, h), task.pools)
<1>1. h \in BHost /\ nicPools[h] \in Names /\ ("foreign" \in nicPools[h] => h \in Foreign)
  BY DEF PoolsInv, PoolTypes, ForeignKnown, BHost
<1>2. CASE task.op = "delete" /\ hosts = FHost
  <2>1. HostTarget(hosts, h) = nicPools[h] \ (task.pools \ V6Pool) BY <1>2 DEF HostTarget
  <2>2. hosts # AHost BY <1>2, BackendHostsAssumption
  <2>3. QED BY <1>1, <1>2, <2>1, <2>2 DEF Names
<1>3. CASE ~(task.op = "delete" /\ hosts = FHost)
  <2>1. HostTarget(hosts, h) = Target(nicPools[h]) BY <1>3 DEF HostTarget
  <2>2. /\ Target(nicPools[h]) \in Names
        /\ "foreign" \in Target(nicPools[h]) => h \in Foreign
        /\ task.op = "add" => Joined(h, Target(nicPools[h]), task.pools)
        /\ task.op = "delete" => Left(Target(nicPools[h]), task.pools)
    BY <1>1, TargetIsAsAsked
  <2>3. QED BY <2>1, <2>2 DEF Left
<1>4. QED BY <1>2, <1>3

LEMMA UpdateNicsKeeps ==
    ASSUME PoolsInv, NEW pc, NEW hosts \in {FHost, AHost}, Interfaces(pc, hosts), UpdateNics(pc, hosts)
    PROVE  PoolsInv'
<1>1. task.pc = pc /\ UNCHANGED <<setPools, nicCache, inactive, setCache, nicFailed>> BY DEF UpdateNics
<1>2. pc \in {"flexhosts", "avhosts"} BY DEF Interfaces
<1>3. Running(task) /\ outcome = Idling BY <1>1, <1>2 DEF PoolsInv, TaskTypes, Idling
<1>4. PICK bad \in SUBSET Candidates(hosts), r \in Results :
          /\ bad = {} <=> r = "done"
          /\ nicPools' = [h \in BHost |-> IF h \in Candidates(hosts) /\ (h \notin bad \/ r = "unsure")
                                          THEN HostTarget(hosts, h) ELSE nicPools[h]]
          /\ Charge(IF r = "done" THEN 0 ELSE 1)
          /\ IF r = "done" THEN Goto(After(pc)) ELSE GotoError(Failing(pc))
  BY DEF UpdateNics
<1>5. /\ Candidates(hosts) \subseteq hosts /\ hosts \subseteq BHost
      /\ \A h \in BHost \ hosts : h \notin Candidates(hosts)
  BY DEF Candidates, Members, BHost
<1>6. \A h \in BHost : nicPools'[h] = nicPools[h] \/ (h \in hosts /\ nicPools'[h] = HostTarget(hosts, h))
  BY <1>4, <1>5
<1>7. PoolTypes'
  <2>1. nicPools' \in [BHost -> Names] BY <1>3, <1>4, <1>5, HostTargets DEF PoolsInv, PoolTypes
  <2>2. poolFaults' \in 0..MaxPoolFaults BY <1>4, BackendHostsAssumption DEF PoolsInv, PoolTypes, Charge, Results
  <2>3. QED BY <1>1, <2>1, <2>2 DEF PoolsInv, PoolTypes
<1>8. \A h \in UHost : nicPools'[h] = nicPools[h] /\ h \in BHost
  BY <1>6, BackendHostsAssumption DEF BHost
<1>9. CachedSound' BY <1>1, <1>2, <1>8 DEF PoolsInv, CachedSound
<1>10. task'.pc # "send" => ForeignKnown'
  <2>1. \A h \in BHost : "foreign" \in nicPools'[h] => h \in Foreign
    BY <1>3, <1>6, HostTargets DEF PoolsInv, ForeignKnown
  <2>2. QED BY <2>1 DEF ForeignKnown
<1>11. CASE GotoError(Failing(pc))
  <2>1. Failing(pc) \in (Steps \ {"send", "invalidate"}) \cup {"end"} BY <1>2, <1>3, FailingStep
  <2>2. /\ TaskTypes' /\ AddedSoFar' /\ DeletedSoFar' /\ AddedIsIn' /\ DeletedIsOut'
        /\ task'.pc \notin {"send", "invalidate"}
    BY <1>3, <1>11, <2>1, ErrorKeeps
  <2>3. QED BY <1>7, <1>9, <1>10, <2>2 DEF PoolsInv
<1>12. CASE bad = {} /\ Goto(After(pc))
  <2> DEFINE next == After(pc)
  <2>1. \A h \in BHost : nicPools'[h] = IF h \in Candidates(hosts) THEN HostTarget(hosts, h) ELSE nicPools[h]
    BY <1>4, <1>12
  <2>2. /\ pc = "flexhosts" => next = "avhosts"
        /\ pc = "avhosts" => next = IF task.op = "add" THEN "uniform" ELSE "end"
    BY <1>3 DEF After, AfterAdding, AfterDeleting, Running
  <2> HIDE DEF next
  <2>3. next \in Steps \cup {"end"} BY <1>2, <2>2 DEF Steps
  <2>4. MovedOn(next) BY <1>3, <1>12, <2>3, GotoCases DEF next
  <2>5. task.op = "add" => \A h \in hosts \ (nicFailed \cup task.left) : Joined(h, nicPools'[h], task.pools)
    BY <1>3, <1>5, <2>1, HostTargets DEF Candidates
  <2>6. task.op = "delete" /\ nicFailed = {} =>
            \A h \in hosts : h \notin OtherAvSet /\ h \notin task.left =>
                /\ nicPools'[h] \cap task.pools \subseteq V6Pool
                /\ hosts = AHost => Left(nicPools'[h], task.pools)
    <3> SUFFICES ASSUME task.op = "delete", nicFailed = {}, NEW h \in hosts, h \notin OtherAvSet, h \notin task.left
                 PROVE  /\ nicPools'[h] \cap task.pools \subseteq V6Pool
                        /\ hosts = AHost => Left(nicPools'[h], task.pools)
      OBVIOUS
    <3>1. h \notin Candidates(hosts) => nicPools[h] \cap task.pools = {} BY DEF Candidates, Members
    <3>2. QED BY <1>3, <1>5, <2>1, <3>1, HostTargets DEF Left
  <2>7. CASE pc = "flexhosts"
    <3>1. hosts = FHost BY <2>7 DEF Interfaces
    <3>2. Moved(task', task, "avhosts", task.err) /\ outcome' = Idling BY <1>3, <2>2, <2>4, <2>7 DEF MovedOn
    <3>3. TaskTypes' /\ task'.pc = "avhosts" BY <3>2 DEF TaskTypes, Moved
    <3>4. AddedSoFar' BY <1>1, <2>5, <3>1, <3>2 DEF AddedSoFar, Moved
    <3>5. FHost \cap OtherAvSet = {} BY BackendHostsAssumption
    <3>6. task.op = "delete" /\ ~task.err => \A h \in UHost \ task.left : Left(nicPools'[h], task.pools)
      BY <1>1, <1>8, <2>7 DEF PoolsInv, DeletedSoFar
    <3>7. DeletedSoFar'
      <4>1. /\ task'.op = task.op /\ task'.pools = task.pools /\ task'.left = task.left /\ task'.err = task.err
            /\ task'.pc = "avhosts"
        BY <3>2 DEF Moved
      <4>2. task.op = "delete" /\ nicFailed = {} =>
               \A h \in FHost \ task.left : nicPools'[h] \cap task.pools \subseteq V6Pool
        <5> SUFFICES ASSUME task.op = "delete", nicFailed = {}, NEW h \in FHost, h \notin task.left
                     PROVE  nicPools'[h] \cap task.pools \subseteq V6Pool
          OBVIOUS
        <5> QED BY <2>6, <3>1, <3>5
      <4>3. nicFailed' = nicFailed BY <1>1
      <4>4. QED BY <3>6, <4>1, <4>2, <4>3 DEF DeletedSoFar
    <3>8. QED BY <1>7, <1>9, <1>10, <3>2, <3>3, <3>4, <3>7, QuietWhileRunning DEF PoolsInv
  <2>8. CASE pc = "avhosts"
    <3>1. hosts = AHost BY <2>8 DEF Interfaces
    <3>2. \A h \in FHost : nicPools'[h] = nicPools[h] BY <1>6, <3>1, BackendHostsAssumption DEF BHost
    <3>3. CASE task.op = "add"
      <4>1. Moved(task', task, "uniform", task.err) /\ outcome' = Idling BY <1>3, <2>2, <2>4, <2>8, <3>3 DEF MovedOn
      <4>2. TaskTypes' /\ task'.pc = "uniform" BY <4>1 DEF TaskTypes, Moved
      <4>3. ~task.err => \A h \in FHost \ (nicFailed \cup task.left) : Joined(h, nicPools[h], task.pools)
        BY <1>1, <2>8, <3>3 DEF PoolsInv, AddedSoFar
      <4>4. AddedSoFar' BY <1>1, <2>5, <3>1, <3>2, <3>3, <4>1, <4>3 DEF AddedSoFar, Moved
      <4>5. DeletedSoFar' BY <3>3, <4>1 DEF DeletedSoFar, Moved
      <4>6. QED BY <1>7, <1>9, <1>10, <4>1, <4>2, <4>4, <4>5, QuietWhileRunning DEF PoolsInv
    <3>4. CASE task.op = "delete"
      <4>1. task' = Idling /\ outcome'.op = "delete" /\ outcome'.pools = task.pools
            /\ outcome'.left = task.left /\ (outcome'.pc = "ok" => ~task.err)
        BY <2>2, <2>4, <2>8, <3>4 DEF MovedOn
      <4>2. TaskTypes' /\ task'.pc # "send" BY <4>1 DEF TaskTypes, Idling
      <4>3. AddedSoFar' /\ DeletedSoFar' BY <4>1 DEF AddedSoFar, DeletedSoFar, Idling
      <4>4. AddedIsIn' BY <4>1 DEF AddedIsIn
      <4>5. ~task.err => /\ \A h \in UHost \ task.left : Left(nicPools[h], task.pools)
                         /\ nicFailed = {} => \A h \in FHost \ task.left : nicPools[h] \cap task.pools \subseteq V6Pool
        BY <1>1, <2>8, <3>4 DEF PoolsInv, DeletedSoFar
      <4>6. DeletedIsOut'
        <5>1. SUFFICES ASSUME ~task.err
                       PROVE  /\ \A h \in UHost \ task.left : nicPools'[h] \cap task.pools = {}
                              /\ nicFailed = {} =>
                                    /\ \A h \in AHost \ (OtherAvSet \cup task.left) : nicPools'[h] \cap task.pools = {}
                                    /\ \A h \in FHost \ task.left : nicPools'[h] \cap task.pools \subseteq V6Pool
          BY <1>1, <4>1 DEF DeletedIsOut
        <5>2. \A h \in UHost \ task.left : nicPools'[h] \cap task.pools = {}
          BY <1>8, <4>5, <5>1 DEF Left
        <5>3. nicFailed = {} => \A h \in AHost \ (OtherAvSet \cup task.left) : nicPools'[h] \cap task.pools = {}
          <6> SUFFICES ASSUME nicFailed = {}, NEW h \in AHost, h \notin OtherAvSet, h \notin task.left
                       PROVE  nicPools'[h] \cap task.pools = {}
            OBVIOUS
          <6>1. Left(nicPools'[h], task.pools) BY <2>6, <3>1, <3>4
          <6>2. QED BY <6>1 DEF Left
        <5>4. nicFailed = {} => \A h \in FHost \ task.left : nicPools'[h] \cap task.pools \subseteq V6Pool
          BY <3>2, <4>5, <5>1
        <5>5. QED BY <5>2, <5>3, <5>4
      <4>7. QED BY <1>7, <1>9, <1>10, <4>2, <4>3, <4>4, <4>6 DEF PoolsInv
    <3>5. QED BY <1>3, <3>3, <3>4 DEF Running
  <2>9. QED BY <1>2, <2>7, <2>8
<1>13. QED BY <1>4, <1>11, <1>12

LEMMA ExpireOrFillKeeps ==
    ASSUME PoolsInv, ExpireOrFill
    PROVE  PoolsInv'
<1>1. outcome' = Idling /\ UNCHANGED <<nicPools, setPools, nicFailed, task, poolFaults>> BY DEF ExpireOrFill
<1>2. /\ nicCache' \in [UHost -> Names \cup {Uncached}] /\ setCache' \in [VmSet -> (SUBSET Pool) \cup {Uncached}]
      /\ \A h \in UHost : nicCache'[h] \in {nicCache[h], Uncached, nicPools[h]}
      /\ setCache'["flex"] \in {setCache["flex"], Uncached, setPools["flex"]}
  <2>1. /\ nicCache \in [UHost -> Names \cup {Uncached}] /\ setCache \in [VmSet -> (SUBSET Pool) \cup {Uncached}]
        /\ \A h \in UHost : nicPools[h] \in Names
        /\ setPools \in [VmSet -> SUBSET Pool] /\ "flex" \in VmSet
    BY DEF PoolsInv, PoolTypes, BHost, VmSet
  <2>2. ASSUME NEW h \in UHost, nicCache' = [nicCache EXCEPT ![h] = IF @ = Uncached THEN nicPools[h] ELSE Uncached]
        PROVE  /\ nicCache' \in [UHost -> Names \cup {Uncached}]
               /\ \A g \in UHost : nicCache'[g] \in {nicCache[g], Uncached, nicPools[g]}
    BY <2>1, <2>2
  <2>3. ASSUME NEW s \in VmSet, setCache' = [setCache EXCEPT ![s] = IF @ = Uncached THEN setPools[s] ELSE Uncached]
        PROVE  /\ setCache' \in [VmSet -> (SUBSET Pool) \cup {Uncached}]
               /\ setCache'["flex"] \in {setCache["flex"], Uncached, setPools["flex"]}
    BY <2>1, <2>3
  <2>4. QED BY <2>1, <2>2, <2>3 DEF ExpireOrFill
<1>7. inactive' \subseteq MayStop BY DEF ExpireOrFill, PoolsInv, PoolTypes
<1>3. PoolTypes' BY <1>1, <1>2, <1>7 DEF PoolsInv, PoolTypes
<1>4. CachedSound' BY <1>1, <1>2 DEF PoolsInv, CachedSound
<1>5. (TaskTypes /\ ForeignKnown /\ AddedSoFar /\ DeletedSoFar)'
  BY <1>1 DEF PoolsInv, TaskTypes, ForeignKnown, AddedSoFar, DeletedSoFar
<1>6. QED BY <1>1, <1>3, <1>4, <1>5, QuietWhileRunning DEF PoolsInv

LEMMA NicStateKeeps ==
    ASSUME PoolsInv, NEW h \in NicMayFail, NicState(h)
    PROVE  PoolsInv'
<1>1. /\ task.pc = "idle" /\ outcome' = Idling /\ nicFailed' \subseteq BHost
      /\ UNCHANGED <<nicPools, setPools, nicCache, inactive, setCache, task, poolFaults>>
  BY BackendHostsAssumption DEF NicState, PoolsInv, PoolTypes, BHost
<1>2. PoolTypes' /\ TaskTypes' BY <1>1 DEF PoolsInv, PoolTypes, TaskTypes
<1>3. (ForeignKnown /\ CachedSound /\ AddedSoFar /\ DeletedSoFar)'
  BY <1>1 DEF PoolsInv, ForeignKnown, CachedSound, AddedSoFar, DeletedSoFar
<1>4. QED BY <1>1, <1>2, <1>3, QuietWhileRunning DEF PoolsInv

LEMMA PoolsInductive == PoolsInv /\ [BNext]_bvars => PoolsInv'
<1> SUFFICES ASSUME PoolsInv, [BNext]_bvars PROVE PoolsInv' OBVIOUS
<1>1. CASE UNCHANGED bvars
  BY <1>1 DEF bvars, PoolsInv, PoolTypes, TaskTypes, ForeignKnown, CachedSound, AddedSoFar, DeletedSoFar,
              AddedIsIn, DeletedIsOut
<1>2. CASE \E p \in Pool : Begin("add", {p}) BY <1>2, BeginKeeps
<1>3. CASE \E pools \in (SUBSET Pool) \ {{}} : Begin("delete", pools) BY <1>3, BeginKeeps
<1>4. CASE UniformSet \/ FlexSet BY <1>4, UpdateSetKeeps DEF UniformSet, FlexSet, VmSet
<1>5. CASE PrepareHosts \/ UpdateVMs \/ DeleteCacheForNodes
  BY <1>5, PrepareHostsKeeps, UpdateVMsKeeps, DeleteCacheKeeps
<1>6. CASE FlexHosts \/ AvHosts BY <1>6, UpdateNicsKeeps DEF FlexHosts, AvHosts, Interfaces
<1>7. CASE ExpireOrFill BY <1>7, ExpireOrFillKeeps
<1>8. CASE \E h \in NicMayFail : NicState(h) BY <1>8, NicStateKeeps
<1>9. QED BY <1>1, <1>2, <1>3, <1>4, <1>5, <1>6, <1>7, <1>8 DEF BNext

\* For any machines, pools and faults: after a call that returned nil the
\* machines are in the pools, or out of them, though the calls before it may
\* have failed half-way and left changed objects in the caches
\* (EnsureHostsInPool, EnsureBackendPoolDeleted of azure_vmss.go).
THEOREM PoolsAreAsAnswered == BSpec => []PoolsAsAnswered
<1>1. BInit => PoolsInv
  <2> SUFFICES ASSUME BInit PROVE PoolsInv OBVIOUS
  <2>1. PoolTypes BY BackendHostsAssumption DEF BInit, PoolTypes, Names, Uncached
  <2>2. task.pc = "idle" /\ outcome.pc = "idle" /\ task = Idling BY DEF BInit, Idling
  <2>3. TaskTypes /\ AddedSoFar /\ DeletedSoFar /\ AddedIsIn /\ DeletedIsOut
    BY <2>2 DEF TaskTypes, AddedSoFar, DeletedSoFar, AddedIsIn, DeletedIsOut
  <2>4. CachedSound BY DEF BInit, CachedSound, VmSet
  <2>5. ForeignKnown BY <2>2 DEF BInit, ForeignKnown
  <2>6. QED BY <2>1, <2>3, <2>4, <2>5 DEF PoolsInv
<1>2. PoolsInv => PoolsAsAnswered
  BY DEF PoolsInv, PoolTypes, CachedSound, PoolsAsAnswered, BTypeOK, FlexSetCached, Names
<1>3. QED BY <1>1, <1>2, PoolsInductive, PTL DEF BSpec

-----------------------------------------------------------------------------
(* The caches of machines.                                                 *)

Keys == SharedCache \cup AvSet
Lists ==
    [by : {"nobody", "node", "lifecycle", "writer"}, av : SUBSET AvSet, fx : SUBSET Flex,
     nodes : SUBSET Machine, forced : BOOLEAN]
Caches ==
    [loaded : SUBSET Keys, aged : SUBSET Keys, av : SUBSET AvSet, fx : SUBSET Flex,
     nodes : SUBSET Machine, set : BOOLEAN, uniform : [Uniform -> {"no", "nil", "vm"}],
     flex : SUBSET Flex, ids : SUBSET Flex, names : SUBSET Flex,
     held : {"none", "uniform", "flex"}, faults : Nat, list : Lists, slipped : SUBSET AvSet]

Lived == {"running", "deleting", "gone"}

\* A map of machines of the scale set knows nothing of a machine that is not
\* there yet, and has no nil entry for one that runs.
MapSound(map) ==
    \A n \in Uniform : /\ vm[n] \in {"none", "creating"} => map[n] = "no"
                       /\ vm[n] = "running" => map[n] # "nil"

\* A node that was seen had its machine, and a running machine of an
\* availability set was listed with it, unless the node registered after the
\* list.
NodesSound(c) ==
    \A n \in c.nodes : /\ vm[n] \in Lived
                       /\ n \in AvSet /\ vm[n] = "running" => n \in c.av \cup c.slipped

\* The machine of a node that was there when the machines were listed is in
\* the list as long as it runs.
ListSound(c) ==
    \A n \in c.list.nodes : /\ vm[n] \in Lived
                            /\ n \in AvSet /\ vm[n] = "running" => n \in c.list.av

Trusted(c) ==
    /\ c \in Caches
    /\ c.aged \subseteq c.loaded
    /\ c.faults <= plan.faults
    /\ MapSound(c.uniform)
    /\ NodesSound(c)
    /\ ListSound(c)

Question ==
    [pc : {"name", "group", "avset", "flex", "flexvm", "first", "locked"},
     op : MetadataPart \cup {"provider", "exists", "shutdown"}, n : Machine]

\* What a question knows of its machine from the look-ups before.
AskSound(q) ==
    /\ q.pc = "avset" => q.n \in AvSet
    /\ q.pc \in {"flex", "flexvm"} => q.n \in Flex
    /\ q.pc \in {"first", "locked"} => q.n \in Uniform

Holding ==
    [pc : {"hold"}, n : Uniform, key : {"uniform"}, map : [Uniform -> {"no", "nil", "vm"}]]
    \cup [pc : {"hold"}, n : Flex, key : {"flex"}, map : SUBSET Flex]
    \cup [pc : {"unname"}, n : Flex] \cup [pc : {"listing"}, n : Machine]

Azure ==
    /\ plan \in Plans
    /\ vm \in [Machine -> {"none", "creating"} \cup Lived]
    /\ node \in [Machine -> {"none", "new", "ready"}]
    /\ \A n \in Machine : node[n] # "none" => vm[n] \in Lived

Asking ==
    /\ asks \in [{"node", "lifecycle"} -> Question \cup {Quiet}]
    /\ \A p \in {"node", "lifecycle"} : asks[p].pc # "idle" => AskSound(asks[p])

Written ==
    /\ deletes \subseteq Machine
    /\ writer \in Holding \cup {Quiet}
    /\ writer.pc = "hold" /\ writer.key = "uniform" => MapSound(writer.map)

MachinesInv == Azure /\ Trusted(cache) /\ Asking /\ Written

\* What the getter of an entry leaves, once it has its result.
Stored(d, key, kept) ==
    [d EXCEPT !.loaded = IF kept THEN @ \cup {key} ELSE @ \ {key}, !.aged = @ \ {key},
              !.held = IF @ = key THEN "none" ELSE @]

\* Keeping the result of a getter changes none of the data.
LEMMA StoredSound ==
  ASSUME NEW d, Trusted(d), NEW key \in Keys, NEW kept \in BOOLEAN
  PROVE  /\ Trusted(Stored(d, key, kept))
         /\ Stored(d, key, kept).av = d.av /\ Stored(d, key, kept).fx = d.fx
         /\ Stored(d, key, kept).set = d.set /\ Stored(d, key, kept).uniform = d.uniform
         /\ Stored(d, key, kept).nodes = d.nodes /\ Stored(d, key, kept).slipped = d.slipped
         /\ kept => key \in Stored(d, key, kept).loaded
<1> DEFINE e == Stored(d, key, kept)
<1>1. /\ e \in Caches /\ e.av = d.av /\ e.fx = d.fx /\ e.set = d.set /\ e.nodes = d.nodes
      /\ e.list = d.list /\ e.slipped = d.slipped
      /\ e.uniform = d.uniform /\ e.aged = d.aged \ {key} /\ e.faults = d.faults
      /\ e.loaded = IF kept THEN d.loaded \cup {key} ELSE d.loaded \ {key}
  BY DEF Stored, Trusted, Caches, Keys, SharedCache
<1> HIDE DEF e
<1> QED BY <1>1 DEF e, Trusted, NodesSound, ListSound

LEMMA StoredShared ==
  ASSUME NEW d, Trusted(d), NEW key \in SharedCache
  PROVE  /\ Trusted(Stored(d, key, TRUE))
         /\ Stored(d, key, TRUE).av = d.av /\ Stored(d, key, TRUE).fx = d.fx
         /\ Stored(d, key, TRUE).set = d.set /\ Stored(d, key, TRUE).uniform = d.uniform
         /\ Stored(d, key, TRUE).slipped = d.slipped
<1>1. key \in Keys
  BY DEF Keys
<1> QED BY <1>1, StoredSound, Zenon

\* A refresh of what manages the nodes knows every node, and the running
\* machines of availability sets unless their nodes registered after the list.
LEMMA FetchedGroups ==
  ASSUME Azure, NEW c, Trusted(c)
  PROVE  /\ Trusted(Fetched(c, "groups"))
         /\ Fetched(c, "groups").nodes = InCluster
<1> DEFINE d == ListGroups(c)
<1>1. /\ d \in Caches /\ d.av = c.list.av /\ d.nodes = InCluster /\ d.list = NoList
      /\ d.slipped = (InCluster \cap AvSet) \ c.list.nodes
      /\ d.uniform = c.uniform /\ d.loaded = c.loaded /\ d.aged = c.aged
      /\ d.faults = c.faults
  BY DEF ListGroups, Trusted, Caches, Lists, NoList, InCluster
<1>2. NodesSound(d)
  BY <1>1 DEF NodesSound, Trusted, ListSound, Azure, InCluster
<1>3. Fetched(c, "groups") = Stored(d, "groups", TRUE)
  BY DEF Fetched, SharedCache, Stored
<1> HIDE DEF d
<1>4. Trusted(d)
  BY <1>1, <1>2 DEF Trusted, ListSound, NoList
<1>5. "groups" \in Keys BY DEF Keys, SharedCache
<1>6. /\ Trusted(Stored(d, "groups", TRUE))
      /\ Stored(d, "groups", TRUE).nodes = d.nodes
  BY <1>4, <1>5, StoredSound, Zenon
<1> QED BY <1>1, <1>3, <1>6

\* The list of the machines is sound, whoever asks for it.
LEMMA ListedSound ==
  ASSUME Azure, NEW c, Trusted(c), NEW p \in {"node", "lifecycle", "writer"}, NEW forced \in BOOLEAN,
         NEW o \in ListMachines(c, p, forced)
  PROVE  Trusted(o.c) /\ o.a \in {"listing", "error"}
<1> DEFINE l == [by |-> p, av |-> Listed \cap AvSet, fx |-> Listed \cap Flex, nodes |-> InCluster, forced |-> forced]
<1>1. CASE o = [a |-> "listing", c |-> [c EXCEPT !.list = l]]
  <2>1. l \in Lists /\ l.nodes = InCluster /\ l.av = Listed \cap AvSet BY DEF Lists, InCluster, Listed
  <2> HIDE DEF l
  <2>2. [c EXCEPT !.list = l] \in Caches /\ [c EXCEPT !.list = l].list = l BY <2>1 DEF Trusted, Caches
  <2>3. \A n \in InCluster : vm[n] \in Lived /\ (n \in AvSet /\ vm[n] = "running" => n \in Listed)
    BY DEF Azure, InCluster, Listed
  <2>4. Trusted([c EXCEPT !.list = l])
    BY <2>1, <2>2, <2>3 DEF Trusted, Caches, NodesSound, ListSound
  <2> QED BY <1>1, <2>4
<1>2. CASE o = [a |-> "error", c |-> [c EXCEPT !.faults = @ - 1]] /\ c.faults > 0
  <2>1. Trusted([c EXCEPT !.faults = @ - 1])
    BY <1>2, MachinesAssumption DEF Trusted, Caches, NodesSound, ListSound, Azure
  <2> QED BY <1>2, <2>1
<1> QED BY <1>1, <1>2 DEF ListMachines, Answer

\* A refresh of the scale sets finds the one of a machine that runs.
LEMMA FetchedSets ==
  ASSUME Azure, NEW c, Trusted(c)
  PROVE  /\ Trusted(Fetched(c, "sets"))
         /\ \A n \in Uniform : vm[n] = "running" => Fetched(c, "sets").set
         /\ Fetched(c, "sets").slipped = c.slipped
<1> DEFINE some == \E n \in Uniform : vm[n] # "none"
<1>0. some \in BOOLEAN
  OBVIOUS
<1>1. \A b \in BOOLEAN : /\ Trusted([c EXCEPT !.set = b]) /\ [c EXCEPT !.set = b].set = b
                         /\ [c EXCEPT !.set = b].slipped = c.slipped
  BY DEF Trusted, Caches, NodesSound, ListSound
<1>2. Trusted(ListSets(c)) /\ ListSets(c).set = some /\ ListSets(c).slipped = c.slipped
  BY <1>0, <1>1 DEF ListSets
<1>3. Fetched(c, "sets") = Stored(ListSets(c), "sets", TRUE)
  BY DEF Fetched, SharedCache, Stored
<1>4. Trusted(Fetched(c, "sets")) /\ Fetched(c, "sets").set = some /\ Fetched(c, "sets").slipped = c.slipped
  BY <1>2, <1>3, StoredShared DEF SharedCache
<1> QED BY <1>4

\* A refresh of the machines of the scale set has every one that runs.
LEMMA FetchedUniform ==
  ASSUME Azure, NEW c, Trusted(c)
  PROVE  /\ Trusted(Fetched(c, "uniform"))
         /\ \A n \in Uniform : vm[n] = "running" => Fetched(c, "uniform").uniform[n] = "vm"
<1> DEFINE map == [n \in Uniform |->
                     CASE vm[n] = "running" -> "vm"
                       [] vm[n] = "deleting" -> "nil"
                       [] OTHER -> IF c.uniform[n] = "no" THEN "no" ELSE "nil"]
<1>1. /\ map \in [Uniform -> {"no", "nil", "vm"}] /\ MapSound(map)
      /\ \A n \in Uniform : vm[n] = "running" => map[n] = "vm"
  BY DEF Azure, MapSound, Trusted, Caches, Machine, Lived
<1>2. ListUniform(c) = [c EXCEPT !.uniform = map]
  BY DEF ListUniform
<1> HIDE DEF map
<1>3. Trusted(ListUniform(c)) /\ ListUniform(c).uniform = map
  BY <1>1, <1>2 DEF Trusted, Caches, NodesSound, ListSound
<1>4. Fetched(c, "uniform") = Stored(ListUniform(c), "uniform", TRUE)
  BY DEF Fetched, SharedCache, Stored
<1>5. Trusted(Fetched(c, "uniform")) /\ Fetched(c, "uniform").uniform = map
  BY <1>3, <1>4, StoredShared DEF SharedCache
<1> QED BY <1>1, <1>5

\* The lists of the flexible scale set disturb nothing else.
LEMMA NameFlexSound ==
  ASSUME NEW c, Trusted(c)
  PROVE  Trusted(NameFlex(c))
BY DEF Trusted, Caches, NodesSound, ListSound, NameFlex, Listed

LEMMA FetchedFlex ==
  ASSUME NEW c, Trusted(c)
  PROVE  Trusted(Fetched(c, "flex"))
<1> DEFINE d == NameFlex(c)
<1>1. Trusted(d)
  BY NameFlexSound
<1>2. ListFlex(c) = [d EXCEPT !.flex = Listed \cap Flex]
  BY DEF ListFlex
<1> HIDE DEF d
<1>3. Trusted(ListFlex(c))
  BY <1>1, <1>2 DEF Trusted, Caches, NodesSound, ListSound
<1>4. Fetched(c, "flex") = Stored(ListFlex(c), "flex", TRUE)
  BY DEF Fetched, SharedCache, Stored
<1> QED BY <1>3, <1>4, StoredShared DEF SharedCache

\* The getter of a single machine keeps one that runs.
LEMMA FetchedSingle ==
  ASSUME NEW c, Trusted(c), NEW n \in AvSet
  PROVE  /\ Trusted(Fetched(c, n))
         /\ vm[n] = "running" => n \in Fetched(c, n).loaded
<1> DEFINE kept == vm[n] \in {"creating", "running"}
<1>1. kept \in BOOLEAN
  OBVIOUS
<1>2. n \notin SharedCache /\ n \in Keys
  BY MachinesAssumption DEF SharedCache, Keys
<1>3. Fetched(c, n) = Stored(c, n, kept)
  BY <1>2 DEF Fetched, SharedCache, Stored
<1>4. vm[n] = "running" => kept
  OBVIOUS
<1> HIDE DEF kept
<1> QED BY <1>1, <1>2, <1>3, <1>4, StoredSound

\* What a cache read may return: the entry as it is, a refreshed one, or an
\* error that leaves the entry.
LEMMA ReadCases ==
  ASSUME Azure, NEW c, Trusted(c), NEW key \in Keys, NEW crt, NEW r \in Read(c, key, crt)
  PROVE  \/ r.ok /\ r.c = c /\ key \in c.loaded /\ crt # "force"
         \/ r.ok /\ r.c = Fetched(c, key)
         \/ ~r.ok /\ Trusted(r.c)
<1>1. CASE r = [ok |-> TRUE, c |-> c] /\ key \in c.loaded /\ crt # "force"
  BY <1>1
<1>2. CASE r = [ok |-> TRUE, c |-> Fetched(c, key)]
  BY <1>2
<1>3. ASSUME NEW f \in CacheFaults, c.faults > 0,
             r = [ok |-> FALSE, c |-> [(IF f = "second" THEN NameFlex(c) ELSE c) EXCEPT !.faults = @ - 1]]
      PROVE  ~r.ok /\ Trusted(r.c)
  <2> DEFINE d == IF f = "second" THEN NameFlex(c) ELSE c
  <2>1. Trusted(d) /\ d.faults = c.faults
    BY NameFlexSound DEF NameFlex, Trusted, Caches
  <2>2. r.c = [d EXCEPT !.faults = @ - 1] /\ ~r.ok
    BY <1>3
  <2> HIDE DEF d
  <2>3. Trusted([d EXCEPT !.faults = @ - 1])
    BY <1>3, <2>1, MachinesAssumption DEF Trusted, Caches, NodesSound, ListSound, Azure
  <2> QED BY <2>2, <2>3
<1> QED BY <1>1, <1>2, <1>3 DEF Read

LEMMA ReadSound ==
  ASSUME Azure, NEW c, Trusted(c), NEW key \in Keys, NEW crt, NEW r \in Read(c, key, crt)
  PROVE  Trusted(r.c)
<1>1. Trusted(Fetched(c, key))
  BY FetchedGroups, FetchedSets, FetchedUniform, FetchedFlex, FetchedSingle DEF Keys, SharedCache
<1> QED BY <1>1, ReadCases

\* A forced read that does not fail has refreshed the entry.
LEMMA ForcedRead ==
  ASSUME Azure, NEW c, Trusted(c), NEW key \in Keys, NEW r \in Read(c, key, "force"), r.ok
  PROVE  r.c = Fetched(c, key)
BY ReadCases

-----------------------------------------------------------------------------
(* The look-ups.                                                           *)

\* The outcome of a look-up for a machine: caches that can be trusted, and "not
\* found" only if the machine does not run, is in a flexible scale set, has no
\* node (any more) or one that registered in the middle of the refresh.
Absent(c, n) == vm[n] # "running" \/ node[n] = "none" \/ n \in c.slipped
Honest(o, n) ==
    /\ Trusted(o.c)
    /\ o.a = "notfound" /\ n \in Uniform \cup AvSet => Absent(o.c, n)

\* The group that the caches name.
LEMMA GroupOfSound ==
  ASSUME NEW c, Trusted(c), NEW n \in Machine
  PROVE  /\ GroupOf(c, n) \in {"avset", "flex", "uniform"}
         /\ GroupOf(c, n) = "avset" => n \in AvSet /\ n \in c.av
         /\ GroupOf(c, n) = "flex" => n \in Flex
         /\ GroupOf(c, n) = "uniform" => n \notin c.av
BY DEF GroupOf, Trusted, Caches

\* The management type of a node by its name.
Asker == {"node", "lifecycle", "writer"}
GroupSound(o, n) ==
    /\ Trusted(o.c)
    /\ o.a \in {"error", "listing", "avset", "flex", "uniform"}
    /\ o.a = "avset" => n \in AvSet
    /\ o.a = "flex" => n \in Flex
    /\ o.a = "uniform" /\ n \in AvSet => Absent(o.c, n)

\* A node the cache knows, or does not know though it has all nodes.
LEMMA GroupListedSound ==
  ASSUME Azure, NEW c, Trusted(c), NEW n \in Machine, NEW p \in Asker, NEW forced \in BOOLEAN,
         forced => c.nodes = InCluster, NEW o \in GroupListed(c, n, p, forced)
  PROVE  GroupSound(o, n)
<1>1. CASE Known(c, n) \/ forced
  <2>1. o.a = GroupOf(c, n) /\ o.c = c
    <3>1. GroupListed(c, n, p, forced) = Answer(GroupOf(c, n), c)
      BY <1>1 DEF GroupListed
    <3>2. o = [a |-> GroupOf(c, n), c |-> c]
      BY <3>1 DEF Answer
    <3> HIDE DEF GroupOf
    <3> QED BY <3>2
  <2>2. n \in AvSet /\ n \notin c.av => n \in c.nodes \/ node[n] = "none"
    BY <1>1, MachinesAssumption DEF Known, Trusted, Caches, InCluster
  <2>3. n \in AvSet /\ n \notin c.av => Absent(c, n)
    BY <2>2 DEF Trusted, NodesSound, Absent
  <2> QED BY <2>1, <2>3, GroupOfSound DEF GroupSound
<1>2. CASE ~(Known(c, n) \/ forced)
  BY <1>2, ListedSound DEF GroupListed, GroupSound, Asker
<1> QED BY <1>1, <1>2

LEMMA GroupByNameSound ==
  ASSUME Azure, NEW c, Trusted(c), NEW n \in Machine, NEW p \in Asker, NEW o \in GroupByName(c, n, p)
  PROVE  GroupSound(o, n)
<1>0. p # "nobody" /\ c.list.forced \in BOOLEAN
  BY DEF Asker, Trusted, Caches, Lists
<1>1. CASE c.list.by = p
  <2>1. o \in GroupListed(Fetched(c, "groups"), n, p, c.list.forced)
    BY <1>0, <1>1 DEF GroupByName
  <2> QED BY <1>0, <2>1, FetchedGroups, GroupListedSound
<1>2. CASE c.list.by = "nobody" /\ "groups" \in c.loaded
  <2>1. o \in GroupListed(c, n, p, FALSE)
    BY <1>0, <1>2 DEF GroupByName
  <2> QED BY <2>1, GroupListedSound
<1>3. CASE c.list.by = "nobody" /\ "groups" \notin c.loaded
  <2>1. o \in ListMachines(c, p, FALSE)
    BY <1>0, <1>3 DEF GroupByName
  <2> QED BY <2>1, ListedSound DEF GroupSound, Asker
<1> QED BY <1>0, <1>1, <1>2, <1>3 DEF GroupByName

\* The management type of a node by its provider ID.
LEMMA GroupCachedSound ==
  ASSUME NEW c, Trusted(c), NEW n \in Machine, NEW o \in GroupCached(c, n)
  PROVE  Trusted(o.c) /\ o.a \in {"error", "avset", "flex"} /\ (o.a = "flex" => n \in Flex)
<1>1. o.c = c /\ (o.a = "error" \/ (n \in c.av \cup c.fx /\ o.a = GroupOf(c, n)))
  BY DEF GroupCached, Answer
<1>2. GroupOf(c, n) = "uniform" => n \notin c.av \cup c.fx
  BY DEF GroupOf
<1> QED BY <1>1, <1>2, GroupOfSound

LEMMA GroupByIDSound ==
  ASSUME Azure, NEW c, Trusted(c), NEW n \in Machine, NEW p \in Asker, NEW o \in GroupByProviderID(c, n, p)
  PROVE  /\ Trusted(o.c)
         /\ o.a \in {"error", "listing", "avset", "flex", "uniform"}
         /\ o.a = "flex" => n \in Flex
         /\ o.a = "uniform" => n \in Uniform
<1>0. p # "nobody"
  BY DEF Asker
<1>1. CASE n \in Uniform
  <2>1. o \in Answer("uniform", c)
    BY <1>1 DEF GroupByProviderID
  <2> QED BY <1>1, <2>1 DEF Answer
<1>2. CASE n \notin Uniform /\ c.list.by = p
  <2>1. o \in GroupCached(Fetched(c, "groups"), n)
    BY <1>0, <1>2 DEF GroupByProviderID
  <2> QED BY <2>1, FetchedGroups, GroupCachedSound
<1>3. CASE n \notin Uniform /\ c.list.by = "nobody" /\ "groups" \in c.loaded
  <2>1. o \in GroupCached(c, n)
    BY <1>0, <1>3 DEF GroupByProviderID
  <2> QED BY <2>1, GroupCachedSound
<1>4. CASE n \notin Uniform /\ c.list.by = "nobody" /\ "groups" \notin c.loaded
  <2>1. o \in ListMachines(c, p, TRUE)
    BY <1>0, <1>4 DEF GroupByProviderID
  <2> QED BY <2>1, ListedSound DEF Asker
<1> QED BY <1>0, <1>1, <1>2, <1>3, <1>4 DEF GroupByProviderID

\* The scale set of a node: a machine that runs is in the scale set that a
\* refresh lists.
LEMMA IdentitySound ==
  ASSUME Azure, NEW c, Trusted(c), NEW n \in Machine, NEW crt, NEW o \in Identity(c, n, crt)
  PROVE  /\ Trusted(o.c)
         /\ o.a \in {"error", "ok", "notfound"}
         /\ o.a = "ok" => n \in Uniform
         /\ o.a = "notfound" /\ n \in Uniform => vm[n] # "running"
         /\ o.a = "notfound" => o.c.slipped = c.slipped
<1>0. "sets" \in Keys
  BY DEF Keys, SharedCache
<1>1. PICK r \in Read(c, "sets", crt) :
        o \in IF ~r.ok THEN Answer("error", r.c)
              ELSE IF r.c.set /\ n \in Uniform THEN Answer("ok", r.c)
              ELSE {[a |-> IF ~f.ok THEN "error" ELSE IF f.c.set /\ n \in Uniform THEN "ok" ELSE "notfound",
                     c |-> f.c] : f \in Read(r.c, "sets", "force")}
  BY DEF Identity
<1>2. Trusted(r.c) /\ (r.ok => r.c.slipped = c.slipped)
  BY <1>0, ReadSound, ReadCases, FetchedSets
<1>3. CASE ~r.ok
  BY <1>1, <1>2, <1>3 DEF Answer
<1>4. CASE r.ok /\ r.c.set /\ n \in Uniform
  BY <1>1, <1>2, <1>4 DEF Answer
<1>5. CASE r.ok /\ ~(r.c.set /\ n \in Uniform)
  <2>1. PICK f \in Read(r.c, "sets", "force") :
          o = [a |-> IF ~f.ok THEN "error" ELSE IF f.c.set /\ n \in Uniform THEN "ok" ELSE "notfound",
               c |-> f.c]
    BY <1>1, <1>5
  <2>2. Trusted(f.c)
    BY <1>0, <1>2, ReadSound
  <2>3. CASE ~f.ok
    BY <2>1, <2>2, <2>3
  <2>4. CASE f.ok
    <3>1. (n \in Uniform /\ vm[n] = "running" => f.c.set) /\ f.c.slipped = c.slipped
      BY <1>0, <1>2, <1>5, <2>4, ForcedRead, FetchedSets
    <3>2. o.a = (IF f.c.set /\ n \in Uniform THEN "ok" ELSE "notfound") /\ o.c = f.c
      BY <2>1, <2>4
    <3> QED BY <2>2, <3>1, <3>2
  <2> QED BY <2>3, <2>4
<1> QED BY <1>3, <1>4, <1>5

\* What a read of the machines of the scale set says of one of them.
LEMMA EntrySound ==
  ASSUME Azure, NEW c, Trusted(c), NEW n \in Uniform, NEW crt, NEW r \in Read(c, "uniform", crt)
  PROVE  /\ Trusted(r.c)
         /\ Entry(r, n) \in {"error", "no", "nil", "vm"}
         /\ Entry(r, n) = "nil" => vm[n] # "running"
         /\ crt = "force" /\ Entry(r, n) = "no" => vm[n] # "running"
<1>0. "uniform" \in Keys
  BY DEF Keys, SharedCache
<1>1. Trusted(r.c)
  BY <1>0, ReadSound
<1>2. CASE ~r.ok
  BY <1>1, <1>2 DEF Entry
<1>3. CASE r.ok
  <2>1. Entry(r, n) = r.c.uniform[n]
    BY <1>3 DEF Entry
  <2>2. Entry(r, n) \in {"no", "nil", "vm"} /\ (Entry(r, n) = "nil" => vm[n] # "running")
    BY <1>1, <2>1 DEF Trusted, Caches, MapSound
  <2>3. crt = "force" /\ Entry(r, n) = "no" => vm[n] # "running"
    BY <1>0, <1>3, <2>1, ForcedRead, FetchedUniform
  <2> QED BY <1>1, <2>2, <2>3
<1> QED BY <1>2, <1>3

LEMMA MachineFirstSound ==
  ASSUME Azure, NEW c, Trusted(c), NEW n \in Uniform, NEW crt, NEW o \in MachineFirst(c, n, crt)
  PROVE  Honest(o, n) /\ o.a \in {"found", "notfound", "locked", "error"}
<1>1. PICK r \in Read(c, "uniform", crt) :
        o = [a |-> CASE Entry(r, n) = "vm" -> "found" [] Entry(r, n) = "nil" -> "notfound"
                     [] Entry(r, n) = "no" -> "locked" [] OTHER -> "error", c |-> r.c]
  BY DEF MachineFirst
<1>2. /\ Trusted(r.c) /\ Entry(r, n) \in {"error", "no", "nil", "vm"}
      /\ Entry(r, n) = "nil" => vm[n] # "running"
  BY EntrySound
<1> QED BY <1>1, <1>2 DEF Honest, Absent

LEMMA MachineLockedSound ==
  ASSUME Azure, NEW c, Trusted(c), NEW n \in Uniform, NEW crt, NEW o \in MachineLocked(c, n, crt)
  PROVE  Honest(o, n) /\ o.a \in {"found", "notfound", "error"}
<1>1. PICK r \in Read(c, "uniform", crt) :
        o \in IF Entry(r, n) = "vm" THEN Answer("found", r.c)
              ELSE {[a |-> CASE Entry(f, n) = "vm" -> "found" [] Entry(f, n) = "error" -> "error"
                             [] OTHER -> "notfound", c |-> f.c] : f \in Read(r.c, "uniform", "force")}
  BY DEF MachineLocked
<1>2. Trusted(r.c)
  BY EntrySound
<1>3. CASE Entry(r, n) = "vm"
  BY <1>1, <1>2, <1>3 DEF Answer, Honest
<1>4. CASE Entry(r, n) # "vm"
  <2>1. PICK f \in Read(r.c, "uniform", "force") :
          o = [a |-> CASE Entry(f, n) = "vm" -> "found" [] Entry(f, n) = "error" -> "error"
                       [] OTHER -> "notfound", c |-> f.c]
    BY <1>1, <1>4
  <2>2. /\ Trusted(f.c) /\ Entry(f, n) \in {"error", "no", "nil", "vm"}
        /\ Entry(f, n) \in {"no", "nil"} => vm[n] # "running"
    BY <1>2, EntrySound
  <2> QED BY <2>1, <2>2 DEF Honest, Absent
<1> QED BY <1>3, <1>4

\* The look-up by instance ID refreshes what is missing before it answers.
LEMMA ByInstanceIDSound ==
  ASSUME Azure, NEW c, Trusted(c), NEW n \in Uniform, NEW o \in ByInstanceID(c, n)
  PROVE  Honest(o, n) /\ o.a \in {"found", "notfound", "error"}
<1> DEFINE Last(f) == IF Entry(f, n) = "nil"
                      THEN {[a |-> CASE Entry(g, n) = "vm" -> "found" [] Entry(g, n) = "error" -> "error"
                                     [] OTHER -> "notfound", c |-> g.c] : g \in Read(f.c, "uniform", "default")}
                      ELSE Answer(CASE Entry(f, n) = "vm" -> "found" [] Entry(f, n) = "error" -> "error"
                                    [] OTHER -> "notfound", f.c)
<1>1. PICK r \in Read(c, "uniform", "unsafe") :
        o \in IF Entry(r, n) = "error" THEN Answer("error", r.c)
              ELSE UNION {Last(f) : f \in IF Entry(r, n) = "no" THEN Read(r.c, "uniform", "force") ELSE {r}}
  BY DEF ByInstanceID
<1>2. /\ Trusted(r.c) /\ Entry(r, n) \in {"error", "no", "nil", "vm"}
      /\ Entry(r, n) = "nil" => vm[n] # "running"
  BY EntrySound
<1>3. CASE Entry(r, n) = "error"
  BY <1>1, <1>2, <1>3 DEF Answer, Honest
<1>4. CASE Entry(r, n) # "error"
  <2> HIDE DEF Last
  <2>1. PICK f \in IF Entry(r, n) = "no" THEN Read(r.c, "uniform", "force") ELSE {r} : o \in Last(f)
    BY <1>1, <1>4
  <2>2. /\ Trusted(f.c) /\ Entry(f, n) \in {"error", "no", "nil", "vm"}
        /\ Entry(f, n) \in {"no", "nil"} => vm[n] # "running"
    <3>1. CASE Entry(r, n) = "no"
      BY <1>2, <2>1, <3>1, EntrySound
    <3>2. CASE Entry(r, n) # "no"
      BY <1>2, <2>1, <3>2
    <3> QED BY <3>1, <3>2
  <2>3. CASE Entry(f, n) = "nil"
    <3>1. PICK g \in Read(f.c, "uniform", "default") :
            o = [a |-> CASE Entry(g, n) = "vm" -> "found" [] Entry(g, n) = "error" -> "error"
                         [] OTHER -> "notfound", c |-> g.c]
      BY <2>1, <2>3 DEF Last
    <3>2. Trusted(g.c) /\ Entry(g, n) \in {"error", "no", "nil", "vm"}
      BY <2>2, EntrySound
    <3> QED BY <2>2, <2>3, <3>1, <3>2 DEF Honest, Absent
  <2>4. CASE Entry(f, n) # "nil"
    <3>1. o = [a |-> CASE Entry(f, n) = "vm" -> "found" [] Entry(f, n) = "error" -> "error"
                       [] OTHER -> "notfound", c |-> f.c]
      BY <2>1, <2>4 DEF Last, Answer
    <3> QED BY <2>2, <2>4, <3>1 DEF Honest, Absent
  <2> QED BY <2>3, <2>4
<1> QED BY <1>3, <1>4

\* The maps of the flexible scale set.
LEMMA FlexKnownSound ==
  ASSUME Azure, NEW c, Trusted(c), NEW n, NEW map, NEW o \in FlexKnown(c, n, map)
  PROVE  Trusted(o.c) /\ o.a \in {"ok", "notfound"}
<1>0. "flex" \in Keys
  BY DEF Keys, SharedCache
<1>1. CASE o = [a |-> "ok", c |-> c]
  BY <1>1
<1>2. ASSUME NEW r \in Read(c, "flex", "force"), o = [a |-> "ok", c |-> r.c]
      PROVE  Trusted(o.c) /\ o.a \in {"ok", "notfound"}
  BY <1>0, <1>2, ReadSound
<1>3. ASSUME NEW r \in Read(c, "flex", "force"), NEW f \in Read(r.c, "flex", "force"),
             o = [a |-> IF n \in f.c[map] THEN "ok" ELSE "notfound", c |-> f.c]
      PROVE  Trusted(o.c) /\ o.a \in {"ok", "notfound"}
  <2>1. Trusted(r.c)
    BY <1>0, ReadSound
  <2>2. Trusted(f.c)
    BY <1>0, <2>1, ReadSound
  <2> QED BY <1>3, <2>2
<1> QED BY <1>1, <1>2, <1>3 DEF FlexKnown, Answer

LEMMA FlexMachineSound ==
  ASSUME Azure, NEW c, Trusted(c), NEW n, NEW crt, NEW o \in FlexMachine(c, n, crt)
  PROVE  Trusted(o.c) /\ o.a \in {"found", "notfound", "error"}
<1>0. "flex" \in Keys
  BY DEF Keys, SharedCache
<1>1. PICK r \in Read(c, "flex", crt) :
        o = [a |-> IF ~r.ok THEN "error" ELSE IF n \in r.c.flex THEN "found" ELSE "notfound", c |-> r.c]
  BY DEF FlexMachine
<1> QED BY <1>0, <1>1, ReadSound

\* A single machine that runs is found or its read fails.
LEMMA SingleMachineSound ==
  ASSUME Azure, NEW c, Trusted(c), NEW n \in AvSet, NEW crt, NEW o \in SingleMachine(c, n, crt)
  PROVE  Honest(o, n) /\ o.a \in {"found", "notfound", "error"}
<1>0. n \in Keys
  BY DEF Keys
<1>1. PICK r \in Read(c, n, crt) :
        o = [a |-> IF ~r.ok THEN "error" ELSE IF n \in r.c.loaded THEN "found" ELSE "notfound", c |-> r.c]
  BY DEF SingleMachine
<1>2. Trusted(r.c)
  BY <1>0, ReadSound
<1>3. r.ok /\ vm[n] = "running" => n \in r.c.loaded
  BY <1>0, ReadCases, FetchedSingle
<1> QED BY <1>1, <1>2, <1>3 DEF Honest, Absent

-----------------------------------------------------------------------------
(* The steps.                                                              *)

Controller == {"node", "lifecycle"}

\* A step takes the node of no machine that runs, those of flexible scale sets
\* aside and those that registered in the middle of a refresh.
NoDenial ==
    \A n \in Uniform \cup AvSet :
        node[n] # "none" /\ node'[n] = "none" => vm[n] # "running" \/ n \in cache'.slipped

LEMMA TrustedStays ==
  ASSUME NEW d, Trusted(d), plan' = plan, vm' = vm, cache' = d
  PROVE  Trusted(cache)'
BY DEF Trusted, MapSound, NodesSound, ListSound

LEMMA WrittenStays ==
  ASSUME Written, UNCHANGED <<vm, deletes, writer>>
  PROVE  Written'
BY DEF Written, MapSound

\* A question moves on.
LEMMA AskMoves ==
  ASSUME Asking, NEW p \in Controller, NEW q \in Question \cup {Quiet}, q.pc # "idle" => AskSound(q),
         asks' = [asks EXCEPT ![p] = q]
  PROVE  Asking'
<1>1. asks' \in [Controller -> Question \cup {Quiet}]
  BY DEF Asking, Controller
<1>2. ASSUME NEW g \in Controller, asks'[g].pc # "idle"
      PROVE  AskSound(asks'[g])
  <2>1. CASE g = p
    BY <1>2, <2>1 DEF Asking, Controller
  <2>2. CASE g # p
    <3>1. asks'[g] = asks[g]
      BY <2>2 DEF Asking, Controller
    <3> QED BY <1>2, <3>1 DEF Asking, Controller
  <2> QED BY <2>1, <2>2
<1> QED BY <1>1, <1>2 DEF Asking, Controller

LEMMA AskingIsTyped ==
  ASSUME Asking, NEW p \in Controller, asks[p].pc # "idle"
  PROVE  asks[p] \in Question /\ AskSound(asks[p])
BY DEF Asking, Controller, Quiet

\* What the controllers do with an honest answer.
LEMMA AnsweredSound ==
  ASSUME Azure, Asking, deletes \subseteq Machine, NEW p \in Controller, asks[p].pc # "idle", NEW a,
         a = "notfound" /\ asks[p].n \in Uniform \cup AvSet => Absent(cache', asks[p].n),
         Answered(p, a), plan' = plan, vm' = vm
  PROVE  Azure' /\ Asking' /\ deletes' \subseteq Machine /\ NoDenial
<1> DEFINE q == asks[p]
           gone == q.op \in {"provider", "exists"} /\ a = "notfound" /\ node[q.n] # "none"
           now == CASE gone -> "none"
                    [] q.op = "zone" /\ a = "found" /\ node[q.n] = "new" -> "ready"
                    [] OTHER -> node[q.n]
           next == IF q.op \in MetadataPart /\ a = "found" /\ q.op # "zone"
                   THEN [q EXCEPT !.pc = "group", !.op = NextPart(q.op)]
                   ELSE IF q.op \in {"provider", "exists"} /\ a = "found"
                   THEN [q EXCEPT !.pc = "name", !.op = IF q.op = "provider" THEN "exists" ELSE "shutdown"]
                   ELSE Quiet
<1>1. /\ node' = [node EXCEPT ![q.n] = now]
      /\ deletes' = IF gone THEN deletes \cup {q.n} ELSE deletes
      /\ asks' = [asks EXCEPT ![p] = next]
  BY DEF Answered
<1>2. q \in Question
  BY AskingIsTyped
<1>3. q.n \in Machine
  BY <1>2 DEF Question
<1>4. next \in Question \cup {Quiet} /\ next.pc \in {"idle", "group", "name"}
  <2> HIDE DEF q
  <2>1. NextPart(q.op) \in MetadataPart
    BY DEF NextPart, MetadataPart
  <2>2. [q EXCEPT !.pc = "group", !.op = NextPart(q.op)] \in Question
    BY <1>2, <2>1 DEF Question
  <2>3. \A op \in {"exists", "shutdown"} : [q EXCEPT !.pc = "name", !.op = op] \in Question
    BY <1>2 DEF Question
  <2>4. /\ [q EXCEPT !.pc = "group", !.op = NextPart(q.op)].pc = "group"
        /\ \A op \in {"exists", "shutdown"} : [q EXCEPT !.pc = "name", !.op = op].pc = "name"
    BY <1>2 DEF Question
  <2> QED BY <2>2, <2>3, <2>4 DEF Quiet
<1>5. AskSound(next)
  BY <1>4 DEF AskSound
<1>6. Asking'
  <2> HIDE DEF next
  <2> QED BY <1>1, <1>4, <1>5, AskMoves
<1>7. now \in {"none", "new", "ready"} /\ (node[q.n] = "none" => now = "none")
      /\ (now = "none" /\ node[q.n] # "none" => gone)
  BY <1>3 DEF Azure
<1>8. deletes' \subseteq Machine
  BY <1>1, <1>3
<1>9. Azure' /\ NoDenial
  <2>1. gone => a = "notfound"
    OBVIOUS
  <2> HIDE DEF q, gone, now
  <2>2. node' \in [Machine -> {"none", "new", "ready"}]
    BY <1>1, <1>3, <1>7 DEF Azure
  <2>3. \A n \in Machine : node'[n] = IF n = q.n THEN now ELSE node[n]
    BY <1>1, <1>3 DEF Azure
  <2>4. Azure'
    BY <1>7, <2>2, <2>3 DEF Azure
  <2>5. NoDenial
    BY <1>7, <2>1, <2>3 DEF NoDenial, Absent, Machine, q
  <2> QED BY <2>4, <2>5
<1> QED BY <1>6, <1>8, <1>9

\* A step of a question whose look-ups are honest.
LEMMA StepSound ==
  ASSUME MachinesInv, NEW p \in Controller, asks[p].pc # "idle", NEW outcomes, NEW next,
         Step(p, outcomes, next),
         \A o \in outcomes : Honest(o, asks[p].n),
         \A o \in outcomes : o.a \in DOMAIN next =>
             \/ next[o.a] \in {"name", "group"}
             \/ next[o.a] = "avset" /\ asks[p].n \in AvSet
             \/ next[o.a] \in {"flex", "flexvm"} /\ asks[p].n \in Flex
             \/ next[o.a] \in {"first", "locked"} /\ asks[p].n \in Uniform
  PROVE  MachinesInv' /\ NoDenial
<1> USE DEF MachinesInv
<1>1. PICK o \in outcomes :
        /\ cache' = o.c
        /\ IF o.a \in DOMAIN next
           THEN asks' = [asks EXCEPT ![p].pc = next[o.a]] /\ UNCHANGED <<node, deletes>>
           ELSE Answered(p, o.a)
  BY DEF Step
<1>2. UNCHANGED <<plan, vm, round, writer, living>>
  BY DEF Step
<1>3. Trusted(cache)'
  BY <1>1, <1>2, TrustedStays DEF Honest
<1>4. CASE o.a \in DOMAIN next
  <2> DEFINE pc == next[o.a]
             q == [asks[p] EXCEPT !.pc = pc]
  <2>1. asks[p] \in Question
    BY AskingIsTyped
  <2>2. asks' = [asks EXCEPT ![p] = q]
    BY <1>1, <1>4
  <2>3. pc \in {"name", "group", "avset", "flex", "flexvm", "first", "locked"}
    BY <1>4
  <2> HIDE DEF pc
  <2>4. q \in Question /\ q.pc = pc /\ q.n = asks[p].n
    BY <2>1, <2>3 DEF Question
  <2>5. AskSound(q)
    BY <1>4, <2>4 DEF AskSound, pc
  <2> HIDE DEF q
  <2>6. Asking'
    BY <2>2, <2>4, <2>5, AskMoves
  <2>7. Azure' /\ Written' /\ NoDenial
    BY <1>1, <1>2, <1>4 DEF Azure, Written, MapSound, NoDenial
  <2> QED BY <1>3, <2>6, <2>7
<1>5. CASE o.a \notin DOMAIN next
  <2>1. Azure' /\ Asking' /\ deletes' \subseteq Machine /\ NoDenial
    BY <1>1, <1>2, <1>5, AnsweredSound DEF Honest, Written
  <2>2. Written'
    BY <1>2, <2>1 DEF Written, MapSound
  <2> QED BY <1>3, <2>1, <2>2
<1> QED BY <1>4, <1>5

LEMMA NodeNameSound ==
  ASSUME MachinesInv, NEW p \in Controller, NodeName(p)
  PROVE  MachinesInv' /\ NoDenial
<1> DEFINE n == asks[p].n
           Named(g) == CASE g.a = "uniform" -> ByInstanceID(g.c, n)
                         [] g.a = "flex" -> FlexNodeName(g.c, n)
                         [] OTHER -> {g}
           outcomes == UNION {Named(g) : g \in GroupByProviderID(cache, n, p)}
           next == [a \in {"found", "ok", "avset", "listing"} |-> IF a = "listing" THEN "name" ELSE "group"]
<1>1. asks[p].pc = "name" /\ Step(p, outcomes, next)
  BY DEF NodeName
<1>2. n \in Machine
  BY <1>1, AskingIsTyped DEF MachinesInv, Question
<1>3. ASSUME NEW o \in outcomes
      PROVE  Honest(o, n)
  <2> HIDE DEF n, next
  <2>1. PICK g \in GroupByProviderID(cache, n, p) : o \in Named(g)
    OBVIOUS
  <2>2. /\ Trusted(g.c) /\ g.a \in {"error", "listing", "avset", "flex", "uniform"}
        /\ g.a = "flex" => n \in Flex
        /\ g.a = "uniform" => n \in Uniform
    BY <1>2, GroupByIDSound DEF MachinesInv, Asker, Controller
  <2>3. CASE g.a = "uniform"
    <3>1. o \in ByInstanceID(g.c, n)
      BY <2>1, <2>3
    <3> QED BY <2>2, <2>3, <3>1, ByInstanceIDSound DEF MachinesInv
  <2>4. CASE g.a = "flex"
    <3>1. o \in FlexKnown(g.c, n, "names")
      BY <2>1, <2>4 DEF FlexNodeName
    <3>2. Trusted(o.c)
      BY <2>2, <3>1, FlexKnownSound DEF MachinesInv
    <3> QED BY <2>2, <2>4, <3>2, MachinesAssumption DEF Honest
  <2>5. CASE g.a \in {"error", "listing", "avset"}
    <3>1. o = g
      BY <2>1, <2>5
    <3> QED BY <2>2, <2>5, <3>1 DEF Honest
  <2> QED BY <2>2, <2>3, <2>4, <2>5
<1>4. \A a \in DOMAIN next : next[a] \in {"name", "group"}
  OBVIOUS
<1> HIDE DEF outcomes, next
<1> QED BY <1>1, <1>3, <1>4, StepSound

LEMMA GroupKeeps ==
  ASSUME MachinesInv, NEW p \in Controller, Group(p)
  PROVE  MachinesInv' /\ NoDenial
<1> DEFINE n == asks[p].n
           Found(g) == IF g.a = "uniform" THEN Identity(g.c, n, ReadType(asks[p].op)) ELSE {g}
           outcomes == UNION {Found(g) : g \in GroupByName(cache, n, p)}
           next == [g \in {"ok", "flex", "avset", "listing"} |->
                      CASE g = "ok" -> "first" [] g = "listing" -> "group" [] OTHER -> g]
<1>1. asks[p].pc = "group" /\ Step(p, outcomes, next)
  BY DEF Group
<1>2. n \in Machine
  BY <1>1, AskingIsTyped DEF MachinesInv, Question
<1>3. ASSUME NEW o \in outcomes
      PROVE  /\ Honest(o, n)
             /\ o.a = "ok" => n \in Uniform
             /\ o.a = "flex" => n \in Flex
             /\ o.a = "avset" => n \in AvSet
  <2> HIDE DEF n, next
  <2>1. PICK g \in GroupByName(cache, n, p) : o \in Found(g)
    OBVIOUS
  <2>2. GroupSound(g, n)
    BY <1>2, GroupByNameSound DEF MachinesInv, Asker, Controller
  <2>3. CASE g.a = "uniform"
    <3>1. o \in Identity(g.c, n, ReadType(asks[p].op))
      BY <2>1, <2>3
    <3>2. /\ Trusted(o.c) /\ o.a \in {"error", "ok", "notfound"} /\ (o.a = "ok" => n \in Uniform)
          /\ o.a = "notfound" /\ n \in Uniform => vm[n] # "running"
          /\ o.a = "notfound" => o.c.slipped = g.c.slipped
      BY <1>2, <2>2, <3>1, IdentitySound DEF MachinesInv, GroupSound
    <3> QED BY <2>2, <2>3, <3>2 DEF Honest, GroupSound, Absent
  <2>4. CASE g.a # "uniform"
    <3>1. o = g
      BY <2>1, <2>4
    <3> QED BY <2>2, <2>4, <3>1 DEF Honest, GroupSound
  <2> QED BY <2>3, <2>4
<1>4. /\ DOMAIN next = {"ok", "flex", "avset", "listing"} /\ next["ok"] = "first" /\ next["flex"] = "flex"
      /\ next["avset"] = "avset" /\ next["listing"] = "group"
  OBVIOUS
<1> HIDE DEF outcomes, next
<1> QED BY <1>1, <1>3, <1>4, StepSound

LEMMA MachineAsked ==
  ASSUME MachinesInv, NEW p \in Controller,
         OfAvSet(p) \/ OfFlexID(p) \/ OfFlex(p) \/ OfUniform(p) \/ OfUniformLocked(p)
  PROVE  MachinesInv' /\ NoDenial
<1> DEFINE n == asks[p].n
           crt == ReadType(asks[p].op)
<1>0. asks[p].pc \in {"avset", "flex", "flexvm", "first", "locked"} /\ AskSound(asks[p])
  BY AskingIsTyped DEF MachinesInv, OfAvSet, OfFlexID, OfFlex, OfUniform, OfUniformLocked
<1>1. DOMAIN <<>> = {}
  OBVIOUS
<1>2. CASE OfAvSet(p)
  <2>1. n \in AvSet /\ Step(p, SingleMachine(cache, n, crt), <<>>)
    BY <1>0, <1>2 DEF OfAvSet, AskSound
  <2>2. \A o \in SingleMachine(cache, n, crt) : Honest(o, n)
    BY <2>1, SingleMachineSound DEF MachinesInv
  <2> HIDE DEF crt
  <2> QED BY <1>0, <1>1, <2>1, <2>2, StepSound
<1>3. CASE OfFlexID(p)
  <2> DEFINE next == [a \in {"ok"} |-> "flexvm"]
  <2>1. n \in Flex /\ Step(p, FlexKnown(cache, n, "ids"), next)
    BY <1>0, <1>3 DEF OfFlexID, AskSound, FlexID
  <2>2. \A o \in FlexKnown(cache, n, "ids") : Honest(o, n)
    BY <2>1, FlexKnownSound, MachinesAssumption DEF MachinesInv, Honest
  <2>3. \A a \in DOMAIN next : next[a] = "flexvm"
    OBVIOUS
  <2> HIDE DEF next
  <2> QED BY <1>0, <2>1, <2>2, <2>3, StepSound
<1>4. CASE OfFlex(p)
  <2>1. n \in Flex /\ Step(p, FlexMachine(cache, n, crt), <<>>)
    BY <1>0, <1>4 DEF OfFlex, AskSound
  <2>2. \A o \in FlexMachine(cache, n, crt) : Honest(o, n)
    BY <2>1, FlexMachineSound, MachinesAssumption DEF MachinesInv, Honest
  <2> HIDE DEF crt
  <2> QED BY <1>0, <1>1, <2>1, <2>2, StepSound
<1>5. CASE OfUniform(p)
  <2> DEFINE next == [a \in {"locked"} |-> "locked"]
  <2>1. n \in Uniform /\ Step(p, MachineFirst(cache, n, crt), next)
    BY <1>0, <1>5 DEF OfUniform, AskSound
  <2>2. \A o \in MachineFirst(cache, n, crt) : Honest(o, n)
    BY <2>1, MachineFirstSound DEF MachinesInv
  <2>3. \A a \in DOMAIN next : next[a] = "locked"
    OBVIOUS
  <2> HIDE DEF next, crt
  <2> QED BY <1>0, <2>1, <2>2, <2>3, StepSound
<1>6. CASE OfUniformLocked(p)
  <2>1. n \in Uniform /\ Step(p, MachineLocked(cache, n, crt), <<>>)
    BY <1>0, <1>6 DEF OfUniformLocked, AskSound
  <2>2. \A o \in MachineLocked(cache, n, crt) : Honest(o, n)
    BY <2>1, MachineLockedSound DEF MachinesInv
  <2> HIDE DEF crt
  <2> QED BY <1>0, <1>1, <2>1, <2>2, StepSound
<1> QED BY <1>2, <1>3, <1>4, <1>5, <1>6

\* Azure, the kubelets and the time that passes.
LEMMA MachineStepKeeps ==
  ASSUME MachinesInv, NEW n \in Machine, MachineStep(n)
  PROVE  MachinesInv' /\ NoDenial
<1> USE DEF MachinesInv
<1>1. /\ vm' = [vm EXCEPT ![n] = vm'[n]]
      /\ \/ vm[n] = "none" /\ vm'[n] = "creating"
         \/ vm[n] = "creating" /\ vm'[n] = "running"
         \/ vm[n] = "running" /\ vm'[n] = "deleting"
         \/ vm[n] = "deleting" /\ vm'[n] = "gone"
  BY DEF MachineStep, Azure
<1>2. UNCHANGED <<plan, node, cache, asks, round, deletes, writer, living>>
  BY DEF MachineStep
<1>3. \A m \in Machine : m # n => vm'[m] = vm[m]
  BY <1>1 DEF Azure
<1>4. Azure' /\ NoDenial
  BY <1>1, <1>2, <1>3 DEF Azure, Lived, NoDenial
<1>5. \A map : MapSound(map) => MapSound(map)'
  BY <1>1, <1>3 DEF MapSound, Machine
<1>6. NodesSound(cache)' /\ ListSound(cache)'
  BY <1>1, <1>2, <1>3 DEF NodesSound, ListSound, Lived, Trusted, Caches, Lists
<1>7. Trusted(cache)'
  BY <1>2, <1>5, <1>6 DEF Trusted
<1>8. Written'
  BY <1>2, <1>5 DEF Written
<1>9. Asking'
  BY <1>2 DEF Asking
<1> QED BY <1>4, <1>7, <1>8, <1>9

LEMMA RegisterKeeps ==
  ASSUME MachinesInv, NEW n \in Machine, Register(n)
  PROVE  MachinesInv' /\ NoDenial
<1> USE DEF MachinesInv, Register
<1>1. Azure' /\ NoDenial
  BY DEF Azure, Lived, NoDenial, Machine
<1>2. Trusted(cache)' /\ Asking' /\ Written'
  BY TrustedStays DEF Asking, Written, MapSound
<1> QED BY <1>1, <1>2

LEMMA ExpireKeeps ==
  ASSUME MachinesInv, NEW c \in Ages, Expire(c)
  PROVE  MachinesInv' /\ NoDenial
<1> USE DEF MachinesInv, Expire
<1>1. Trusted([cache EXCEPT !.aged = @ \cup {c}])
  BY DEF Trusted, Caches, NodesSound, ListSound
<1>2. Trusted(cache)'
  BY <1>1, TrustedStays
<1> QED BY <1>2 DEF Azure, Asking, Written, MapSound, NoDenial

\* A question begins.
LEMMA AskKeeps ==
  ASSUME MachinesInv, NEW n \in Machine, AskMetadata(n) \/ AskExists(n)
  PROVE  MachinesInv' /\ NoDenial
<1>1. PICK p \in Controller, op \in MetadataPart \cup {"provider", "exists"} : Ask(p, op, n)
  BY DEF AskMetadata, AskExists, Controller, MetadataPart
<1> DEFINE q == [pc |-> IF op = "exists" THEN "name" ELSE "group", op |-> op, n |-> n]
<1>2. q \in Question /\ q.pc \in {"name", "group"} /\ asks' = [asks EXCEPT ![p] = q]
  BY <1>1 DEF Ask, Question
<1>3. AskSound(q)
  BY <1>2 DEF AskSound
<1> HIDE DEF q
<1>4. Asking'
  BY <1>2, <1>3, AskMoves DEF MachinesInv
<1>5. UNCHANGED <<plan, vm, node, cache, deletes, writer, living>>
  BY <1>1 DEF Ask
<1>6. Trusted(cache)'
  BY <1>5, TrustedStays DEF MachinesInv
<1> QED BY <1>4, <1>5, <1>6 DEF MachinesInv, Azure, Written, MapSound, NoDenial

\* DeleteCacheForNode takes a map that can be trusted.
LEMMA BeginDeleteSound ==
  ASSUME MachinesInv, NEW n \in Machine, BeginDelete(n), plan' = plan, vm' = vm
  PROVE  /\ Trusted(cache)'
         /\ writer' \in Holding \cup {Quiet}
         /\ writer'.pc = "hold" /\ writer'.key = "uniform" => MapSound(writer'.map)
<1> USE DEF MachinesInv
<1>1. PICK g \in GroupByName(cache, n, "writer") : BeginDelete(n)!(g)
  BY DEF BeginDelete
<1>2. GroupSound(g, n)
  BY GroupByNameSound DEF Asker
<1>7. CASE g.a = "listing"
  <2>1. cache' = g.c /\ writer' = [pc |-> "listing", n |-> n]
    BY <1>1, <1>7
  <2>2. writer' \in Holding /\ writer'.pc = "listing"
    BY <2>1 DEF Holding
  <2> QED BY <1>2, <2>1, <2>2, TrustedStays DEF GroupSound
<1>3. CASE g.a = "avset"
  <2>1. cache' = [g.c EXCEPT !.loaded = @ \ {n}, !.aged = @ \ {n}] /\ writer' = Quiet
    BY <1>1, <1>3
  <2>2. Trusted([g.c EXCEPT !.loaded = @ \ {n}, !.aged = @ \ {n}])
    BY <1>2 DEF GroupSound, Trusted, Caches, NodesSound, ListSound
  <2> QED BY <2>1, <2>2, TrustedStays DEF Quiet
<1>4. CASE g.a = "flex"
  <2>1. PICK i \in FlexID(g.c, n) :
          \E r \in IF i.a = "ok" THEN Read(i.c, "flex", "default") ELSE {[ok |-> FALSE, c |-> i.c]} :
             IF r.ok THEN /\ cache' = [r.c EXCEPT !.held = "flex"]
                          /\ writer' = [pc |-> "hold", n |-> n, key |-> "flex", map |-> r.c.flex]
             ELSE cache' = r.c /\ writer' = Quiet
    BY <1>1, <1>4
  <2>2. PICK r \in IF i.a = "ok" THEN Read(i.c, "flex", "default") ELSE {[ok |-> FALSE, c |-> i.c]} :
             IF r.ok THEN /\ cache' = [r.c EXCEPT !.held = "flex"]
                          /\ writer' = [pc |-> "hold", n |-> n, key |-> "flex", map |-> r.c.flex]
             ELSE cache' = r.c /\ writer' = Quiet
    BY <2>1
  <2>3. Trusted(i.c)
    BY <1>2, <2>1, FlexKnownSound DEF GroupSound, FlexID
  <2>4. Trusted(r.c)
    <3>1. CASE i.a = "ok"
      BY <2>2, <2>3, <3>1, ReadSound DEF Keys, SharedCache
    <3>2. CASE i.a # "ok"
      BY <2>2, <2>3, <3>2
    <3> QED BY <3>1, <3>2
  <2>5. CASE r.ok
    <3>1. Trusted([r.c EXCEPT !.held = "flex"]) /\ r.c.flex \in SUBSET Flex
      BY <2>4 DEF Trusted, Caches, NodesSound, ListSound
    <3>2. Trusted(cache)'
      BY <2>2, <2>5, <3>1, TrustedStays
    <3>3. writer' \in Holding /\ writer'.key = "flex"
      BY <1>2, <1>4, <2>2, <2>5, <3>1 DEF GroupSound, Holding
    <3> QED BY <3>2, <3>3
  <2>6. CASE ~r.ok
    BY <2>2, <2>4, <2>6, TrustedStays DEF Quiet
  <2> QED BY <2>5, <2>6
<1>5. CASE g.a = "uniform"
  <2>1. PICK i \in Identity(g.c, n, "unsafe") :
          \E r \in IF i.a = "ok" THEN Read(i.c, "uniform", "unsafe") ELSE {[ok |-> FALSE, c |-> i.c]} :
             IF r.ok THEN /\ cache' = [r.c EXCEPT !.held = "uniform"]
                          /\ writer' = [pc |-> "hold", n |-> n, key |-> "uniform", map |-> r.c.uniform]
             ELSE cache' = r.c /\ writer' = Quiet
    BY <1>1, <1>5
  <2>2. PICK r \in IF i.a = "ok" THEN Read(i.c, "uniform", "unsafe") ELSE {[ok |-> FALSE, c |-> i.c]} :
             IF r.ok THEN /\ cache' = [r.c EXCEPT !.held = "uniform"]
                          /\ writer' = [pc |-> "hold", n |-> n, key |-> "uniform", map |-> r.c.uniform]
             ELSE cache' = r.c /\ writer' = Quiet
    BY <2>1
  <2>3. Trusted(i.c) /\ (i.a = "ok" => n \in Uniform)
    BY <1>2, <2>1, IdentitySound DEF GroupSound
  <2>4. Trusted(r.c) /\ (r.ok => n \in Uniform)
    <3>1. CASE i.a = "ok"
      BY <2>2, <2>3, <3>1, ReadSound DEF Keys, SharedCache
    <3>2. CASE i.a # "ok"
      BY <2>2, <2>3, <3>2
    <3> QED BY <3>1, <3>2
  <2>5. CASE r.ok
    <3>1. /\ Trusted([r.c EXCEPT !.held = "uniform"]) /\ r.c.uniform \in [Uniform -> {"no", "nil", "vm"}]
          /\ MapSound(r.c.uniform)
      BY <2>4 DEF Trusted, Caches, NodesSound, ListSound
    <3>2. Trusted(cache)'
      BY <2>2, <2>5, <3>1, TrustedStays
    <3>3. writer' \in Holding /\ writer'.map = r.c.uniform
      BY <2>2, <2>4, <2>5, <3>1 DEF Holding
    <3> QED BY <3>1, <3>2, <3>3
  <2>6. CASE ~r.ok
    BY <2>2, <2>4, <2>6, TrustedStays DEF Quiet
  <2> QED BY <2>5, <2>6
<1>6. CASE g.a = "error"
  BY <1>1, <1>2, <1>6, TrustedStays DEF GroupSound, Quiet
<1> QED BY <1>2, <1>3, <1>4, <1>5, <1>6, <1>7 DEF GroupSound

LEMMA DeleteKeeps ==
  ASSUME MachinesInv, NEW n \in Machine, DeletedEvent(n) \/ DeleteLiving(n) \/ (DeleteListed /\ n = writer.n)
  PROVE  MachinesInv' /\ NoDenial
<1>1. /\ BeginDelete(n) /\ UNCHANGED <<plan, vm, node, asks, round>>
      /\ deletes' \subseteq deletes
  BY DEF DeletedEvent, DeleteLiving, DeleteListed
<1>2. /\ Trusted(cache)' /\ writer' \in Holding \cup {Quiet}
      /\ writer'.pc = "hold" /\ writer'.key = "uniform" => MapSound(writer'.map)
  BY <1>1, BeginDeleteSound
<1>3. Written'
  BY <1>1, <1>2 DEF MachinesInv, Written, MapSound
<1> QED BY <1>1, <1>2, <1>3 DEF MachinesInv, Azure, Asking, NoDenial

\* The map that is put back can be trusted without its node, too.
LEMMA PutBackKeeps ==
  ASSUME MachinesInv, PutBack
  PROVE  MachinesInv' /\ NoDenial
<1> USE DEF MachinesInv
<1>1. UNCHANGED <<plan, vm, node, asks, round, deletes, living>>
  BY DEF PutBack
<1>2. writer \in Holding /\ writer.pc = "hold"
  <2>1. Quiet.pc = "idle"
    BY DEF Quiet
  <2>2. writer.pc = "hold" /\ writer \in Holding \cup {Quiet}
    BY DEF PutBack, Written
  <2> QED BY <2>1, <2>2
<1>3. CASE writer.key = "uniform"
  <2> DEFINE old == IF cache.held = "uniform" THEN cache.uniform ELSE writer.map
             map == [old EXCEPT ![writer.n] = "no"]
  <2>1. /\ cache' = [cache EXCEPT !.uniform = map, !.aged = @ \ {"uniform"},
                                  !.loaded = @ \cup {"uniform"}, !.held = "none"]
        /\ writer' = Quiet
    BY <1>3 DEF PutBack, Without
  <2>2. old \in [Uniform -> {"no", "nil", "vm"}] /\ MapSound(old) /\ writer.n \in Uniform
    BY <1>2, <1>3 DEF Written, Holding, Trusted, Caches
  <2> HIDE DEF old
  <2>3. map \in [Uniform -> {"no", "nil", "vm"}] /\ MapSound(map)
    BY <2>2 DEF MapSound
  <2> HIDE DEF map
  <2>4. Trusted([cache EXCEPT !.uniform = map, !.aged = @ \ {"uniform"},
                              !.loaded = @ \cup {"uniform"}, !.held = "none"])
    BY <2>3 DEF Trusted, Caches, NodesSound, ListSound, Keys, SharedCache
  <2>5. Trusted(cache)'
    BY <1>1, <2>1, <2>4, TrustedStays
  <2> QED BY <1>1, <2>1, <2>5 DEF Azure, Asking, Written, NoDenial, Quiet
<1>4. CASE writer.key = "flex"
  <2> DEFINE map == (IF cache.held = "flex" THEN cache.flex ELSE writer.map) \ {writer.n}
  <2>1. /\ cache' = [cache EXCEPT !.flex = map, !.aged = @ \ {"flex"},
                                  !.loaded = @ \cup {"flex"}, !.held = "none"]
        /\ writer' = [pc |-> "unname", n |-> writer.n]
    BY <1>4 DEF PutBack, Without
  <2>2. map \in SUBSET Flex /\ writer.n \in Flex
    BY <1>2, <1>4 DEF Holding, Trusted, Caches
  <2> HIDE DEF map
  <2>3. Trusted([cache EXCEPT !.flex = map, !.aged = @ \ {"flex"},
                              !.loaded = @ \cup {"flex"}, !.held = "none"])
    BY <2>2 DEF Trusted, Caches, NodesSound, ListSound, Keys, SharedCache
  <2>4. Trusted(cache)'
    BY <1>1, <2>1, <2>3, TrustedStays
  <2>5. writer' \in Holding /\ writer'.pc = "unname"
    BY <2>1, <2>2 DEF Holding
  <2> QED BY <1>1, <2>4, <2>5 DEF Azure, Asking, Written, NoDenial
<1> QED BY <1>2, <1>3, <1>4 DEF Holding

LEMMA UnnameKeeps ==
  ASSUME MachinesInv, Unname
  PROVE  MachinesInv' /\ NoDenial
<1> USE DEF MachinesInv, Unname
<1>1. Trusted([cache EXCEPT !.ids = @ \ {writer.n}])
  BY DEF Trusted, Caches, NodesSound, ListSound
<1>2. Trusted(cache)'
  BY <1>1, TrustedStays
<1> QED BY <1>2 DEF Azure, Asking, Written, NoDenial, Quiet

LEMMA MachinesInitially ==
  ASSUME MInit
  PROVE  MachinesInv
<1> USE DEF MInit
<1>1. Azure
  BY MachinesAssumption DEF Azure, Lived
<1>2. CachesInit \in Caches
  BY MachinesAssumption DEF CachesInit, Caches, Keys, NoList, Lists
<1>3. /\ CachesInit.aged = {} /\ CachesInit.nodes = {} /\ CachesInit.faults = plan.faults
      /\ CachesInit.uniform = [n \in Uniform |-> "no"] /\ CachesInit.loaded = {} /\ CachesInit.list.nodes = {}
  BY DEF CachesInit, NoList
<1>4. Trusted(cache)
  BY <1>2, <1>3, MachinesAssumption DEF Trusted, MapSound, NodesSound, ListSound
<1>5. Asking /\ Written
  BY DEF Asking, Written, Quiet
<1> QED BY <1>1, <1>4, <1>5 DEF MachinesInv

LEMMA MachinesInductive ==
  ASSUME MachinesInv, [MNext]_mvars
  PROVE  MachinesInv' /\ (MNext => NoDenial)
<1>1. CASE UNCHANGED mvars
  BY <1>1, TrustedStays DEF mvars, MachinesInv, Azure, Asking, Written, MapSound, NoDenial
<1>3. DeleteListed => writer.n \in Machine
  BY MachinesAssumption DEF MachinesInv, Written, Holding, DeleteListed, Machine, Quiet
<1>2. CASE MNext
  BY <1>2, <1>3, NodeNameSound, GroupKeeps, MachineAsked, MachineStepKeeps, RegisterKeeps, ExpireKeeps, AskKeeps,
     DeleteKeeps, PutBackKeeps, UnnameKeeps DEF MNext, MStep, Controller
<1> QED BY <1>1, <1>2

\* For any machines, failures, ages and orders of the caches' reads: no answer
\* built from caches that are stale, half-filled or put back has the node of a
\* running machine of a scale set or an availability set deleted, unless the
\* node of the latter registered between the list of machines and the list of
\* nodes of the refresh the answer rests on.
THEOREM RunningIsNotDenied == MSpec => RunningNotDenied
<1>1. MInit => MachinesInv
  BY MachinesInitially
<1>2. MachinesInv /\ [MNext]_mvars => MachinesInv'
  BY MachinesInductive
<1>3. MachinesInv => MTypeOK
  BY MachinesAssumption DEF MachinesInv, MTypeOK, Azure, Lived, Trusted, Caches, Lists, Keys
<1>4. MachinesInv /\ [MNext]_mvars =>
        [\A n \in Uniform \cup AvSet :
            node[n] # "none" /\ node'[n] = "none" => vm[n] # "running" \/ n \in cache'.slipped]_mvars
  BY MachinesInductive DEF NoDenial
<1> QED BY <1>1, <1>2, <1>3, <1>4, PTL DEF MSpec, RunningNotDenied
=============================================================================
