----------------------------- MODULE ArmClients -----------------------------
(***************************************************************************)
(* The Azure clients: pkg/azureclients/<x>client over                      *)
(* pkg/azureclients/armclient, with the errors and the backoff of          *)
(* pkg/retry.                                                              *)
(*                                                                         *)
(* Every client guards an operation the same way: a token of its reader or *)
(* writer limiter, the RetryAfter field of that kind, then the request; an *)
(* answer that throttles is written back to the field.  Operation records  *)
(* say which limiter, which field and which kind of request each operation *)
(* of each client really uses; they differ where the code differs.         *)
(*                                                                         *)
(* Calls are goroutines that share one client.  A request is sent with     *)
(* backoff; a GET may be repeated on the regional host; a list asks for    *)
(* page after page; a PUT, PATCH or DELETE waits for a future.  Names,     *)
(* bodies and identifiers are left out.  Azure answers anything.           *)
(***************************************************************************)
EXTENDS Integers, FiniteSets

CONSTANTS
    Calls,          \* goroutines that share the client, each making call after call
    Steps,          \* Backoff.Steps
    Duration,       \* Backoff.Duration, Factor is 2
    Cap,            \* Backoff.Cap, 0 for none
    RetriableHTTPStatusCodes,  \* of the backoff of this client
    NonRetriableErrors,        \* of the backoff of this client
    MaxPages,       \* bound on the pages of a list
    Bucket,         \* size of the token buckets
    MaxDelay,       \* bound on a Retry-After header
    MaxTime         \* bound on the clock

\* The provider sets Steps to 1 without backoff and to the configured number,
\* or the default, with it (azure.go).
ASSUME ArmAssumption ==
    /\ Steps \in Nat \ {0} /\ Duration \in Nat /\ Cap \in Nat
    /\ MaxPages \in Nat \ {0} /\ Bucket \in Nat /\ MaxDelay \in Nat
    /\ MaxTime \in Nat \ {0}

VARIABLES
    now,            \* the clock
    tokens,         \* tokens of the reader and the writer limiter
    retryAfter,     \* RetryAfterReader, RetryAfterWriter
    call            \* what each goroutine is doing

vars == <<now, tokens, retryAfter, call>>

Kinds == {"Reader", "Writer"}

(***************************************************************************)
(* Answers.  Code -1 is no response at all (retry.getHTTPStatusCode).      *)
(***************************************************************************)

Answer(code, after, msg) == [code |-> code, after |-> after, msg |-> msg]

\* What Azure may answer, one answer of each class the code tells apart.
Answers ==
    {Answer(200, 0, "body"), Answer(200, 0, "empty"), Answer(404, 0, "NotFound"),
     Answer(409, 0, "ResourceGroupNotFound"), Answer(409, 0, "NotActive"),
     Answer(500, 0, "Failed"), Answer(-1, 0, "none")}
      \cup {Answer(429, d, "TooManyRequests") : d \in 0..MaxDelay}
      \cup {Answer(503, MaxDelay, "Unavailable")}

StatusCodesForRetry == {408, 500, 502, 503, 504}

IsSuccessHTTPResponse(a) == a.code \in 200..299

NoError == [retriable |-> FALSE, code |-> 0, after |-> 0, nil |-> TRUE]

NewError(retriable, code, after) ==
    [retriable |-> retriable, code |-> code, after |-> after, nil |-> FALSE]

shouldRetryHTTPRequest(a, err) ==
    \/ a.code = -1 /\ err
    \/ a.code \in StatusCodesForRetry
    \/ IsSuccessHTTPResponse(a) /\ err

\* The error made of an answer and of whether an error came with it.
GetError(a, err) ==
    IF IsSuccessHTTPResponse(a) /\ ~err
      THEN NoError
      ELSE NewError(shouldRetryHTTPRequest(a, err), a.code,
                    IF a.after = 0 THEN 0 ELSE now + a.after)

IsThrottled(e) == ~e.nil /\ (e.code = 429 \/ e.after > now)

\* Send: an answer that is not a success comes with its raw error.
SendError(a) == GetError(a, ~IsSuccessHTTPResponse(a))

(***************************************************************************)
(* Operations of the clients                                               *)
(***************************************************************************)

(***************************************************************************)
(* The functions of armclient.  host is the host asked first ("global" is  *)
(* retried on the regional host, "sdk" is the storage SDK, "future" sends  *)
(* nothing and waits); decodes is what is made of a successful answer; and *)
(* waits is how the future is waited for, which decides the error of a     *)
(* wait that fails: "result", "completion" or "final" make an error of     *)
(* package retry of it, "raw" hands it on as it is.                        *)
(***************************************************************************)

Sending(host, decodes, waits) == [host |-> host, decodes |-> decodes, waits |-> waits]

GetResource        == Sending("global", "body", "no")
PutResourceAsync   == Sending("plain", "body", "no")
PatchResourceAsync == Sending("plain", "body", "no")
PostResource       == Sending("plain", "body", "no")
PutResource        == [PutResourceAsync EXCEPT !.waits = "result"]
PatchResource      == [PatchResourceAsync EXCEPT !.waits = "result"]
DeleteResourceAsync == Sending("plain", "body", "no")
DeleteResource     == [DeleteResourceAsync EXCEPT !.waits = "completion"]
WaitForAsyncOperationResult == Sending("future", "body", "result")
StorageSDK         == Sending("sdk", "body", "no")

(***************************************************************************)
(* The operations of the clients.  limiter, gate and store are the limiter *)
(* asked, the RetryAfter field read and the one written; next is how a list*)
(* asks for its next page.                                                 *)
(***************************************************************************)

Op(limiter, gate, store, send, next) ==
    [limiter |-> limiter, gate |-> gate, store |-> store,
     send |-> send, next |-> next]

ReadOp(send)  == Op("Reader", "Reader", "Reader", send, "none")
WriteOp(send) == Op("Writer", "Writer", "Writer", send, "none")
FreeOp(send, next) == Op("None", "None", "None", send, next)
ListOp(next)  == Op("Reader", "Reader", "Reader", GetResource, next)


\* azure_blobclient.go
Blob_CreateContainer == WriteOp(PutResource)
Blob_DeleteContainer == WriteOp(DeleteResource)
Blob_GetContainer == ReadOp(GetResource)
Blob_ServiceProperties == FreeOp(StorageSDK, "none")

\* azure_diskclient.go
Disk_Get == ReadOp(GetResource)
Disk_CreateOrUpdate == WriteOp(PutResource)
Disk_Update == WriteOp(PatchResource)
Disk_Delete == WriteOp(DeleteResource)
Disk_listNextResults == "send"
Disk_ListByResourceGroup == FreeOp(GetResource, Disk_listNextResults)

\* azure_fileclient.go
File_CreateDeleteShare == FreeOp(StorageSDK, "none")
File_ResizeFileShare == FreeOp(StorageSDK, "second")
File_GetFileShare == FreeOp(StorageSDK, "none")
File_ListFileShare == FreeOp(StorageSDK, "again")

\* azure_interfaceclient.go
Interface_Get == ReadOp(GetResource)
Interface_GetVirtualMachineScaleSetNetworkInterface == ReadOp(GetResource)
Interface_CreateOrUpdate == WriteOp(PutResource)
Interface_Delete == WriteOp(DeleteResource)

\* azure_loadbalancerclient.go
LB_Get == ReadOp(GetResource)
LB_listNextResults == "send"
LB_List == ListOp(LB_listNextResults)
LB_CreateOrUpdate == WriteOp(PutResource)
BugLB_Delete == Op("Writer", "Writer", "Reader", DeleteResource, "none")
LB_Delete == WriteOp(DeleteResource)
LB_GetLBBackendPool == ReadOp(GetResource)
LB_CreateOrUpdateBackendPools == WriteOp(PutResource)
LB_DeleteLBBackendPool == WriteOp(DeleteResource)
LB_MigrateToIPBasedBackendPool == WriteOp([PostResource EXCEPT !.decodes = "no"])

\* azure_privatednszonegroupclient.go
DNSZoneGroup_CreateOrUpdate == {WriteOp(PutResource), WriteOp(PutResourceAsync)}
DNSZoneGroup_Get == ReadOp(GetResource)

\* azure_privateendpointclient.go
PrivateEndpoint_CreateOrUpdate == {WriteOp(PutResource), WriteOp(PutResourceAsync)}
PrivateEndpoint_Get == ReadOp(GetResource)

\* azure_privatelinkserviceclient.go
PLS_CreateOrUpdate == WriteOp(PutResource)
PLS_Get == ReadOp(GetResource)
PLS_listNextResults == "send"
PLS_List == ListOp(PLS_listNextResults)
PLS_Delete == WriteOp(DeleteResource)
PLS_DeletePEConnection == WriteOp(DeleteResource)

\* azure_publicipclient.go
PIP_Get == ReadOp(GetResource)
PIP_GetVirtualMachineScaleSetPublicIPAddress == ReadOp(GetResource)
PIP_listNextResults == "send"
PIP_List == ListOp(PIP_listNextResults)
PIP_CreateOrUpdate == WriteOp(PutResource)
PIP_Delete == WriteOp(DeleteResource)
PIP_ListAll == ListOp(PIP_listNextResults)

\* azure_storageaccountclient.go
Storage_GetProperties == ReadOp(GetResource)
Storage_ListKeys == ReadOp(PostResource)
Storage_Create == WriteOp(PutResource)
Storage_Update == WriteOp(PatchResource)
Storage_Delete == WriteOp(DeleteResource)
Storage_listNextResults == "send"
Storage_ListByResourceGroup == ListOp(Storage_listNextResults)

\* azure_subnetclient.go
Subnet_Get == ReadOp(GetResource)
Subnet_listNextResults == "send"
Subnet_List == ListOp(Subnet_listNextResults)
Subnet_CreateOrUpdate == WriteOp(PutResource)
Subnet_Delete == WriteOp(DeleteResource)

\* azure_vmasclient.go
VMAS_Get == ReadOp(GetResource)
VMAS_listNextResults == "send"
VMAS_List == ListOp(VMAS_listNextResults)

\* azure_vmclient.go
VM_Get == ReadOp(GetResource)
VM_listNextResults == "send"
VM_List == ListOp(VM_listNextResults)
VM_ListVmssFlexVMs == ListOp(VM_listNextResults)
VM_updateVM == PatchResource
VM_Update == WriteOp(VM_updateVM)
VM_UpdateAsync == WriteOp(PatchResourceAsync)
VM_WaitForUpdateResult == FreeOp(WaitForAsyncOperationResult, "none")
VM_CreateOrUpdate == WriteOp(PutResource)
VM_Delete == WriteOp(DeleteResource)

\* azure_vmsizeclient.go
VMSize_List == ReadOp(GetResource)

\* azure_vmssclient.go
VMSS_Get == ReadOp(GetResource)
VMSS_listNextResults == "send"
VMSS_List == ListOp(VMSS_listNextResults)
VMSS_createOrUpdateVMSS == PutResource
VMSS_CreateOrUpdate == WriteOp(VMSS_createOrUpdateVMSS)
VMSS_CreateOrUpdateAsync == WriteOp(PutResourceAsync)
VMSS_WaitForAsyncOperationResult ==
    FreeOp([WaitForAsyncOperationResult EXCEPT !.waits = "raw"], "none")
VMSS_Post == [PostResource EXCEPT !.decodes = "future"]
VMSS_deleteVMSSInstances == [VMSS_Post EXCEPT !.waits = "final"]
VMSS_DeleteInstances == WriteOp(VMSS_deleteVMSSInstances)
VMSS_DeleteInstancesAsync == Op("Writer", "Writer", "None", VMSS_Post, "none")
VMSS_DeallocateInstancesAsync == Op("Writer", "Writer", "None", VMSS_Post, "none")
VMSS_StartInstancesAsync == Op("Writer", "Writer", "None", VMSS_Post, "none")

\* azure_vmssvmclient.go
VMSSVM_Get == ReadOp(GetResource)
VMSSVM_listNextResults == "send"
VMSSVM_List == ListOp(VMSSVM_listNextResults)
VMSSVM_updateVMSSVM == PutResource
VMSSVM_Update == WriteOp(VMSSVM_updateVMSSVM)
VMSSVM_UpdateAsync == WriteOp(PatchResourceAsync)
VMSSVM_WaitForUpdateResult == FreeOp(WaitForAsyncOperationResult, "none")

\* Every operation of every client; most of them look alike.
Operations ==
    {Blob_CreateContainer, Blob_DeleteContainer, Blob_GetContainer,
     Blob_ServiceProperties, Disk_Get, Disk_CreateOrUpdate, Disk_Update,
     Disk_Delete, Disk_ListByResourceGroup, File_CreateDeleteShare, File_ResizeFileShare,
     File_GetFileShare,
     File_ListFileShare, Interface_Get,
     Interface_GetVirtualMachineScaleSetNetworkInterface,
     Interface_CreateOrUpdate, Interface_Delete, LB_Get, LB_List,
     LB_CreateOrUpdate, LB_Delete, LB_GetLBBackendPool,
     LB_CreateOrUpdateBackendPools, LB_DeleteLBBackendPool,
     LB_MigrateToIPBasedBackendPool, DNSZoneGroup_Get,
     PrivateEndpoint_Get, PLS_CreateOrUpdate, PLS_Get, PLS_List,
     PLS_Delete, PLS_DeletePEConnection, PIP_Get,
     PIP_GetVirtualMachineScaleSetPublicIPAddress, PIP_List,
     PIP_CreateOrUpdate, PIP_Delete, PIP_ListAll, Storage_GetProperties,
     Storage_ListKeys, Storage_Create, Storage_Update, Storage_Delete,
     Storage_ListByResourceGroup, Subnet_Get, Subnet_List,
     Subnet_CreateOrUpdate, Subnet_Delete, VMAS_Get, VMAS_List, VM_Get,
     VM_List, VM_ListVmssFlexVMs, VM_Update, VM_UpdateAsync,
     VM_WaitForUpdateResult, VM_CreateOrUpdate, VM_Delete, VMSize_List,
     VMSS_Get, VMSS_List, VMSS_CreateOrUpdate, VMSS_CreateOrUpdateAsync,
     VMSS_WaitForAsyncOperationResult, VMSS_DeleteInstances,
     VMSS_DeleteInstancesAsync, VMSS_DeallocateInstancesAsync,
     VMSS_StartInstancesAsync, VMSSVM_Get, VMSSVM_List, VMSSVM_Update,
     VMSSVM_UpdateAsync, VMSSVM_WaitForUpdateResult}
      \cup DNSZoneGroup_CreateOrUpdate \cup PrivateEndpoint_CreateOrUpdate

(***************************************************************************)
(* A call.  host is "global", "regional" or "plain" for a request without  *)
(* the regional retry; ans is the last answer and first the one of the     *)
(* global host.  sent, late and until are history: the requests sent, those*)
(* sent after the call was throttled, and until when Azure asked to wait.  *)
(***************************************************************************)

NoAnswer == Answer(0, 0, "none")

IdleCall ==
    [pc |-> "idle", op |-> FreeOp(Sending("none", "no", "no"), "none"),
     steps |-> 0, dur |-> 0, host |-> "plain", page |-> 1,
     ans |-> NoAnswer, first |-> NoAnswer, err |-> NoError,
     sent |-> 0, late |-> 0, until |-> 0]

\* A new request of the call: doBackoffRetry starts from a copy of backoff.
\* The storage SDK sends once; waiting for a future sends nothing here.
Request(r, host) ==
    [r EXCEPT !.pc = IF r.op.send.host = "future" THEN "wait" ELSE "send",
              !.steps = IF r.op.send.host = "sdk" THEN 1 ELSE Steps,
              !.dur = Duration, !.host = host]

Finished(r, e) == [r EXCEPT !.pc = "return", !.err = e]

\* An error without a mark, a code or a time: what the storage SDK says is
\* returned as it is, and the retry.Error made of it only goes to the metrics.
RawError == NewError(FALSE, 0, 0)

Handed(r, e) == IF r.op.send.host = "sdk" THEN RawError ELSE e

\* Step of the backoff: at the cap no step is left.
BackoffStep(r) ==
    LET d == 2 * r.dur IN
    IF Cap > 0 /\ d > Cap
      THEN [r EXCEPT !.dur = Cap, !.steps = 0]
      ELSE [r EXCEPT !.dur = d, !.steps = r.steps - 1]

Init ==
    /\ now = 1
    /\ tokens = [k \in Kinds |-> Bucket]
    /\ retryAfter = [k \in Kinds |-> 0]
    /\ call = [c \in Calls |-> IdleCall]

\* flowcontrol refills the buckets as time passes.
Tick ==
    /\ now < MaxTime
    /\ now' = now + 1
    /\ tokens' = [k \in Kinds |-> IF tokens[k] < Bucket THEN tokens[k] + 1 ELSE Bucket]
    /\ UNCHANGED <<retryAfter, call>>

-----------------------------------------------------------------------------
\* The first lines of an operation: TryAccept of the limiter, then the
\* RetryAfter field of the gate; either refusal is a retriable error at once.
RateLimited(c, op) ==
    /\ call[c].pc = "idle"
    /\ op.limiter \in Kinds
    /\ tokens[op.limiter] = 0
    /\ UNCHANGED vars

Accepted(op) ==
    /\ op.limiter \in Kinds => tokens[op.limiter] > 0
    /\ tokens' = [k \in Kinds |-> IF k = op.limiter THEN tokens[k] - 1 ELSE tokens[k]]

Throttled(c, op) ==
    /\ call[c].pc = "idle"
    /\ Accepted(op)
    /\ op.gate \in Kinds
    /\ retryAfter[op.gate] > now
    /\ UNCHANGED <<now, retryAfter, call>>

Admit(c, op) ==
    /\ call[c].pc = "idle"
    /\ Accepted(op)
    /\ op.gate \in Kinds => retryAfter[op.gate] <= now
    /\ call' = [call EXCEPT ![c] =
                  Request([IdleCall EXCEPT !.op = op],
                          IF op.send.host = "global" THEN "global" ELSE "plain")]
    /\ UNCHANGED <<now, retryAfter>>

-----------------------------------------------------------------------------
BugAgain(r, a, e) ==
    /\ ~e.nil
    /\ e.retriable \/ e.code \in RetriableHTTPStatusCodes \/ a.msg \in NonRetriableErrors
    /\ r.steps # 1

\* Whether doBackoffRetry asks again after an answer with error e.
Again(r, a, e) ==
    /\ ~e.nil
    /\ ~IsThrottled(e)
    /\ \/ e.retriable
       \/ e.code \in RetriableHTTPStatusCodes
       \/ a.msg \in NonRetriableErrors
    /\ r.steps # 1

\* DoHackRegionalRetryForGET on the answer of the global host.
WantsRegional(r) ==
    /\ r.host = "global"
    /\ r.ans.code # -1
    /\ \/ IsSuccessHTTPResponse(r.ans) /\ r.ans.msg = "empty"
       \/ /\ ~IsSuccessHTTPResponse(r.ans)
          /\ r.ans.code # 404
          /\ r.ans.msg = "ResourceGroupNotFound"

\* The backoff loop has returned the answer r.ans.  The answer of the regional
\* host counts only when it is a success with a body; a failure leaves the
\* global answer, an empty one is an error with it.
Answered(r) ==
    LET d == [r EXCEPT !.pc = "respond", !.steps = 0, !.dur = 0, !.first = NoAnswer] IN
    CASE WantsRegional(r) -> Request([r EXCEPT !.first = r.ans], "regional")
      [] r.host = "regional" /\ ~IsSuccessHTTPResponse(r.ans) -> [d EXCEPT !.ans = r.first]
      [] r.host = "regional" /\ IsSuccessHTTPResponse(r.ans) /\ r.ans.msg = "empty" ->
           Finished(d, GetError(r.first, TRUE))
      [] OTHER -> d

\* One HTTP request of the backoff loop and its answer.
Send(c) ==
    /\ call[c].pc = "send"
    /\ \E a \in Answers :
         LET e == SendError(a)
             r == [call[c] EXCEPT
                     !.ans = a, !.sent = @ + 1,
                     !.late = IF call[c].until # 0 THEN @ + 1 ELSE @,
                     !.until = IF IsThrottled(e) THEN now + a.after ELSE @]
         IN call' = [call EXCEPT ![c] =
                       IF Again(r, a, e) THEN [r EXCEPT !.pc = "delay"] ELSE Answered(r)]
    /\ UNCHANGED <<now, tokens, retryAfter>>

\* delayForBackOff: the sleep ends, or the context of the request does; with
\* no step left the loop ends too and the answer it holds is returned.
Delay(c) ==
    /\ call[c].pc = "delay"
    /\ \E cancelled \in BOOLEAN :
         LET r == BackoffStep(call[c]) IN
         call' = [call EXCEPT ![c] =
                    IF cancelled \/ r.steps = 0 THEN Answered(r) ELSE [r EXCEPT !.pc = "send"]]
    /\ UNCHANGED <<now, tokens, retryAfter>>

-----------------------------------------------------------------------------
\* The request failed.  A later page does not advance the list, so its error
\* is built from the response of the page before, which was a success.
Failed(c) ==
    LET r == call[c] IN
    /\ r.pc = "respond"
    /\ ~IsSuccessHTTPResponse(r.ans)
    /\ ~(r.op.next = "again" /\ r.page > 1)
    /\ call' = [call EXCEPT ![c] =
         Finished(r, IF r.page > 1 /\ r.op.next = "send"
                       THEN GetError(Answer(200, 0, "body"), TRUE)
                       ELSE Handed(r, SendError(r.ans)))]
    /\ UNCHANGED <<now, tokens, retryAfter>>

\* Mutant: every list asks again for a later page that fails.
BugPageAgain(c) ==
    LET r == call[c] IN
    /\ r.pc = "respond"
    /\ ~IsSuccessHTTPResponse(r.ans)
    /\ r.page > 1
    /\ call' = [call EXCEPT ![c] = Request([r EXCEPT !.sent = 0, !.late = 0, !.until = 0], "plain")]
    /\ UNCHANGED <<now, tokens, retryAfter>>

\* ListFileShare notes the error of a later page and asks for it again, for as
\* long as it fails; the history of the call starts over.
PageAgain(c) ==
    LET r == call[c] IN
    /\ r.pc = "respond"
    /\ ~IsSuccessHTTPResponse(r.ans)
    /\ r.op.next = "again" /\ r.page > 1
    /\ call' = [call EXCEPT ![c] = Request([r EXCEPT !.sent = 0, !.late = 0, !.until = 0], "plain")]
    /\ UNCHANGED <<now, tokens, retryAfter>>

\* The responder cannot decode the body of a successful answer, or no future
\* can be made of it.
Undecodable(c) ==
    LET r == call[c] IN
    /\ r.pc = "respond"
    /\ IsSuccessHTTPResponse(r.ans)
    /\ r.op.send.decodes # "no"
    /\ \E e \in {GetError(r.ans, TRUE), NewError(FALSE, 0, 0)} :
         /\ r.op.send.decodes = "body" => e.code # 0
         /\ call' = [call EXCEPT ![c] = Finished(r, Handed(r, e))]
    /\ UNCHANGED <<now, tokens, retryAfter>>

NextPage(c) ==
    LET r == call[c] IN
    /\ r.pc = "respond"
    /\ IsSuccessHTTPResponse(r.ans)
    /\ r.ans.msg # "empty"          \* no nextLink in an empty body
    /\ r.op.next # "none"
    /\ r.page < (IF r.op.next = "second" THEN 2 ELSE MaxPages)
    /\ call' = [call EXCEPT ![c] = Request([r EXCEPT !.page = @ + 1], "plain")]
    /\ UNCHANGED <<now, tokens, retryAfter>>

Succeeded(c) ==
    LET r == call[c] IN
    /\ r.pc = "respond"
    /\ IsSuccessHTTPResponse(r.ans)
    /\ call' = [call EXCEPT ![c] =
         IF r.op.send.waits # "no" THEN [r EXCEPT !.pc = "wait"] ELSE Finished(r, NoError)]
    /\ UNCHANGED <<now, tokens, retryAfter>>

\* The future of an accepted request: done, failed without a response, or, when
\* its result is asked for, answered by anything.  Whoever gets the raw result
\* does not look at the status of the answer.
WaitFailed(r) ==
    CASE r.op.send.waits = "result" -> GetError(Answer(-1, 0, "none"), TRUE)
      [] r.op.send.waits = "completion" -> NewError(TRUE, 0, 0)
      [] r.op.send.waits = "final" -> NewError(FALSE, 0, 0)
      [] r.op.send.waits = "raw" -> RawError

Wait(c) ==
    LET r == call[c] IN
    /\ r.pc = "wait"
    /\ \/ call' = [call EXCEPT ![c] = Finished(r, NoError)]
       \/ call' = [call EXCEPT ![c] = Finished([r EXCEPT !.ans = Answer(-1, 0, "none")], WaitFailed(r))]
       \/ /\ r.op.send.waits = "result"
          /\ \E a \in Answers, undecodable, internal \in BOOLEAN :
               LET e == GetError(a, undecodable \/ ~IsSuccessHTTPResponse(a)) IN
               call' = [call EXCEPT ![c] =
                 Finished([r EXCEPT !.ans = a, !.sent = @ + 1,
                                    !.until = IF IsThrottled(e) THEN now + a.after ELSE 0],
                   IF r.op.send.host = "plain" /\ ~e.nil /\ internal
                     THEN [e EXCEPT !.retriable = TRUE] ELSE e)]
    /\ UNCHANGED <<now, tokens, retryAfter>>

\* The end of an operation: a throttling error is written to the field.
Return(c) ==
    LET r == call[c] IN
    /\ r.pc = "return"
    /\ retryAfter' = IF r.op.store \in Kinds /\ IsThrottled(r.err)
                       THEN [retryAfter EXCEPT ![r.op.store] = r.err.after]
                       ELSE retryAfter
    /\ call' = [call EXCEPT ![c] = IdleCall]
    /\ UNCHANGED <<now, tokens>>

Next ==
    \/ Tick
    \/ \E c \in Calls :
         \/ \E op \in Operations : RateLimited(c, op) \/ Throttled(c, op) \/ Admit(c, op)
         \/ Send(c) \/ Delay(c)
         \/ Failed(c) \/ PageAgain(c) \/ Undecodable(c) \/ NextPage(c) \/ Succeeded(c)
         \/ Wait(c) \/ Return(c)

\* A step of a call that has begun.
Work(c) ==
    \/ Send(c) \/ Delay(c)
    \/ Failed(c) \/ PageAgain(c) \/ Undecodable(c) \/ NextPage(c) \/ Succeeded(c)
    \/ Wait(c) \/ Return(c)

Spec == Init /\ [][Next]_vars /\ \A c \in Calls : WF_vars(Work(c))

-----------------------------------------------------------------------------
(***************************************************************************)
(* Properties                                                              *)
(***************************************************************************)

Times == 0..(MaxTime + MaxDelay)

\* Type invariant: the clock, the limiters, the RetryAfter fields and the call
\* of every goroutine have their types.
TypeOK ==
    /\ now \in 1..MaxTime
    /\ tokens \in [Kinds -> 0..Bucket]
    /\ retryAfter \in [Kinds -> Times]
    /\ \A c \in Calls :
         /\ call[c].pc \in {"idle", "send", "delay", "respond", "wait", "return"}
         /\ call[c].host \in {"global", "regional", "plain"}
         /\ call[c].steps \in 0..Steps
         /\ call[c].page \in 1..(MaxPages + 1)
         /\ call[c].until \in Times
         /\ call[c].err.after \in Times

\* Once Azure throttles a call, the call sends nothing more: neither the
\* backoff loop, nor the regional retry, nor the next page of a list goes on.
\* (azure_retry.go doBackoffRetry; ListFileShare is the exception.)
ThrottledCallStops ==
    \A c \in Calls : call[c].late = 0

\* A call sends at most twice the steps of the backoff for its first request
\* (the global and the regional host) and once the steps for each later page,
\* whatever Azure answers; a future adds one request for its result.
RequestsBounded ==
    \A c \in Calls :
      call[c].sent <= 2 * Steps + (call[c].page - 1) * Steps + 1

\* A call that Azure told to wait leaves that instruction in the RetryAfter
\* field its own gate reads, so that the next call of the kind is held back.
\* The code records it for the first page of a list and for the global host
\* only, and not for the operations of vmssclient that store nothing.
ThrottleRecorded ==
    [][\A c \in Calls :
         LET r == call[c] IN
         (/\ r.pc = "return" /\ call'[c].pc = "idle"
          /\ r.op.store \in Kinds
          /\ r.page = 1 /\ r.host # "regional"
          /\ r.until > now)
         => retryAfter'[r.op.gate] >= r.until]_vars

\* The operations whose errors carry the mark: not those of the storage SDK
\* (fileclient and the service properties of blobclient), nor the waits of
\* vmssclient, which hand a raw error on or make one with NewError(false).
Marks(op) == op.send.host # "sdk" /\ op.send.waits \notin {"final", "raw"}

\* A call that got no answer from Azure, through however many requests, hosts
\* and pages, fails with an error marked retriable: the callers that queue work
\* again rely on the mark (retry.GetError and what armclient passes to it).
LostAnswerRetriable ==
    \A c \in Calls :
      (call[c].pc = "return" /\ call[c].ans.code = -1 /\ Marks(call[c].op))
      => call[c].err.nil \/ call[c].err.retriable

\* Every call returns: backoff, pages and futures end.  Listing file shares
\* repeats a failing page for ever and is left out.
EveryCallReturns ==
    \A c \in Calls :
      (call[c].pc = "send" /\ call[c].op.next # "again") ~> (call[c].pc = "idle")

\* The state of a client is sound while it works: a throttled call stops, no
\* call sends more than the backoff allows, and an error that says nothing
\* about the request may be retried (doBackoffRetry, GetError).
CallsSound == TypeOK /\ ThrottledCallStops /\ RequestsBounded /\ LostAnswerRetriable
=============================================================================
