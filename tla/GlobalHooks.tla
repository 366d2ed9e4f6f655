------------------------------ MODULE GlobalHooks ------------------------------
(***************************************************************************)
(* The two process-wide hooks an application may install: the allocator    *)
(* (core/rgtp_alloc.c, g_alloc) and the log callback                       *)
(* (observability/rgtp_log.c, g_log_fn and g_log_ctx).  Both are plain     *)
(* globals, functions and the context they are to be called with, written  *)
(* field by field and read field by field, with no lock.  A user tests the *)
(* function against NULL, loads it again for the call, and loads the       *)
(* context; the compiler may also keep the value it has tested.            *)
(*                                                                         *)
(* A hook is a name; its functions and its context carry that name, and    *)
(* "none" is NULL.  Sizes and the blocks handed out are left out.          *)
(***************************************************************************)
EXTENDS Integers

CONSTANTS
  Hooks,          \* allocators and log callbacks the application has
  HookUsers,      \* threads that allocate, free and log
  MaxInstalls     \* bound of the model: installations
NoHook == "none"

VARIABLES
  hook,           \* the fields of g_alloc, g_log_fn, g_log_ctx and g_log_level
  install,        \* the installer: the fields it still has to write, and what
  user,           \* each thread: the call it is in and what it has loaded
  installs,       \* installations so far
  hookCalls       \* history: the functions called and the contexts passed, as
                  \* <<kind, function, context>>

hookVars == <<hook, install, user, installs, hookCalls>>

Installed == Hooks \union {NoHook}
AtRest == [at |-> "rest"]
NothingToWrite == [fields |-> {}, to |-> NoHook]

AllocFields == {"alloc", "free", "alloc_ctx"}
LogFields == {"log_fn", "log_ctx"}

HooksInit ==
  /\ hook = [alloc |-> NoHook, free |-> NoHook, alloc_ctx |-> NoHook,
             log_fn |-> NoHook, log_ctx |-> NoHook, level |-> 1]
  /\ install = NothingToWrite
  /\ user = [u \in HookUsers |-> AtRest]
  /\ installs = 0
  /\ hookCalls = {}

HooksTypeOK ==
  /\ install.fields \subseteq AllocFields \union LogFields
  /\ \A f \in AllocFields \union LogFields : hook[f] \in Installed
  /\ hook.level \in 0 .. 1
  /\ hookCalls \subseteq {"allocator", "log"} \X Installed \X Installed

-----------------------------------------------------------------------------
Begin(fields, to) ==
  /\ install = NothingToWrite
  /\ installs < MaxInstalls
  /\ install' = [fields |-> fields, to |-> to]
  /\ installs' = installs + 1
  /\ UNCHANGED <<hook, user, hookCalls>>

\* rgtp_set_allocator, with an allocator or with NULL.  The struct is copied, or
\* its three fields are cleared, in no order a reader can rely on.  An allocator
\* with only one of its two functions is refused and changes nothing.
SetAllocator(to) == Begin(AllocFields, to)

\* rgtp_set_log_callback
SetLogCallback(to) == Begin(LogFields, to)

InstallWrites(f) ==
  /\ f \in install.fields
  /\ hook' = [hook EXCEPT ![f] = install.to]
  /\ install' = IF install.fields = {f} THEN NothingToWrite
                                        ELSE [install EXCEPT !.fields = @ \ {f}]
  /\ UNCHANGED <<user, installs, hookCalls>>

\* rgtp_set_log_level, one atomic store.
SetLogLevel ==
  /\ hook' = [hook EXCEPT !.level = 1 - @]
  /\ UNCHANGED <<install, user, installs, hookCalls>>

-----------------------------------------------------------------------------
\* The test of a hook's function: NULL takes the default, malloc, free or
\* default_log_fn, which no context reaches.
Tests(u, field, ctx) ==
  /\ user[u] = AtRest
  /\ hook[field] # NoHook
  /\ user' = [user EXCEPT ![u] = [at |-> "reload", field |-> field, ctx |-> ctx,
                                  fn |-> hook[field]]]
  /\ UNCHANGED <<hook, install, installs, hookCalls>>

\* rgtp_malloc and rgtp_calloc
MallocTests(u) == Tests(u, "alloc", "alloc_ctx")

\* rgtp_free
FreeTests(u) == Tests(u, "free", "alloc_ctx")

\* rgtp_log_emit past the level check.
LogTests(u) == hook.level > 0 /\ Tests(u, "log_fn", "log_ctx")

\* The function to call: loaded again, or the value of the test.
HookReloads(u) ==
  /\ user[u].at = "reload"
  /\ \E fn \in {user[u].fn, hook[user[u].field]} :
       user' = [user EXCEPT ![u] = [user[u] EXCEPT !.at = "call", !.fn = fn]]
  /\ UNCHANGED <<hook, install, installs, hookCalls>>

\* The call, with the context as it is by then.
HookCalls(u) ==
  /\ user[u].at = "call"
  /\ hookCalls' = hookCalls \union
       {<<IF user[u].ctx = "log_ctx" THEN "log" ELSE "allocator", user[u].fn, hook[user[u].ctx]>>}
  /\ user' = [user EXCEPT ![u] = AtRest]
  /\ UNCHANGED <<hook, install, installs>>

HooksNext ==
  \/ \E to \in Installed : SetAllocator(to) \/ SetLogCallback(to)
  \/ \E f \in AllocFields \union LogFields : InstallWrites(f)
  \/ SetLogLevel
  \/ \E u \in HookUsers : \/ MallocTests(u) \/ FreeTests(u) \/ LogTests(u)
                          \/ HookReloads(u) \/ HookCalls(u)

HooksSpec == HooksInit /\ [][HooksNext]_hookVars

-----------------------------------------------------------------------------
(* rgtp_malloc, rgtp_calloc and rgtp_free call an allocator's function, not  *)
(* NULL, and with the context it was installed with, also while              *)
(* rgtp_set_allocator runs in another thread: the comment of rgtp_alloc.c    *)
(* calls the hook safe to use from several threads.                          *)
AllocatorThreadSafe ==
  \A call \in hookCalls :
    call[1] = "allocator" => call[2] # NoHook /\ call[3] = call[2]
=============================================================================
