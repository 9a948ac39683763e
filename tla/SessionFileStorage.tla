------------------------ MODULE SessionFileStorage -------------------------
(***************************************************************************)
(* cppcms::sessions::session_file_storage                                  *)
(* (src/session_posix_file_storage.cpp): one file per session, used by the *)
(* threads of one or several processes.                                    *)
(*                                                                         *)
(* A locked_file holds a mutex of the session id, which the processes      *)
(* share unless file_lock_ is set; with file_lock_ the mutex excludes only *)
(* the threads of the same process, and fcntl() locks the file against     *)
(* other processes.  Every system call is an action.                       *)
(*                                                                         *)
(* A file is its inode: the header, Nil as long as it has not been         *)
(* written, and the blocks of the data.  The check-sum of a content is     *)
(* taken to be the content itself.                                         *)
(***************************************************************************)
EXTENDS Integers, SequencesExt

CONSTANTS Threads,
          Sids,
          PosOf,        \* sid -> position of its mutex, sid_to_pos()
          Setups,       \* the kinds of use, see StorageAssumption
          Inodes,       \* inode numbers
          Contents,     \* contents that are saved, non-empty sequences of blocks
          Nil,
          MaxTime       \* bound on the clock

ASSUME StorageAssumption ==
    /\ \A c \in Contents : Len(c) > 0
    /\ MaxTime \in Nat
    /\ \A s \in Setups :
          /\ s.file_lock_ \in BOOLEAN         \* fcntl() locks are used
          /\ DOMAIN s.process \subseteq Threads  \* the process of a thread
          /\ s.calls \in Nat                  \* bound on the calls of the storage
          /\ s.crashes \in Nat                \* bound on the crashes of processes

VARIABLES
    setup,          \* one of Setups
    dir,            \* sid -> inode of its file, or Nil
    inode,          \* inode -> [head, blocks]
    thread,         \* thread -> its call: pc, op, sid, what it saves, fd
    got,            \* thread -> record that its load() is about to return, or Nil
    now,
    called,         \* number of calls so far
    crashes         \* number of crashes so far

vars == <<setup, dir, inode, thread, got, now, called, crashes>>

file_lock_ == setup.file_lock_
ProcOf     == setup.process

Idle     == [pc |-> "idle"]
EmptyFile == [head |-> Nil, blocks |-> <<>>]

Init == /\ setup \in Setups
        /\ dir = [s \in Sids |-> Nil]
        /\ inode = [i \in Inodes |-> EmptyFile]
        /\ thread = [t \in Threads |-> Idle]
        /\ got = [t \in Threads |-> Nil]
        /\ now = 0 /\ called = 0 /\ crashes = 0

InCall(t)  == thread[t].pc \notin {"idle", "dead"}
HasMutex(t) == thread[t].pc \notin {"idle", "enter"}
HasFile(t) == InCall(t) /\ thread[t].fd # Nil
HasLock(t) == HasFile(t) /\ thread[t].pc \notin {"open", "lock"}

Goto(t, pc) == thread' = [thread EXCEPT ![t].pc = pc]
-----------------------------------------------------------------------------
(* locked_file::locked_file()                                              *)

Enter(t, call) ==
    /\ thread[t] = Idle
    /\ called < setup.calls
    /\ called' = called + 1
    /\ thread' = [thread EXCEPT ![t] = call]
    /\ UNCHANGED <<dir, inode, got, now, crashes>>

Call(op, s, data, until) ==
    [pc |-> "enter", op |-> op, sid |-> s, data |-> data, until |-> until, fd |-> Nil,
     written |-> 0]

SharesMutex(t, u) ==
    /\ PosOf[thread[t].sid] = PosOf[thread[u].sid]
    /\ file_lock_ => ProcOf[t] = ProcOf[u]

\* A mutex of the processes stays locked when its owner dies.
lock(t) ==
    /\ thread[t].pc = "enter"
    /\ \A u \in Threads \ {t} : HasMutex(u) => ~SharesMutex(t, u)
    /\ Goto(t, "open")
    /\ UNCHANGED <<dir, inode, got, now, called, crashes>>

Unused == {i \in Inodes : /\ \A s \in Sids : dir[s] # i
                          /\ \A t \in Threads : HasFile(t) => thread[t].fd # i}

\* open(), with O_CREAT for save()
open(t) ==
    LET s == thread[t].sid  next == IF file_lock_ THEN "lock" ELSE thread[t].op IN
    /\ thread[t].pc = "open"
    /\ \/ /\ dir[s] # Nil
          /\ thread' = [thread EXCEPT ![t].fd = dir[s], ![t].pc = next]
          /\ UNCHANGED <<dir, inode>>
       \/ /\ dir[s] = Nil /\ thread[t].op = "save"
          /\ \E i \in Unused :
                /\ dir' = [dir EXCEPT ![s] = i]
                /\ inode' = [inode EXCEPT ![i] = EmptyFile]
                /\ thread' = [thread EXCEPT ![t].fd = i, ![t].pc = next]
       \/ /\ dir[s] = Nil /\ thread[t].op # "save"
          /\ Goto(t, "leave")
          /\ UNCHANGED <<dir, inode>>
    /\ got' = IF dir[s] = Nil /\ thread[t].op = "load" THEN [got EXCEPT ![t] = Nil] ELSE got
    /\ UNCHANGED <<now, called, crashes>>

\* fcntl(F_SETLKW) waits for the locks of other processes,
SetLock(t) ==
    /\ thread[t].pc = "lock"
    /\ \A u \in Threads : HasLock(u) /\ ProcOf[u] # ProcOf[t] => thread[u].fd # thread[t].fd
    /\ Goto(t, "stat")
    /\ UNCHANGED <<dir, inode, got, now, called, crashes>>

\* or fails.  If stat() then finds no file the loop goes on, otherwise the call
\* fails; to load() that is a session that does not exist.
SetLockFails(t) ==
    /\ thread[t].pc = "lock"
    /\ thread' = [thread EXCEPT ![t].fd = Nil,
                                ![t].pc = IF dir[thread[t].sid] = Nil THEN "open" ELSE "leave"]
    /\ got' = IF dir[thread[t].sid] # Nil /\ thread[t].op = "load"
              THEN [got EXCEPT ![t] = Nil] ELSE got
    /\ UNCHANGED <<dir, inode, now, called, crashes>>

stat_NoInodes(t) ==
    /\ thread[t].pc = "stat"
    /\ IF dir[thread[t].sid] # Nil
       THEN Goto(t, thread[t].op)
       ELSE thread' = [thread EXCEPT ![t].fd = Nil, ![t].pc = "open"]
    /\ UNCHANGED <<dir, inode, got, now, called, crashes>>

stat_SameFile(t) ==
    /\ thread[t].pc = "stat"
    /\ Goto(t, IF dir[thread[t].sid] = thread[t].fd THEN thread[t].op ELSE "lock")
    /\ UNCHANGED <<dir, inode, got, now, called, crashes>>

\* stat() and fstat(): is the locked file still the one of that name?
stat(t) ==
    /\ thread[t].pc = "stat"
    /\ IF dir[thread[t].sid] = thread[t].fd
       THEN Goto(t, thread[t].op)
       ELSE thread' = [thread EXCEPT ![t].fd = Nil, ![t].pc = "open"]
    /\ UNCHANGED <<dir, inode, got, now, called, crashes>>

\* ~locked_file(): the file is unlocked and closed, then the mutex unlocked.
unlock(t) ==
    /\ thread[t].pc = "leave"
    /\ thread' = [thread EXCEPT ![t] = Idle]
    /\ got' = [got EXCEPT ![t] = Nil]
    /\ UNCHANGED <<dir, inode, now, called, crashes>>
-----------------------------------------------------------------------------
(* The operations, on the locked file.                                     *)

\* save_to_file(): the header, and then the data, over what the file holds.
WriteHead(t) ==
    LET c == thread[t] IN
    /\ c.pc = "save"
    /\ inode' = [inode EXCEPT ![c.fd].head =
                    [until |-> c.until, crc |-> c.data, size |-> Len(c.data)]]
    /\ Goto(t, "data")
    /\ UNCHANGED <<dir, got, now, called, crashes>>

Overwrite(blocks, k, b) ==
    IF k <= Len(blocks) THEN [blocks EXCEPT ![k] = b] ELSE Append(blocks, b)

WriteBlock(t) ==
    LET c == thread[t]  k == c.written + 1 IN
    /\ c.pc = "data"
    /\ inode' = [inode EXCEPT ![c.fd].blocks = Overwrite(@, k, c.data[k])]
    /\ thread' = [thread EXCEPT ![t].written = k,
                                ![t].pc = IF k = Len(c.data) THEN "leave" ELSE "data"]
    /\ UNCHANGED <<dir, got, now, called, crashes>>

\* write() fails, and save() throws.
WriteFails(t) ==
    /\ thread[t].pc \in {"save", "data"}
    /\ Goto(t, "leave")
    /\ UNCHANGED <<dir, inode, got, now, called, crashes>>

read_timestamp(i) == inode[i].head # Nil /\ ~(inode[i].head.until < now)

Intact_NoCrc(i) == /\ inode[i].head # Nil
                   /\ inode[i].head.size <= Len(inode[i].blocks)

Intact(i) == LET h == inode[i].head IN
             /\ h # Nil
             /\ h.size <= Len(inode[i].blocks)
             /\ SubSeq(inode[i].blocks, 1, h.size) = h.crc

Content(i) == [data |-> SubSeq(inode[i].blocks, 1, inode[i].head.size),
               until |-> inode[i].head.until]

unlink(t) == dir' = [dir EXCEPT ![thread[t].sid] = Nil]

\* read_from_file(); a file that is expired or torn is removed.
load(t) ==
    LET i == thread[t].fd IN
    /\ thread[t].pc = "load"
    /\ IF read_timestamp(i) /\ Intact(i)
       THEN got' = [got EXCEPT ![t] = Content(i)] /\ UNCHANGED dir
       ELSE got' = [got EXCEPT ![t] = Nil] /\ unlink(t)
    /\ Goto(t, "leave")
    /\ UNCHANGED <<inode, now, called, crashes>>

remove(t) ==
    /\ thread[t].pc = "remove"
    /\ unlink(t)
    /\ Goto(t, "leave")
    /\ UNCHANGED <<inode, got, now, called, crashes>>

\* gc() does this for every name it finds in the directory.
gc(t) ==
    /\ thread[t].pc = "gc"
    /\ IF read_timestamp(thread[t].fd) THEN UNCHANGED dir ELSE unlink(t)
    /\ Goto(t, "leave")
    /\ UNCHANGED <<inode, got, now, called, crashes>>
-----------------------------------------------------------------------------
Tick == /\ now < MaxTime
        /\ now' = now + 1
        /\ UNCHANGED <<dir, inode, thread, got, called, crashes>>

Of(p) == {t \in DOMAIN ProcOf : ProcOf[t] = p}

\* A process dies.  Its files are closed and unlocked, and with them its own
\* mutexes are gone; a mutex of all processes is not unlocked.  Another process
\* takes its place.
Crash(p) ==
    /\ crashes < setup.crashes
    /\ crashes' = crashes + 1
    /\ thread' = [t \in Threads |->
                     IF t \notin Of(p) THEN thread[t]
                     ELSE IF HasMutex(t) /\ ~file_lock_ THEN [thread[t] EXCEPT !.pc = "dead"]
                     ELSE Idle]
    /\ got' = [t \in Threads |-> IF t \in Of(p) THEN Nil ELSE got[t]]
    /\ UNCHANGED <<dir, inode, now, called>>

Step(t) == \/ lock(t) \/ open(t) \/ SetLock(t) \/ stat(t) \/ unlock(t)
           \/ WriteHead(t) \/ WriteBlock(t) \/ load(t) \/ remove(t) \/ gc(t)

Next ==
    /\ \/ \E t \in DOMAIN ProcOf, s \in Sids :
             \/ \E c \in Contents, u \in 0..MaxTime : Enter(t, Call("save", s, c, u))
             \/ \E op \in {"load", "remove", "gc"} : Enter(t, Call(op, s, Nil, Nil))
       \/ \E t \in DOMAIN ProcOf : Step(t) \/ SetLockFails(t) \/ WriteFails(t)
       \/ Tick
       \/ \E t \in DOMAIN ProcOf : Crash(ProcOf[t])
    /\ UNCHANGED setup

Spec == Init /\ [][Next]_vars

\* Every thread that can go on does; a lock that is released often enough is
\* obtained.
Fairness == \A t \in Threads : /\ WF_vars(Step(t) /\ UNCHANGED setup)
                               /\ SF_vars(lock(t) /\ UNCHANGED setup)
                               /\ SF_vars(SetLock(t) /\ UNCHANGED setup)
-----------------------------------------------------------------------------
(* Properties *)

TypeOK ==
    /\ dir \in [Sids -> Inodes \cup {Nil}]
    /\ \A i \in Inodes : inode[i].blocks \in Seq(UNION {ToSet(c) : c \in Contents})
    /\ \A t \in Threads :
          /\ thread[t].pc \in {"idle", "enter", "open", "lock", "stat", "leave", "dead",
                               "save", "data", "load", "remove", "gc"}
          /\ thread[t].pc \in {"lock", "stat", "save", "data", "load", "remove", "gc"} =>
                thread[t].fd \in Inodes
    /\ now \in 0..MaxTime /\ called \in 0..setup.calls /\ crashes \in 0..setup.crashes

\* A thread that works on a file has the file of that name, and nobody else
\* works on it: the file was not replaced while the thread waited for the lock.
\* (The state is well typed throughout.)
OwnsTheFile ==
    /\ TypeOK
    /\ \A t \in Threads : thread[t].pc \in {"save", "data", "load", "remove", "gc"} =>
          /\ dir[thread[t].sid] = thread[t].fd
          /\ \A u \in Threads \ {t} :
                thread[u].pc \in {"save", "data", "load", "remove", "gc"} =>
                    thread[u].fd # thread[t].fd

\* A mutex of all processes was locked by a process that died: it is not robust,
\* so nobody unlocks it and who waits for it waits forever.
Stuck(t) == /\ ~file_lock_
            /\ thread[t].pc = "enter"
            /\ \E u \in Threads : thread[u].pc = "dead" /\ SharesMutex(t, u)

\* The storage keeps its promise, over threads, processes, garbage collection,
\* crashes and failing writes: a saved record is returned unless it was
\* replaced, removed, expired, or its replacement was cut short.
Writers(s) == {t \in Threads : thread[t].pc = "data" /\ thread[t].sid = s}

Store == INSTANCE SessionStore WITH
    Clients <- Threads,
    record <- [s \in Sids |->
                  IF Writers(s) # {}
                  THEN LET t == CHOOSE t \in Writers(s) : TRUE
                       IN  [data |-> thread[t].data, until |-> thread[t].until]
                  ELSE IF dir[s] # Nil /\ Intact(dir[s]) THEN Content(dir[s]) ELSE Nil],
    saving <- [t \in Threads |-> IF thread[t].pc = "data" THEN thread[t].sid ELSE Nil],
    removing <- [t \in Threads |-> IF InCall(t) /\ thread[t].op = "remove"
                                   THEN thread[t].sid ELSE Nil],
    loaded <- got,
    clock <- now

ImplementsStore == Store!SSpec
=============================================================================
