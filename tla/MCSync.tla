------------------------------- MODULE MCSync -------------------------------
(* Programs for Sync.  Three clients take the semaphore and give it back,  *)
(* one of them twice; two of them also share a lock and the third has one  *)
(* of its own.  A and B are the threads of system_tests.                   *)
EXTENDS Sync

Wait == [op |-> "wait", lock |-> "inner"]
Signal == [op |-> "signal", lock |-> "inner"]
On(o, l) == [op |-> o, lock |-> l]

Clients == {"a", "b", "c"}
ClientProgram ==
    [t \in Clients |->
        CASE t = "a" -> <<Wait, Signal, Wait, Signal>>
          [] t = "b" -> <<Wait, On("spin_lock", "lock1"), Signal, On("unlock", "lock1")>>
          [] t = "c" -> <<On("lock", "lock2"), On("spin_lock", "lock1"), Wait,
                          On("unlock", "lock1"), Signal, On("unlock", "lock2")>>]

SystemTests == {"a", "b"}
SystemTestProgram ==
    [t \in SystemTests |->
        IF t = "a"
        THEN <<On("lock", "lock2"), On("spin_lock", "lock1"), On("unlock", "lock2"),
               On("unlock", "lock1"), Wait>>
        ELSE <<Wait, On("unlock", "lock1"), On("spin_lock", "lock2"),
               On("unlock", "lock2"), Signal>>]
=============================================================================
