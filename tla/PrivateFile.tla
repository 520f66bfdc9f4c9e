---------------------------- MODULE PrivateFile ----------------------------
(***************************************************************************)
(* Replacing, reading and deleting one private text file without a lock    *)
(* (store/private_file.py, the POSIX half), with the death of a process    *)
(* between any two system calls and the loss of power.  CredentialStore    *)
(* takes from here that a write is one step and survives.                  *)
(***************************************************************************)
EXTENDS Integers, Sequences

CONSTANTS
    FileUsers,      \* processes
    MaxWrites,      \* bound: temporary files ever created
    MaxUnlinks      \* bound: deletions that reach unlink

ASSUME PrivateFileAssumption == MaxWrites \in Nat /\ MaxUnlinks \in Nat

VARIABLES
    names,      \* what the path named over time: an inode, or 0
    durable,    \* index in names that the directory on disk has at least
    promised,   \* history: index in names of the last call that returned
    inodes,     \* per inode: its text is written, and is on disk
    user,       \* per process: its step, the inode it opened and the one it made
    unlinks     \* how many unlinks so far

fileVars == <<names, durable, promised, inodes, user, unlinks>>

Named == names[Len(names)]
Idle == [pc |-> "idle", opened |-> 0, own |-> 0]

FileInit ==
    /\ names = <<0>> /\ durable = 1 /\ promised = 1
    /\ inodes = <<>>
    /\ user = [p \in FileUsers |-> Idle]
    /\ unlinks = 0

(* p goes from one system call to the next and changes nothing shared.     *)
Advance(p, from, to) ==
    /\ user[p].pc = from
    /\ user' = [user EXCEPT ![p].pc = to]

(* The call returns or raises; finally closes what it opened.              *)
EndCall(p) == user' = [user EXCEPT ![p] = Idle]

OpenAs(p, pc) ==
    /\ user[p].pc = "idle"
    /\ user' = [user EXCEPT ![p] = [Idle EXCEPT !.pc = pc, !.opened = Named]]
    /\ UNCHANGED <<names, durable, promised, inodes, unlinks>>

-----------------------------------------------------------------------------
(* write_private_text                                                      *)

WriteOpen(p) == Len(inodes) < MaxWrites /\ OpenAs(p, "create")

CreateTemporary(p) ==
    /\ user[p].pc = "create" /\ Len(inodes) < MaxWrites
    /\ inodes' = Append(inodes, [whole |-> FALSE, synced |-> FALSE])
    /\ user' = [user EXCEPT ![p].pc = "fill", ![p].own = Len(inodes) + 1]
    /\ UNCHANGED <<names, durable, promised, unlinks>>

FillTemporary(p) ==
    /\ Advance(p, "fill", "sync")
    /\ inodes' = [inodes EXCEPT ![user[p].own].whole = TRUE]
    /\ UNCHANGED <<names, durable, promised, unlinks>>

(* Mutation: the temporary file is not flushed.                            *)
SyncTemporarySkipped(p) ==
    /\ Advance(p, "sync", "verify")
    /\ UNCHANGED <<names, durable, promised, inodes, unlinks>>

SyncTemporary(p) ==
    /\ Advance(p, "sync", "verify")
    /\ inodes' = [inodes EXCEPT ![user[p].own].synced = TRUE]
    /\ UNCHANGED <<names, durable, promised, unlinks>>

(* _verify_open_name of the destination: only if there was one.            *)
VerifyDestination(p) ==
    /\ user[p].opened \in {0, Named}
    /\ Advance(p, "verify", "replace")
    /\ UNCHANGED <<names, durable, promised, inodes, unlinks>>

ReplaceFile(p) ==
    /\ Advance(p, "replace", "confirm")
    /\ names' = Append(names, user[p].own)
    /\ UNCHANGED <<durable, promised, inodes, unlinks>>

ConfirmReplaced(p) ==
    /\ Named = user[p].own
    /\ Advance(p, "confirm", "syncdir")
    /\ UNCHANGED <<names, durable, promised, inodes, unlinks>>

(* fsync of the directory, and the return.                                 *)
WriteReturns(p) ==
    /\ user[p].pc = "syncdir"
    /\ durable' = Len(names)
    /\ promised' = CHOOSE i \in DOMAIN names : names[i] = user[p].own
    /\ EndCall(p)
    /\ UNCHANGED <<names, inodes, unlinks>>

-----------------------------------------------------------------------------
(* read_private_text and delete_private_file                               *)

ReadOpen(p) == Named # 0 /\ OpenAs(p, "read")

ReadText(p) ==
    /\ Advance(p, "read", "reread")
    /\ UNCHANGED <<names, durable, promised, inodes, unlinks>>

(* _verify_open_name once more.  Between it and the return the file may    *)
(* be replaced: the text returned is then the one before.                  *)
ReadVerify(p) ==
    /\ user[p].opened = Named
    /\ Advance(p, "reread", "return")
    /\ UNCHANGED <<names, durable, promised, inodes, unlinks>>

ReadReturns(p) ==
    /\ user[p].pc = "return"
    /\ EndCall(p)
    /\ UNCHANGED <<names, durable, promised, inodes, unlinks>>

DeleteOpen(p) == Named # 0 /\ unlinks < MaxUnlinks /\ OpenAs(p, "check")

DeleteVerify(p) ==
    /\ user[p].opened = Named
    /\ Advance(p, "check", "unlink")
    /\ UNCHANGED <<names, durable, promised, inodes, unlinks>>

(* unlink is by name.  The link count of the opened inode is 0 afterwards  *)
(* whichever file the name had become.                                     *)
Unlink(p) ==
    /\ Named # 0 /\ unlinks < MaxUnlinks
    /\ Advance(p, "unlink", "unlinked")
    /\ names' = Append(names, 0)
    /\ unlinks' = unlinks + 1
    /\ UNCHANGED <<durable, promised, inodes>>

DeleteReturns(p) ==
    /\ user[p].pc = "unlinked"
    /\ durable' = Len(names)
    /\ EndCall(p)
    /\ UNCHANGED <<names, promised, inodes, unlinks>>

-----------------------------------------------------------------------------

(* UnsafeDatabasePathError or OSError on the way, or death of the process. *)
Breaks(p) ==
    /\ user[p].pc # "idle"
    /\ EndCall(p)
    /\ UNCHANGED <<names, durable, promised, inodes, unlinks>>

(* The disk has some state of the directory since its last fsync; a file   *)
(* that was not synced has lost its text.                                  *)
PowerLoss ==
    /\ \E k \in durable..Len(names) :
          /\ names' = SubSeq(names, 1, k)
          /\ durable' = k
    /\ inodes' = [i \in DOMAIN inodes |->
                     [inodes[i] EXCEPT !.whole = @ /\ inodes[i].synced]]
    /\ user' = [p \in FileUsers |-> Idle]
    /\ UNCHANGED <<promised, unlinks>>

FileNext ==
    \/ \E p \in FileUsers :
        \/ WriteOpen(p) \/ CreateTemporary(p) \/ FillTemporary(p)
        \/ SyncTemporary(p) \/ VerifyDestination(p) \/ ReplaceFile(p)
        \/ ConfirmReplaced(p) \/ WriteReturns(p)
        \/ ReadOpen(p) \/ ReadText(p) \/ ReadVerify(p) \/ ReadReturns(p)
        \/ DeleteOpen(p) \/ DeleteVerify(p) \/ Unlink(p) \/ DeleteReturns(p)
        \/ Breaks(p)
    \/ PowerLoss

FileSpec == FileInit /\ [][FileNext]_fileVars

-----------------------------------------------------------------------------

(* The path never names a half-written file, not even after a loss of      *)
(* power between any two calls of any writers.                             *)
NamedFileWhole == Named # 0 => inodes[Named].whole

(* A write that has returned is not undone by a loss of power.             *)
ReturnedWriteSurvives == promised <= Len(names)

(* Whatever replaces or removes the file while it is read, the reader has  *)
(* the whole text of one write.                                            *)
ReadersHoldWholeText ==
    \A p \in FileUsers :
        user[p].pc \in {"read", "reread", "return"} => inodes[user[p].opened].whole

(* Replacement is atomic, for readers too, and durable                     *)
(* (write_private_text, read_private_text).                                *)
FileInv == NamedFileWhole /\ ReturnedWriteSurvives /\ ReadersHoldWholeText
=============================================================================
