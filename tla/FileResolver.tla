---------------------------- MODULE FileResolver ----------------------------
(***************************************************************************)
(* A file resolver (resolver/file.go): a table of addresses read from a    *)
(* hosts or lease file, with a second one from the configuration, and the  *)
(* goroutine that reads the file again at every tick.  A chain of          *)
(* resolvers (ResolverChain) builds it, asks it and closes it.             *)
(*                                                                         *)
(* A file is what its parser makes of it, the address of every name.       *)
(* Somebody else writes the file: what a reader finds while it is being    *)
(* written is one more content.                                            *)
(***************************************************************************)
EXTENDS DnsData

CONSTANTS FileAddress,   \* addresses that the file gives
          InConfig,      \* extraContent: the address of every name, or NoAddress
          MaxEdits       \* times the file is written

Table == [Name -> FileAddress \cup {NoAddress}]
EmptyTable == [n \in Name |-> NoAddress]

ASSUME FileAssumption == /\ FileAddress \subseteq Nat \ {NoAddress}
                         /\ InConfig \in Table
                         /\ MaxEdits \in Nat

VARIABLES file,        \* [readable, table]: the file at location
          inMemory,    \* the table in force
          fileLoop,    \* the goroutine: pc, stop, the table it has read
          edits

fileVars == <<file, inMemory, fileLoop, edits>>

FileLoopOff == [pc |-> "off", stop |-> FALSE, parsed |-> EmptyTable]
ReadFile(old) == IF file.readable THEN file.table ELSE old

FileTypeOK == /\ file \in [readable : BOOLEAN, table : Table]
              /\ inMemory \in Table
              /\ fileLoop \in [pc : {"off", "select", "parsed", "ended"},
                               stop : BOOLEAN, parsed : Table]
              /\ edits \in 0..MaxEdits

FileInit == /\ file \in [readable : BOOLEAN, table : Table]
            /\ inMemory = EmptyTable
            /\ fileLoop = FileLoopOff
            /\ edits = 0

\* The file is written, or becomes unreadable.
FileEdit == /\ edits < MaxEdits
            /\ edits' = edits + 1
            /\ file' \in [readable : BOOLEAN, table : Table] \ {file}
            /\ UNCHANGED <<inMemory, fileLoop>>

-----------------------------------------------------------------------------
\* NewFile reads the file once before it starts the goroutine.
FileNew == /\ inMemory' = ReadFile(EmptyTable)
           /\ fileLoop' = [FileLoopOff EXCEPT !.pc = "select"]
           /\ UNCHANGED <<file, edits>>

\* A tick.  A file that cannot be read leaves the table as it is.  A tick that
\* waits in its channel when stop is closed, and is taken first, is a tick just
\* before the stop.
FileRead == /\ fileLoop.pc = "select" /\ ~fileLoop.stop
            /\ file.readable
            /\ fileLoop' = [fileLoop EXCEPT !.pc = "parsed", !.parsed = file.table]
            /\ UNCHANGED <<file, inMemory, edits>>

Installed == fileLoop.parsed

FileInstall == /\ fileLoop.pc = "parsed"
               /\ inMemory' = Installed
               /\ fileLoop' = [fileLoop EXCEPT !.pc = "select", !.parsed = EmptyTable]
               /\ UNCHANGED <<file, edits>>

FileExit == /\ fileLoop.pc = "select" /\ fileLoop.stop
            /\ fileLoop' = [FileLoopOff EXCEPT !.pc = "ended", !.stop = TRUE]
            /\ UNCHANGED <<file, inMemory, edits>>

\* Close stops the ticker, closes stop and waits for the goroutine.
FileStop == /\ ~fileLoop.stop
            /\ fileLoop' = [fileLoop EXCEPT !.stop = TRUE]
            /\ UNCHANGED <<file, inMemory, edits>>

FileStopped == fileLoop.pc = "ended"
-----------------------------------------------------------------------------
\* Accept and Resolve, each under a read lock of its own.
FileAccepts(n) == InConfig[n] # NoAddress \/ inMemory[n] # NoAddress
FileAddressOf(n) == IF inMemory[n] # NoAddress THEN inMemory[n] ELSE InConfig[n]
=============================================================================
