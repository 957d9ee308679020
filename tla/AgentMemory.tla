----------------------------- MODULE AgentMemory ------------------------------
(***************************************************************************)
(* The conversation memory of crates/mtw-ai/src/memory.rs: messages are    *)
(* added one after the other, and a summary takes the place of the older   *)
(* ones when there are too many.                                           *)
(***************************************************************************)
EXTENDS Integers, Sequences

CONSTANTS Sizes,       \* what max_messages may be
          MaxMessages  \* bound: messages added

ASSUME MemoryAssumption == Sizes \subseteq Nat /\ MaxMessages \in Nat

VARIABLES
    maxMessages,  \* max_messages
    memory,       \* the messages: a message is its number, 0 is a summary
    said,         \* messages added since the memory was cleared
    prompted      \* the first of them is a system message

memoryVars == <<maxMessages, memory, said, prompted>>

MemoryTypeOK ==
    /\ maxMessages \in Sizes
    /\ memory \in Seq(0..MaxMessages)
    /\ said \in 0..MaxMessages
    /\ prompted \in BOOLEAN

MemoryInit ==
    /\ maxMessages \in Sizes
    /\ memory = <<>> /\ said = 0 /\ prompted = FALSE

-----------------------------------------------------------------------------

\* Only a conversation's first message is looked at for its role.
AddMessage(system) ==
    /\ said < MaxMessages /\ (system => said = 0)
    /\ memory' = Append(memory, said + 1)
    /\ said' = said + 1
    /\ prompted' = (prompted \/ system)
    /\ UNCHANGED maxMessages

ClearMemory ==
    /\ memory' = <<>> /\ said' = 0 /\ prompted' = FALSE
    /\ UNCHANGED maxMessages

\* Fault: the summary itself is counted among the messages to keep.
LastOf(s, n) == IF Len(s) <= n \/ n = 0 THEN <<>> ELSE SubSeq(s, Len(s) - n + 2, Len(s))

\* get_recent()
Recent(s, n) == IF Len(s) <= n THEN s ELSE SubSeq(s, Len(s) - n + 1, Len(s))

\* A summary is a system message too: the next one keeps it like a prompt.
HasSystem == memory # <<>> /\ (memory[1] = 0 \/ (memory[1] = 1 /\ prompted))

SummarizeContext ==
    /\ Len(memory) > maxMessages
    /\ LET keep == maxMessages \div 2
       IN memory' = IF HasSystem /\ Len(memory) > keep + 1
                    THEN <<memory[1], 0>> \o Recent(memory, keep)
                    ELSE <<0>> \o Recent(memory, keep)
    /\ UNCHANGED <<maxMessages, said, prompted>>

MemoryNext ==
    \/ \E system \in BOOLEAN : AddMessage(system)
    \/ ClearMemory \/ SummarizeContext

MemorySpec == MemoryInit /\ [][MemoryNext]_memoryVars

-----------------------------------------------------------------------------

\* However often the memory is summarized, the latest messages are at its end,
\* in order: half as many as it is to hold, or all there were; and a system
\* message that began the conversation is still its first, unless max_messages
\* is 0, as Default has it (memory.rs:55-96).
RecentKept ==
    LET half == maxMessages \div 2
        n == IF said < half THEN said ELSE half
    IN /\ Len(memory) >= n
       /\ \A i \in 1..n : memory[Len(memory) - n + i] = said - n + i
       /\ prompted /\ maxMessages # 0 => memory[1] = 1

===============================================================================
