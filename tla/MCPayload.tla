------------------------------ MODULE MCPayload ------------------------------
(***************************************************************************)
(* The payload headers, which share nothing: a behaviour is about the      *)
(* payload builder, about VariableBatch, or about the two coders, which    *)
(* are given one input after the other.  The coders have bytes of          *)
(* SmallNibble squared values, so that inputs can outgrow their window.    *)
(***************************************************************************)
EXTENDS CompressedPayload

CONSTANTS
  NameSizes, DataSizes, NameWrap, MaxBatch, Timeout, Numbers,   \* VariableBatch
  SmallNibble,
  MaxInput,     \* bound: bytes in an input of any values
  MaxClean      \* bound: bytes in an input that has no top bits set

ASSUME BatchAssumption ==
  /\ NameSizes \subseteq Nat /\ DataSizes \subseteq Nat
  /\ NameWrap \in Nat \ {0} /\ MaxBatch \in Nat \ {0}
  /\ Timeout \in Nat /\ Numbers \in Nat \ {0}

ASSUME SmallNibbleAssumption == SmallNibble \in Nat \ {0} /\ SmallNibble % 2 = 0

VARIABLES
  subject,
  entries, age, full, next, sent,   \* VariableBatch
  input                             \* what the coders are given

Batch == INSTANCE VariableBatch
Coder == INSTANCE PayloadCompression WITH Nibble <- SmallNibble

batchVars == <<entries, age, full, next, sent>>

\* A long run; a period with top bits set; many escapes.
MCVariables == {
  [name |-> <<1, 2>>, type |-> 6, data |-> Repeat(0, 20)],
  [name |-> <<1, 2, 3>>, type |-> 6, data |-> <<4, 5, 6, 9, 4, 5, 6, 9, 4, 5, 6, 9, 4, 5, 6, 9>>],
  [name |-> <<15>>, type |-> 15, data |-> <<15, 15, 15, 15, 0, 15, 15>>]}

MCInit ==
  /\ subject \in {"builder", "batch", "coders"}
  /\ Init /\ Batch!Init
  /\ input = <<>>

BuilderMoves ==
  /\ subject = "builder"
  /\ Next
  /\ UNCHANGED <<subject, batchVars, input>>

BatchMoves ==
  /\ subject = "batch"
  /\ Batch!Next
  /\ UNCHANGED <<subject, vars, input>>

NextInput ==
  /\ subject = "coders"
  /\ \E b \in 0 .. Coder!Byte - 1 :
       /\ input' = Append(input, b)
       /\ \/ Len(input') <= MaxInput
          \/ Len(input') <= MaxClean /\ \A i \in DOMAIN input' : input'[i] < Coder!High
  /\ UNCHANGED <<subject, vars, batchVars>>

MCNext == BuilderMoves \/ BatchMoves \/ NextInput

MCSpec == MCInit /\ [][MCNext]_<<subject, vars, batchVars, input>>
-----------------------------------------------------------------------------
MCTypeOK == TypeOK /\ Batch!TypeOK

ReceiverRecovers == Batch!ReceiverRecovers
NoneLostOrRepeated == Batch!NoneLostOrRepeated

\* Run-length coding is undone on every input; dictionary coding ends and is
\* undone up to each byte's top bit, on every input without a match that lies a
\* whole window back.
CodersRestore == Coder!RleRestores(input) /\ Coder!DictRestores(input)
=============================================================================
