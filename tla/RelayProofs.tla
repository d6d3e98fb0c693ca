---------------------------- MODULE RelayProofs -----------------------------
(***************************************************************************)
(* Theorems about Relay, for any number of chains, users, validators and   *)
(* messages.  What users do with the command line client are steps of      *)
(* Warp, so that all its theorems hold; on top of its invariant stand the  *)
(* commands that are under way and the imports that users were told of.    *)
(***************************************************************************)
EXTENDS Relay, WarpProofs

-----------------------------------------------------------------------------
(* The inductive invariant.                                                *)

\* The message a command is about was sent, and an import that is about to be
\* submitted fills its order or has waited for it to expire.
Sought(u) ==
  \E m \in sent :
    /\ m.TxID = cmd[u].id
    /\ At(u, "import") =>
         /\ cmd[u].fill \in BOOLEAN
         /\ cmd[u].fill => m.swap.SwapIn > 0
         /\ ~ cmd[u].fill => m.swap.SwapExpiry <= now

\* What the prompts of export-asset have settled.
Settled(u) ==
  LET c == cmd[u].chain
      e == cmd[u].export
  IN /\ c \in Chains /\ e \in Exports
     /\ ValidSwapParams(e.Value, e.swap)
     /\ e.Return <=> e.Asset \notin Originals
     /\ e.Return => e.Destination = e.Asset[2]

Commands ==
  /\ cmd = [u \in Addresses |-> cmd[u]]
  /\ \A u \in Addresses :
       /\ At(u, "export") => Settled(u)
       /\ At(u, "sign") \/ At(u, "fill") \/ At(u, "import") => Sought(u)

\* There is room for the messages that are about to be sent.
Exporters == {u \in Addresses : At(u, "export")}
Room == Cardinality(sent) + Cardinality(Exporters) <= MaxMessages

\* Messages are told apart by the ID of their transaction.
Distinct ==
  /\ \A m \in sent : m.TxID > 0
  /\ \A m, n \in sent : m.TxID = n.TxID => m = n

\* Users are told of the imports that happened, and of each once.
Arrived(id) == \E m \in sent : m.TxID = id /\ m \in chain[m.DestinationChainID].imported
Told ==
  /\ arrived = [id \in IDs |-> arrived[id]]
  /\ \A id \in IDs : arrived[id] = IF Arrived(id) THEN 1 ELSE 0

RelayInv == Inv /\ Commands /\ Room /\ Distinct /\ Told

-----------------------------------------------------------------------------
(* A command goes on, the others stay where they are.                      *)

\* Goto moves one user's command and leaves the others alone.
LEMMA GotoDoes ==
  ASSUME Commands, NEW u \in Addresses, NEW k, Goto(u, k)
  PROVE  /\ cmd' = [w \in Addresses |-> cmd'[w]]
         /\ cmd'[u] = k
         /\ \A w \in Addresses \ {u} : cmd'[w] = cmd[w]
<1>1. cmd = [w \in Addresses |-> cmd[w]]
  BY DEF Commands
<1>2. cmd' = [cmd EXCEPT ![u] = k]
  BY DEF Goto
<1> QED BY <1>1, <1>2

\* The users who are about to export: u begins to,
LEMMA ExportersMore ==
  ASSUME Commands, NEW u \in Addresses, NEW k, Goto(u, k), k.step = "export",
         ~ At(u, "export")
  PROVE  /\ Cardinality(Exporters)' = Cardinality(Exporters) + 1
         /\ Cardinality(Exporters) \in Nat
<1>1. IsFiniteSet(Exporters) /\ u \notin Exporters
  BY WarpAssumption, FS_Subset DEF Exporters
<1>2. Exporters' = Exporters \cup {u}
  BY GotoDoes DEF Exporters, At
<1> QED BY <1>1, <1>2, FS_AddElement, FS_CardinalityType

\* or does something else than that.
LEMMA ExportersFewer ==
  ASSUME Commands, NEW u \in Addresses, NEW k, Goto(u, k), k.step # "export"
  PROVE  /\ Cardinality(Exporters) \in Nat /\ Cardinality(Exporters)' \in Nat
         /\ Cardinality(Exporters)' = Cardinality(Exporters)
                                        - (IF At(u, "export") THEN 1 ELSE 0)
<1>1. IsFiniteSet(Exporters)
  BY WarpAssumption, FS_Subset DEF Exporters
<1>2. Exporters' = Exporters \ {u} /\ (u \in Exporters <=> At(u, "export"))
  BY GotoDoes DEF Exporters, At
<1>3. CASE At(u, "export")
  BY <1>1, <1>2, <1>3, FS_RemoveElement, FS_CardinalityType
<1>4. CASE ~ At(u, "export")
  <2>1. Exporters' = Exporters
    BY <1>2, <1>4
  <2> QED BY <1>1, <1>4, <2>1, FS_CardinalityType
<1> QED BY <1>3, <1>4


-----------------------------------------------------------------------------
(* Every step of a user is one of Warp.                                    *)

\* The client finds the message it asks for.
LEMMA MessageIs ==
  ASSUME Distinct, NEW m \in sent
  PROVE  Message(m.TxID) = m
  BY DEF Distinct, Message

\* The message that an import looks for has been sent, and what was answered
\* about its order fits it.
LEMMA SoughtIs ==
  ASSUME Distinct, NEW u \in Addresses, Sought(u)
  PROVE  /\ Message(cmd[u].id) \in sent
         /\ Message(cmd[u].id).TxID = cmd[u].id
         /\ At(u, "import") =>
              /\ cmd[u].fill \in BOOLEAN
              /\ cmd[u].fill => Message(cmd[u].id).swap.SwapIn > 0
              /\ ~ cmd[u].fill => Message(cmd[u].id).swap.SwapExpiry <= now
<1>1. PICK m \in sent :
        /\ m.TxID = cmd[u].id
        /\ At(u, "import") =>
             /\ cmd[u].fill \in BOOLEAN
             /\ cmd[u].fill => m.swap.SwapIn > 0
             /\ ~ cmd[u].fill => m.swap.SwapExpiry <= now
  BY DEF Sought
<1>2. Message(cmd[u].id) = m
  BY <1>1, MessageIs
<1> QED BY <1>1, <1>2

\* The export of a user who was asked for everything is one of Warp's.
LEMMA ExportIsNext ==
  ASSUME RelayInv, NEW u \in Addresses, At(u, "export"),
         ExportTx(cmd[u].chain, u, cmd[u].export)
  PROVE  Next /\ cmd[u].chain \in Chains /\ cmd[u].export \in Exports
<1> DEFINE c == cmd[u].chain
           e == cmd[u].export
<1>1. c \in Chains /\ e \in Exports
  BY DEF RelayInv, Commands, Settled
<1>2. IsFiniteSet(Exporters) /\ u \in Exporters /\ IsFiniteSet(sent)
  BY WarpAssumption, FS_Subset DEF Exporters, RelayInv, Inv, Shape
<1>3. Cardinality(Exporters) \in Nat /\ Cardinality(Exporters) # 0 /\ Cardinality(sent) \in Nat
  BY <1>2, FS_CardinalityType, FS_EmptySet
<1>4. Cardinality(sent) < MaxMessages
  BY <1>3, WarpAssumption DEF RelayInv, Room
<1> HIDE DEF c, e
<1>5. ExportTx(c, u, e)
  BY DEF c, e
<1>6. Next
  BY <1>1, <1>4, <1>5 DEF Next
<1> QED BY <1>1, <1>6 DEF c, e

\* The import of a user who has the signatures is one of Warp's.
LEMMA ImportIsNext ==
  ASSUME RelayInv, NEW u \in Addresses, At(u, "import"),
         ImportTx(Message(cmd[u].id).DestinationChainID, u, Message(cmd[u].id), cmd[u].fill)
  PROVE  /\ Next /\ Message(cmd[u].id) \in sent
         /\ Importing(Message(cmd[u].id).DestinationChainID, Message(cmd[u].id))
<1> DEFINE m == Message(cmd[u].id)
           c == m.DestinationChainID
           f == cmd[u].fill
<1>1. m \in sent /\ f \in BOOLEAN
  BY SoughtIs DEF RelayInv, Commands
<1>2. Shape
  BY DEF RelayInv, Inv
<1>3. m \in WarpTransfers
  BY <1>1, <1>2 DEF Shape
<1>4. c \in Chains
  BY <1>3, FieldTypes
<1> HIDE DEF m, c, f
<1>5. ImportTx(c, u, m, f)
  BY DEF m, c, f
<1>6. Next
  BY <1>1, <1>4, <1>5 DEF Next
<1>7. Importing(c, m)
  BY <1>1, <1>2, <1>4, <1>5, ImportStep
<1> QED BY <1>1, <1>6, <1>7 DEF m, c

\* What is done elsewhere is a transfer, or time passes.
LEMMA ElsewhereIsNext ==
  ASSUME Elsewhere
  PROVE  Next
<1>1. CASE Tick
  BY <1>1 DEF Next
<1>2. ASSUME NEW c \in Chains, NEW u \in Addresses, NEW to \in Addresses,
             NEW x \in Assets, NEW v \in Values, TransferTx(c, u, to, x, v)
      PROVE  Next
  BY <1>2 DEF Next
<1> QED BY <1>1, <1>2 DEF Elsewhere

\* A step of users and network is a step of the chains.
LEMMA RelayIsNext ==
  ASSUME RelayInv, [RelayNext]_relay
  PROVE  [Next]_vars
<1>1. CASE UNCHANGED relay
  BY <1>1 DEF relay
<1>2. CASE Elsewhere
  BY <1>2, ElsewhereIsNext
<1>3. ASSUME NEW u \in Addresses, SubmitExport(u)
      PROVE  Next \/ UNCHANGED vars
  BY <1>3, ExportIsNext DEF SubmitExport
<1>4. ASSUME NEW u \in Addresses, SubmitImport(u)
      PROVE  Next \/ UNCHANGED vars
  BY <1>4, ImportIsNext DEF SubmitImport
<1>5. ASSUME NEW u \in Addresses, NEW c, NEW e, PromptExport(u, c, e)
      PROVE  UNCHANGED vars
  BY <1>5 DEF PromptExport
<1>6. ASSUME NEW u \in Addresses, NEW id,
             StartImport(u, id) \/ (\E S \in SUBSET Validators : Collect(u, id, S))
               \/ (\E fill \in BOOLEAN : ChooseFill(u, id, fill))
      PROVE  UNCHANGED vars
  BY <1>6 DEF StartImport, Collect, ChooseFill
<1>7. ASSUME NEW u \in Addresses, GiveUp(u) \/ Dropped(u)
      PROVE  UNCHANGED vars
  BY <1>7 DEF GiveUp, Dropped
<1> QED BY <1>1, <1>2, <1>3, <1>4, <1>5, <1>6, <1>7 DEF RelayNext


-----------------------------------------------------------------------------
(* Every step keeps the invariant.                                         *)

\* Time does not go back, and no message is forgotten.
Onward == sent \subseteq sent' /\ now' \in Nat /\ now <= now'

\* The fields of a message that was sent are numbers.
LEMMA OrderTypes ==
  ASSUME Inv, NEW m \in sent
  PROVE  /\ m.swap.SwapExpiry \in Nat /\ m.swap.SwapIn \in Nat /\ m.TxID \in Nat
         /\ now \in Nat /\ m \in WarpTransfers
<1>1. m \in WarpTransfers /\ now \in 0 .. MaxTime
  BY DEF Inv, Shape
<1>2. m.swap \in Swaps /\ m.TxID \in Nat
  BY <1>1, FieldTypes
<1>3. m.swap.SwapIn \in Uint64 /\ m.swap.SwapExpiry \in Nat
  BY <1>2 DEF Swaps
<1>4. \A u \in Uint64 : u \in Nat /\ u < Word
  BY Uint64Below
<1>5. now \in Nat
  BY <1>1, WarpAssumption
<1>6. m.swap.SwapIn \in Nat
  BY <1>3, <1>4
<1> QED BY <1>1, <1>2, <1>3, <1>5, <1>6

\* A command that nothing happens to is as good as before.
LEMMA CommandKept ==
  ASSUME Inv, Onward, NEW w \in Addresses, cmd'[w] = cmd[w]
  PROVE  /\ Settled(w) => Settled(w)'
         /\ Sought(w) => Sought(w)'
         /\ \A step : At(w, step)' <=> At(w, step)
<1>1. Settled(w) => Settled(w)'
  BY DEF Settled
<1>2. ASSUME Sought(w) PROVE Sought(w)'
  <2>1. PICK m \in sent :
          /\ m.TxID = cmd[w].id
          /\ At(w, "import") =>
               /\ cmd[w].fill \in BOOLEAN
               /\ cmd[w].fill => m.swap.SwapIn > 0
               /\ ~ cmd[w].fill => m.swap.SwapExpiry <= now
    BY <1>2 DEF Sought
  <2>2. m.swap.SwapExpiry <= now => m.swap.SwapExpiry <= now'
    BY OrderTypes DEF Onward
  <2>3. m \in sent'
    BY DEF Onward
  <2> QED BY <2>1, <2>2, <2>3 DEF Sought, At
<1> QED BY <1>1, <1>2 DEF At

\* One command goes on.
LEMMA CommandsKept ==
  ASSUME Inv, Commands, Onward, NEW u \in Addresses, NEW k, Goto(u, k),
         At(u, "export")' => Settled(u)',
         (At(u, "sign") \/ At(u, "fill") \/ At(u, "import"))' => Sought(u)'
  PROVE  Commands'
<1>1. /\ cmd' = [w \in Addresses |-> cmd'[w]]
      /\ \A w \in Addresses \ {u} : cmd'[w] = cmd[w]
  BY GotoDoes
<1>2. ASSUME NEW w \in Addresses
      PROVE  /\ At(w, "export")' => Settled(w)'
             /\ (At(w, "sign") \/ At(w, "fill") \/ At(w, "import"))' => Sought(w)'
  <2>1. CASE w = u
    BY <2>1
  <2>2. CASE w # u
    <3>1. cmd'[w] = cmd[w]
      BY <1>1, <2>2
    <3>2. /\ At(w, "export") => Settled(w)
          /\ At(w, "sign") \/ At(w, "fill") \/ At(w, "import") => Sought(w)
      BY DEF Commands
    <3> QED BY <3>1, <3>2, CommandKept
  <2> QED BY <2>1, <2>2
<1> QED BY <1>1, <1>2 DEF Commands

\* None does.
LEMMA CommandsStay ==
  ASSUME Inv, Commands, Onward, cmd' = cmd
  PROVE  Commands' /\ Exporters' = Exporters
<1>1. ASSUME NEW w \in Addresses
      PROVE  /\ At(w, "export")' => Settled(w)'
             /\ (At(w, "sign") \/ At(w, "fill") \/ At(w, "import"))' => Sought(w)'
  <2>1. cmd'[w] = cmd[w]
    OBVIOUS
  <2>2. /\ At(w, "export") => Settled(w)
        /\ At(w, "sign") \/ At(w, "fill") \/ At(w, "import") => Sought(w)
    BY DEF Commands
  <2> QED BY <2>1, <2>2, CommandKept
<1>2. cmd' = [w \in Addresses |-> cmd'[w]]
  BY DEF Commands
<1> QED BY <1>1, <1>2 DEF Commands, Exporters, At

\* No message is sent, and none imported.
LEMMA QuietKeeps ==
  ASSUME Distinct, Told, sent' = sent, arrived' = arrived, sent \subseteq WarpTransfers,
         \A c \in Chains : chain'[c].imported = chain[c].imported
  PROVE  Distinct' /\ Told'
<1>1. \A m \in sent : m.DestinationChainID \in Chains
  BY FieldTypes
<1>2. \A id : Arrived(id)' <=> Arrived(id)
  BY <1>1 DEF Arrived
<1> QED BY <1>2 DEF Distinct, Told

\* A message is sent: it has an ID of its own, and was not imported.
LEMMA SentKeeps ==
  ASSUME Shape, Distinct, Told, NEW c \in Chains, NEW e \in Exports, Exporting(c, e),
         arrived' = arrived
  PROVE  /\ Distinct' /\ Told'
         /\ sent \subseteq sent' /\ now' = now
         /\ Cardinality(sent) \in Nat /\ Cardinality(sent') = Cardinality(sent) + 1
         /\ \E m \in sent' : m.TxID = Cardinality(sent')
<1> DEFINE m0 == WarpTransfer(chain[c], c, e, Cardinality(sent) + 1)
<1>1. m0 \in WarpTransfers /\ m0 \notin sent /\ m0.TxID = Cardinality(sent) + 1
  BY NewMessage
<1>2. /\ sent' = sent \cup {m0} /\ now' = now /\ Executes(c)
      /\ chain'[c].imported = chain[c].imported
  BY DEF Exporting
<1> HIDE DEF m0
<1>3. /\ IsFiniteSet(sent) /\ sent \subseteq WarpTransfers
      /\ \A m \in sent : m.TxID <= Cardinality(sent)
      /\ \A d \in Chains : chain[d].imported \subseteq sent
  BY DEF Shape
<1>4. Cardinality(sent) \in Nat /\ Cardinality(sent') = Cardinality(sent) + 1
  BY <1>1, <1>2, <1>3, FS_AddElement, FS_CardinalityType
<1>5. \A m \in sent : m.TxID \in Nat /\ m.TxID # m0.TxID /\ m.DestinationChainID \in Chains
  BY <1>1, <1>3, <1>4, FieldTypes
<1>6. Distinct'
  <2>1. m0.TxID > 0
    BY <1>1, <1>4
  <2> QED BY <1>2, <1>5, <2>1 DEF Distinct
<1>7. \A d \in Chains : chain'[d].imported = chain[d].imported
  BY <1>2 DEF Executes
<1>8. \A id : Arrived(id)' <=> Arrived(id)
  <2>1. m0.DestinationChainID \in Chains
    BY <1>1, FieldTypes
  <2>2. m0 \notin chain'[m0.DestinationChainID].imported
    BY <1>1, <1>3, <1>7, <2>1
  <2>3. \A m \in sent : m \in chain'[m.DestinationChainID].imported
                          <=> m \in chain[m.DestinationChainID].imported
    BY <1>5, <1>7
  <2> QED BY <1>2, <2>2, <2>3 DEF Arrived
<1> QED BY <1>1, <1>2, <1>4, <1>6, <1>8 DEF Told

\* A message is imported, for the first time.
LEMMA ImportedKeeps ==
  ASSUME Shape, Distinct, Told, Cardinality(sent) <= MaxMessages,
         NEW m0 \in sent, Importing(m0.DestinationChainID, m0),
         arrived' = [arrived EXCEPT ![m0.TxID] = @ + 1]
  PROVE  Distinct' /\ Told'
<1> DEFINE d0 == m0.DestinationChainID
           i0 == m0.TxID
<1>1. /\ sent \subseteq WarpTransfers /\ IsFiniteSet(sent) /\ m0.TxID <= Cardinality(sent)
  BY DEF Shape
<1>2. /\ \A m \in sent : m.DestinationChainID \in Chains /\ m.TxID \in Nat
      /\ Cardinality(sent) \in Nat
  BY <1>1, FieldTypes, FS_CardinalityType
<1>3. /\ sent' = sent /\ Executes(d0) /\ m0 \notin chain[d0].imported
      /\ chain'[d0].imported = chain[d0].imported \cup {m0}
  BY DEF Importing
<1>4. Distinct'
  BY <1>3 DEF Distinct
<1>5. \A m \in sent : m \in chain'[m.DestinationChainID].imported
                        <=> m \in chain[m.DestinationChainID].imported \/ m = m0
  <2>1. \A d \in Chains \ {d0} : chain'[d] = chain[d]
    BY <1>3 DEF Executes
  <2> QED BY <1>2, <1>3, <2>1
<1>6. \A m, n \in sent : m.TxID = n.TxID => m = n
  BY DEF Distinct
<1>7. i0 \in IDs
  <2>1. m0.TxID > 0
    BY DEF Distinct
  <2> QED BY <1>1, <1>2, <2>1, WarpAssumption DEF IDs
<1>8. ~ Arrived(i0) /\ Arrived(i0)'
  BY <1>3, <1>5, <1>6 DEF Arrived
<1>9. \A id \in IDs : id # i0 => (Arrived(id)' <=> Arrived(id))
  BY <1>3, <1>5 DEF Arrived
<1>10. arrived = [id \in IDs |-> arrived[id]] /\ arrived[i0] = 0
  BY <1>7, <1>8 DEF Told
<1> HIDE DEF i0
<1>11. /\ arrived' = [id \in IDs |-> arrived'[id]]
       /\ arrived'[i0] = 1 /\ \A id \in IDs : id # i0 => arrived'[id] = arrived[id]
  BY <1>7, <1>10 DEF i0
<1>12. Told'
  <2>1. ASSUME NEW id \in IDs PROVE arrived'[id] = IF Arrived(id)' THEN 1 ELSE 0
    <3>1. CASE id = i0
      BY <1>8, <1>11, <3>1
    <3>2. CASE id # i0
      BY <1>9, <1>11, <3>2 DEF Told
    <3> QED BY <3>1, <3>2
  <2> QED BY <1>11, <2>1 DEF Told
<1> QED BY <1>4, <1>12


\* A step that only moves the command of u.
LEMMA CommandMoves ==
  ASSUME RelayInv, NEW u \in Addresses, NEW k, Goto(u, k), UNCHANGED <<vars, arrived>>,
         k.step = "export" => Settled(u)' /\ ~ At(u, "export")
                                /\ Cardinality(sent) + Cardinality(Exporters) < MaxMessages,
         k.step \in {"sign", "fill", "import"} => Sought(u)'
  PROVE  Commands' /\ Room' /\ Distinct' /\ Told'
<1>1. /\ chain' = chain /\ sent' = sent /\ now' = now /\ arrived' = arrived
      /\ Inv /\ Shape /\ Commands /\ Room /\ Distinct /\ Told
  BY DEF vars, RelayInv, Inv
<1>2. Onward
  <2>1. now \in Nat
    BY <1>1, WarpAssumption DEF Shape
  <2> QED BY <1>1, <2>1 DEF Onward
<1>3. cmd'[u] = k
  BY <1>1, GotoDoes
<1>4. Commands'
  <2>1. At(u, "export")' => Settled(u)'
    BY <1>3 DEF At
  <2>2. (At(u, "sign") \/ At(u, "fill") \/ At(u, "import"))' => Sought(u)'
    BY <1>3 DEF At
  <2> QED BY <1>1, <1>2, <2>1, <2>2, CommandsKept
<1>5. Cardinality(sent) \in Nat /\ MaxMessages \in Nat
  BY <1>1, FS_CardinalityType, WarpAssumption DEF Shape
<1>6. Room'
  <2>1. CASE k.step = "export"
    <3>1. /\ Cardinality(Exporters)' = Cardinality(Exporters) + 1
          /\ Cardinality(Exporters) \in Nat
      BY <1>1, <2>1, ExportersMore
    <3> QED BY <1>1, <1>5, <2>1, <3>1 DEF Room
  <2>2. CASE k.step # "export"
    <3>1. /\ Cardinality(Exporters) \in Nat /\ Cardinality(Exporters)' \in Nat
          /\ Cardinality(Exporters)' = Cardinality(Exporters)
                                        - (IF At(u, "export") THEN 1 ELSE 0)
      BY <1>1, <2>2, ExportersFewer
    <3>2. Cardinality(Exporters)' <= Cardinality(Exporters)
      BY <3>1
    <3> QED BY <1>1, <1>5, <3>1, <3>2 DEF Room
  <2> QED BY <2>1, <2>2
<1>7. sent \subseteq WarpTransfers
  BY <1>1 DEF Shape
<1>8. Distinct' /\ Told'
  BY <1>1, <1>7, QuietKeeps
<1> QED BY <1>4, <1>6, <1>8

\* export-asset asks its questions.
LEMMA PromptExportKeeps ==
  ASSUME RelayInv, NEW u \in Addresses, NEW c \in Chains, NEW e \in Exports,
         PromptExport(u, c, e)
  PROVE  Commands' /\ Room' /\ Distinct' /\ Told'
<1> DEFINE k == [step |-> "export", chain |-> c, export |-> e]
<1>1. /\ At(u, "idle") /\ Goto(u, k) /\ UNCHANGED <<vars, arrived>>
      /\ Cardinality(sent) + Cardinality(Exporters) < MaxMessages
      /\ HasAssetInfo(c, e.Asset) /\ DestinationOk(c, e) /\ ValidSwapParams(e.Value, e.swap)
  BY DEF PromptExport, Exporters
<1>2. Commands /\ Typed(chain[c])
  BY ShapeTyped DEF RelayInv, Inv
<1>3. k.step = "export" /\ k.chain = c /\ k.export = e
  OBVIOUS
<1> HIDE DEF k
<1>4. cmd'[u] = k
  BY <1>1, <1>2, GotoDoes
<1>5. e.Return \in BOOLEAN
  BY FieldTypes
<1>6. e.Return <=> e.Asset \notin Originals
  <2>1. CASE e.Asset = Native
    BY <1>1, <1>5, <2>1 DEF DestinationOk, IsReturn, Originals
  <2>2. CASE e.Asset # Native
    <3>1. e.Asset \in DOMAIN chain[c].asset
      BY <1>1, <2>2 DEF HasAssetInfo
    <3>2. chain[c].asset[e.Asset].warp <=> e.Asset \notin Originals
      BY <1>2, <3>1 DEF Typed
    <3> QED BY <1>1, <1>5, <2>2, <3>2 DEF DestinationOk, IsReturn
  <2> QED BY <2>1, <2>2
<1>7. Settled(u)'
  BY <1>1, <1>3, <1>4, <1>6 DEF Settled, DestinationOk
<1>8. ~ At(u, "export") /\ k.step \notin {"sign", "fill", "import"}
  BY <1>1, <1>3 DEF At
<1> QED BY <1>1, <1>7, <1>8, CommandMoves

\* A command that ends, or goes on with the message it is about.
LEMMA ImportingKeeps ==
  ASSUME RelayInv, NEW u \in Addresses,
         \/ GiveUp(u) \/ Dropped(u)
         \/ \E id \in IDs :
              \/ StartImport(u, id)
              \/ \E S \in SUBSET Validators : Collect(u, id, S)
              \/ \E fill \in BOOLEAN : ChooseFill(u, id, fill)
  PROVE  Commands' /\ Room' /\ Distinct' /\ Told'
<1> DEFINE Goal == Commands' /\ Room' /\ Distinct' /\ Told'
<1>1. Commands /\ Distinct
  BY DEF RelayInv
<1>2. ASSUME Goto(u, NoCommand), UNCHANGED <<vars, arrived>> PROVE Goal
  BY <1>2, CommandMoves DEF NoCommand
<1>3. ASSUME NEW m \in sent, NEW k, Goto(u, k), UNCHANGED <<vars, arrived>>,
             k.id = m.TxID, k.step \in {"sign", "fill"}
      PROVE  Goal
  <2>1. cmd'[u] = k /\ sent' = sent
    BY <1>1, <1>3, GotoDoes DEF vars
  <2>2. Sought(u)'
    BY <1>3, <2>1 DEF Sought, At
  <2> QED BY <1>3, <2>2, CommandMoves
<1>4. ASSUME NEW id \in IDs, StartImport(u, id) PROVE Goal
  <2> DEFINE k == [step |-> "sign", id |-> id]
  <2>1. PICK m \in sent : m.TxID = id
    BY <1>4 DEF StartImport, IsSent
  <2>2. k.id = m.TxID /\ k.step \in {"sign", "fill"}
    BY <2>1
  <2>3. Goto(u, k) /\ UNCHANGED <<vars, arrived>>
    BY <1>4 DEF StartImport
  <2> HIDE DEF k, Goal
  <2> QED BY <1>3, <2>2, <2>3
<1>5. ASSUME NEW id \in IDs, NEW S \in SUBSET Validators, Collect(u, id, S) PROVE Goal
  <2> DEFINE k == [step |-> "fill", id |-> id, sigWeight |-> Weight(S)]
  <2>1. At(u, "sign") /\ cmd[u].id = id /\ Goto(u, k) /\ UNCHANGED <<vars, arrived>>
    BY <1>5 DEF Collect
  <2>2. PICK m \in sent : m.TxID = id
    BY <1>1, <2>1, SoughtIs DEF Commands
  <2>3. k.id = m.TxID /\ k.step \in {"sign", "fill"}
    BY <2>2
  <2> HIDE DEF k, Goal
  <2> QED BY <1>3, <2>1, <2>3
<1>6. ASSUME NEW id \in IDs, NEW fill \in BOOLEAN, ChooseFill(u, id, fill) PROVE Goal
  <2> DEFINE k == [step |-> "import", id |-> id, sigWeight |-> cmd[u].sigWeight,
                   fill |-> fill]
             m == Message(id)
  <2>1. /\ At(u, "fill") /\ cmd[u].id = id /\ UNCHANGED <<vars, arrived>>
        /\ fill => m.swap.SwapIn > 0
        /\ Goto(u, NoCommand) \/ (~ MustFill(m, fill) /\ Goto(u, k))
    <3>1. At(u, "fill") /\ cmd[u].id = id
      BY <1>6 DEF ChooseFill
    <3>2. UNCHANGED <<vars, arrived>>
      BY <1>6 DEF ChooseFill
    <3>3. fill => m.swap.SwapIn > 0
      BY <1>6, Zenon DEF ChooseFill
    <3>4. Goto(u, NoCommand) \/ (~ MustFill(m, fill) /\ Goto(u, k))
      BY <1>6, Zenon DEF ChooseFill
    <3> QED BY <3>1, <3>2, <3>3, <3>4
  <2>2. m \in sent /\ m.TxID = id
    BY <1>1, <2>1, SoughtIs DEF Commands
  <2>3. k.step = "import" /\ k.id = id /\ k.fill = fill
    OBVIOUS
  <2> HIDE DEF k, m
  <2>4. CASE Goto(u, NoCommand)
    BY <1>2, <2>1, <2>4
  <2>5. CASE ~ MustFill(m, fill) /\ Goto(u, k)
    <3>1. cmd'[u] = k /\ sent' = sent /\ now' = now
      BY <1>1, <2>1, <2>5, GotoDoes DEF vars
    <3>2. ~ fill => m.swap.SwapExpiry <= now
      <4>1. m.swap.SwapExpiry \in Nat /\ now \in Nat
        BY <2>2, OrderTypes DEF RelayInv
      <4>2. ~ MustFill(m, fill)
        BY <2>5
      <4> QED BY <4>1, <4>2 DEF MustFill
    <3>3. Sought(u)'
      BY <2>1, <2>2, <2>3, <3>1, <3>2 DEF Sought
    <3> QED BY <2>1, <2>3, <2>5, <3>3, CommandMoves
  <2> QED BY <2>1, <2>4, <2>5
<1>7. CASE GiveUp(u) \/ Dropped(u)
  BY <1>2, <1>7 DEF GiveUp, Dropped
<1> QED BY <1>4, <1>5, <1>6, <1>7


\* The export is executed, or fails.
LEMMA SubmitExportKeeps ==
  ASSUME RelayInv, NEW u \in Addresses, SubmitExport(u)
  PROVE  Commands' /\ Room' /\ Distinct' /\ Told'
<1> DEFINE c == cmd[u].chain
           e == cmd[u].export
<1>1. At(u, "export") /\ arrived' = arrived
  BY DEF SubmitExport
<1>2. CASE Goto(u, NoCommand) /\ UNCHANGED vars
  BY <1>1, <1>2, CommandMoves DEF NoCommand
<1>3. ASSUME ExportTx(c, u, e), NEW k, Goto(u, k),
             \/ k.step = "idle"
             \/ k.step = "sign" /\ k.id = Cardinality(sent')
      PROVE  Commands' /\ Room' /\ Distinct' /\ Told'
  <2>1. c \in Chains /\ e \in Exports
    BY <1>1, <1>3, ExportIsNext
  <2>2. Inv /\ Shape /\ Commands /\ Room /\ Distinct /\ Told
    BY DEF RelayInv, Inv
  <2>3. Exporting(c, e)
    BY <1>3, <2>1, <2>2, ExportStep
  <2> HIDE DEF c, e
  <2>4. /\ Distinct' /\ Told'
        /\ sent \subseteq sent' /\ now' = now
        /\ Cardinality(sent) \in Nat /\ Cardinality(sent') = Cardinality(sent) + 1
        /\ \E m \in sent' : m.TxID = Cardinality(sent')
    BY <1>1, <2>1, <2>2, <2>3, SentKeeps
  <2>5. Onward
    <3>1. now \in Nat
      BY <2>2, WarpAssumption DEF Shape
    <3> QED BY <2>4, <3>1 DEF Onward
  <2>6. cmd'[u] = k /\ k.step # "export" /\ k.step # "fill" /\ k.step # "import"
    BY <1>3, <2>2, GotoDoes
  <2>7. At(u, "sign")' => Sought(u)'
    BY <1>3, <2>4, <2>6 DEF Sought, At
  <2>8. ~ At(u, "export")' /\ ~ At(u, "fill")' /\ ~ At(u, "import")'
    BY <2>6 DEF At
  <2>9. Commands'
    BY <1>3, <2>2, <2>5, <2>7, <2>8, CommandsKept
  <2>10. /\ Cardinality(Exporters) \in Nat /\ Cardinality(Exporters)' \in Nat
         /\ Cardinality(Exporters)' = Cardinality(Exporters)
                                        - (IF At(u, "export") THEN 1 ELSE 0)
    BY <1>3, <2>2, <2>6, ExportersFewer
  <2>11. Cardinality(Exporters)' = Cardinality(Exporters) - 1
    BY <1>1, <2>10
  <2>12. Room'
    BY <2>2, <2>4, <2>10, <2>11, WarpAssumption DEF Room
  <2> QED BY <2>4, <2>9, <2>12
<1>4. CASE ExportTx(c, u, e) /\ Goto(u, [step |-> "sign", id |-> Cardinality(sent')])
  <2> DEFINE k == [step |-> "sign", id |-> Cardinality(sent')]
  <2>1. k.step = "sign" /\ k.id = Cardinality(sent') /\ Goto(u, k) /\ ExportTx(c, u, e)
    BY <1>4
  <2> HIDE DEF k, c, e
  <2> QED BY <1>3, <2>1
<1>5. CASE ExportTx(c, u, e) /\ Goto(u, NoCommand)
  <2>1. NoCommand.step = "idle"
    BY DEF NoCommand
  <2> QED BY <1>3, <1>5, <2>1
<1> QED BY <1>2, <1>4, <1>5 DEF SubmitExport

\* The import is executed, or fails.
LEMMA SubmitImportKeeps ==
  ASSUME RelayInv, NEW u \in Addresses, SubmitImport(u)
  PROVE  Commands' /\ Room' /\ Distinct' /\ Told'
<1> DEFINE m0 == Message(cmd[u].id)
           d0 == m0.DestinationChainID
<1>1. At(u, "import") /\ Goto(u, NoCommand)
  BY DEF SubmitImport
<1>2. CASE UNCHANGED <<vars, arrived>>
  BY <1>1, <1>2, CommandMoves DEF NoCommand
<1>3. CASE /\ ImportTx(d0, u, m0, cmd[u].fill)
           /\ arrived' = [arrived EXCEPT ![m0.TxID] = @ + 1]
  <2>1. Inv /\ Shape /\ Commands /\ Room /\ Distinct /\ Told
    BY DEF RelayInv, Inv
  <2>2. m0 \in sent /\ Importing(d0, m0)
    BY <1>1, <1>3, ImportIsNext
  <2>3. sent' = sent /\ now' = now
    BY <2>2 DEF Importing
  <2>4. Onward
    <3>1. now \in Nat
      BY <2>1, WarpAssumption DEF Shape
    <3> QED BY <2>3, <3>1 DEF Onward
  <2>5. cmd'[u] = NoCommand /\ NoCommand.step = "idle"
    BY <1>1, <2>1, GotoDoes DEF NoCommand
  <2>6. ~ At(u, "sign")' /\ ~ At(u, "export")' /\ ~ At(u, "fill")' /\ ~ At(u, "import")'
    BY <2>5 DEF At
  <2>7. Commands'
    BY <1>1, <2>1, <2>4, <2>6, CommandsKept
  <2>8. /\ Cardinality(Exporters) \in Nat /\ Cardinality(Exporters)' \in Nat
        /\ Cardinality(Exporters)' = Cardinality(Exporters)
                                       - (IF At(u, "export") THEN 1 ELSE 0)
    BY <1>1, <2>1, <2>5, ExportersFewer
  <2>9. Cardinality(Exporters)' = Cardinality(Exporters)
    BY <1>1, <2>8 DEF At
  <2>10. Cardinality(sent) \in Nat /\ MaxMessages \in Nat
    BY <2>1, FS_CardinalityType, WarpAssumption DEF Shape
  <2>11. Room' /\ Cardinality(sent) <= MaxMessages
    BY <2>1, <2>3, <2>8, <2>9, <2>10 DEF Room
  <2> HIDE DEF m0
  <2>12. Distinct' /\ Told'
    BY <1>3, <2>1, <2>2, <2>11, ImportedKeeps
  <2> QED BY <2>7, <2>11, <2>12
<1> QED BY <1>2, <1>3 DEF SubmitImport

\* What happens elsewhere.
LEMMA ElsewhereKeeps ==
  ASSUME RelayInv, Elsewhere, UNCHANGED <<cmd, arrived>>
  PROVE  Commands' /\ Room' /\ Distinct' /\ Told'
<1>1. Inv /\ Shape /\ Commands /\ Room /\ Distinct /\ Told /\ sent \subseteq WarpTransfers
      /\ now \in Nat
  BY WarpAssumption DEF RelayInv, Inv, Shape
<1>2. /\ sent' = sent /\ Onward
      /\ \A c \in Chains : chain'[c].imported = chain[c].imported
  <2>1. CASE Tick
    BY <1>1, <2>1 DEF Tick, Onward
  <2>2. ASSUME NEW c \in Chains, NEW u \in Addresses, NEW to \in Addresses,
               NEW x \in Assets, NEW v \in Values, TransferTx(c, u, to, x, v)
        PROVE  /\ sent' = sent /\ Onward
               /\ \A d \in Chains : chain'[d].imported = chain[d].imported
    <3>1. Local(c, x, 0)
      BY <1>1, <2>2, TransferStep
    <3> QED BY <1>1, <3>1 DEF Local, Executes, Onward
  <2> QED BY <2>1, <2>2 DEF Elsewhere
<1>3. Commands' /\ Exporters' = Exporters
  BY <1>1, <1>2, CommandsStay
<1>4. Room'
  BY <1>1, <1>2, <1>3 DEF Room
<1>5. Distinct' /\ Told'
  BY <1>1, <1>2, QuietKeeps
<1> QED BY <1>3, <1>4, <1>5

\* Every step keeps the invariant.
LEMMA RelayNextInv ==
  ASSUME RelayInv, [RelayNext]_relay
  PROVE  RelayInv'
<1> DEFINE Goal == Commands' /\ Room' /\ Distinct' /\ Told'
<1>1. Inv'
  BY RelayIsNext, NextInv DEF RelayInv
<1>2. CASE UNCHANGED relay
  <2>1. UNCHANGED <<chain, sent, now, cmd, arrived>>
    BY <1>2 DEF relay, vars
  <2> QED BY <2>1, <1>1 DEF RelayInv, Commands, Settled, Sought, At, Room, Exporters, Distinct,
                            Told, Arrived
<1>3. ASSUME RelayNext PROVE Goal
  <2> HIDE DEF Goal
  <2>1. ASSUME NEW u \in Addresses, NEW c \in Chains, NEW e \in Exports, PromptExport(u, c, e)
        PROVE  Goal
    BY <2>1, PromptExportKeeps DEF Goal
  <2>2. ASSUME NEW u \in Addresses, SubmitExport(u) PROVE Goal
    BY <2>2, SubmitExportKeeps DEF Goal
  <2>3. ASSUME NEW u \in Addresses, SubmitImport(u) PROVE Goal
    BY <2>3, SubmitImportKeeps DEF Goal
  <2>4. ASSUME NEW u \in Addresses, GiveUp(u) \/ Dropped(u) PROVE Goal
    BY <2>4, ImportingKeeps DEF Goal
  <2>5. ASSUME NEW u \in Addresses, NEW id \in IDs,
               \/ StartImport(u, id)
               \/ \E S \in SUBSET Validators : Collect(u, id, S)
               \/ \E fill \in BOOLEAN : ChooseFill(u, id, fill)
        PROVE  Goal
    BY <2>5, ImportingKeeps DEF Goal
  <2>6. CASE Elsewhere /\ UNCHANGED <<cmd, arrived>>
    BY <2>6, ElsewhereKeeps DEF Goal
  <2> QED BY <1>3, <2>1, <2>2, <2>3, <2>4, <2>5, <2>6 DEF RelayNext
<1> QED BY <1>1, <1>2, <1>3 DEF RelayInv

\* It holds before anybody has given a command.
LEMMA RelayInitInv ==
  ASSUME RelayInit
  PROVE  RelayInv
<1>1. Inv
  BY InitInv DEF RelayInit
<1>2. sent = {} /\ cmd = [u \in Addresses |-> NoCommand] /\ arrived = [id \in IDs |-> 0]
  BY DEF RelayInit, Init
<1>3. \A u \in Addresses : cmd[u].step = "idle"
  BY <1>2 DEF NoCommand
<1>4. Commands
  BY <1>2, <1>3 DEF Commands, At
<1>5. Exporters = {}
  BY <1>3 DEF Exporters, At
<1>6. Room
  BY <1>2, <1>5, FS_EmptySet, WarpAssumption DEF Room
<1>7. Distinct /\ Told
  BY <1>2 DEF Distinct, Told, Arrived
<1> QED BY <1>1, <1>4, <1>6, <1>7 DEF RelayInv

-----------------------------------------------------------------------------
(* The theorems.                                                           *)

\* RelayInv is an invariant of the chains and their users.
THEOREM RelayInvHolds == RelaySpec => []RelayInv
<1>1. RelayInv /\ [RelayNext]_relay => RelayInv'
  BY RelayNextInv
<1> QED BY RelayInitInv, <1>1, PTL DEF RelaySpec

\* Whatever the users of the command line client do, the chains behave as Warp
\* says: its theorems hold of them.
THEOREM RelayImplementsWarp == RelaySpec => Spec
<1>1. RelayInit => Init
  BY DEF RelayInit
<1>2. RelayInv /\ [RelayNext]_relay => [Next]_vars
  BY RelayIsNext
<1> QED BY RelayInvHolds, <1>1, <1>2, PTL DEF RelaySpec, Spec

\* However many users race to import a message, at most one is told that it did.
THEOREM ImportedOnce == RelaySpec => []ArrivesOnce
<1>1. RelayInv => ArrivesOnce
  BY DEF RelayInv, Told, ArrivesOnce
<1> QED BY RelayInvHolds, <1>1, PTL


-----------------------------------------------------------------------------
(* Balances, account by account.                                           *)

\* No account has less of any asset in r than in s.
NotLess(s, r) ==
  \A b \in Addresses, y \in Assets :
    /\ s.balance[b][y] \in Nat /\ r.balance[b][y] \in Nat
    /\ s.balance[b][y] <= r.balance[b][y]

\* AddBalance and SubBalance change one account's balance of one asset.
LEMMA Added ==
  ASSUME NEW s, IsState(s), NEW a \in Addresses, NEW x \in Assets, NEW v \in Nat,
         AddBalance(s, a, x, v).ok
  PROVE  LET r == AddBalance(s, a, x, v)
         IN /\ \A b \in Addresses, y \in Assets :
                 /\ s.balance[b][y] \in Nat
                 /\ r.balance[b][y] = IF b = a /\ y = x THEN s.balance[a][x] + v
                                                        ELSE s.balance[b][y]
            /\ NotLess(s, r)
<1> DEFINE r == AddBalance(s, a, x, v)
           n == s.balance[a][x] + v
<1>1. s.ok /\ r.balance = [s.balance EXCEPT ![a][x] = n]
  BY AddBalanceWrites
<1>2. s.balance \in [Addresses -> [Assets -> Uint64]]
  BY <1>1 DEF IsState, Typed
<1>3. \A b \in Addresses, y \in Assets : s.balance[b][y] \in Nat
  BY <1>2, Uint64Range
<1>4. n \in Int
  BY <1>3
<1> HIDE DEF r, n
<1>5. \A b \in Addresses, y \in Assets :
        r.balance[b][y] = IF b = a /\ y = x THEN n ELSE s.balance[b][y]
  BY <1>1, <1>2, <1>4, TableUpdate
<1>6. NotLess(s, r)
  BY <1>3, <1>5 DEF NotLess, n
<1> QED BY <1>3, <1>5, <1>6 DEF n, r

\* SubBalance takes the amount from one balance.
LEMMA Subtracted ==
  ASSUME NEW s, IsState(s), NEW a \in Addresses, NEW x \in Assets, NEW v \in Nat,
         SubBalance(s, a, x, v).ok
  PROVE  LET r == SubBalance(s, a, x, v)
         IN \A b \in Addresses, y \in Assets :
              /\ s.balance[b][y] \in Nat
              /\ r.balance[b][y] = IF b = a /\ y = x THEN s.balance[a][x] - v
                                                     ELSE s.balance[b][y]
<1> DEFINE r == SubBalance(s, a, x, v)
           n == s.balance[a][x] - v
<1>1. s.ok /\ r.balance = [s.balance EXCEPT ![a][x] = n]
  BY SubBalanceWrites
<1>2. s.balance \in [Addresses -> [Assets -> Uint64]]
  BY <1>1 DEF IsState, Typed
<1>3. \A b \in Addresses, y \in Assets : s.balance[b][y] \in Nat
  BY <1>2, Uint64Range
<1>4. n \in Int
  BY <1>3
<1> HIDE DEF r, n
<1>5. \A b \in Addresses, y \in Assets :
        r.balance[b][y] = IF b = a /\ y = x THEN n ELSE s.balance[b][y]
  BY <1>1, <1>2, <1>4, TableUpdate
<1> QED BY <1>3, <1>5 DEF n, r

\* Balances that do not shrink twice do not shrink.
LEMMA NotLessTwice ==
  ASSUME NEW s, NEW r, NEW t, NotLess(s, r), NotLess(r, t)
  PROVE  NotLess(s, t)
  BY DEF NotLess

\* The receiver and the relayer are paid: nobody loses.
LEMMA ReceivedBalances ==
  ASSUME NEW k, IsState(k), NEW to \in Addresses, NEW a \in Addresses,
         NEW x \in Assets, NEW v \in Nat, NEW w \in Nat,
         Rewarding(w, AddBalance(AddBalance(k, to, x, v), a, x, w),
                   AddBalance(k, to, x, v)).ok
  PROVE  LET r == Rewarding(w, AddBalance(AddBalance(k, to, x, v), a, x, w),
                            AddBalance(k, to, x, v))
         IN /\ r.keys = k.keys /\ NotLess(k, r) /\ v <= r.balance[to][x]
<1> DEFINE b == AddBalance(k, to, x, v)
           f == AddBalance(b, a, x, w)
           r == Rewarding(w, f, b)
<1>1. IsState(b) /\ b.keys = k.keys
  BY AddBalanceDoes
<1>2. ASSUME b.ok
      PROVE  NotLess(k, b) /\ v <= b.balance[to][x] /\ b.balance[to][x] \in Nat
  <2>1. /\ k.balance[to][x] \in Nat /\ NotLess(k, b)
        /\ b.balance[to][x] = k.balance[to][x] + v
    BY <1>2, Added
  <2> HIDE DEF b
  <2> QED BY <2>1
<1>3. CASE w > 0
  <2>1. r = f /\ f.ok
    BY <1>3 DEF Rewarding
  <2> HIDE DEF b
  <2>2. f.keys = b.keys /\ b.ok
    BY <1>1, <2>1, AddBalanceDoes
  <2>3. NotLess(b, f)
    BY <1>1, <2>1, Added
  <2> HIDE DEF f
  <2>4. NotLess(k, f)
    BY <1>2, <2>2, <2>3, NotLessTwice
  <2>5. v <= f.balance[to][x]
    BY <1>2, <2>2, <2>3 DEF NotLess
  <2> QED BY <1>1, <2>1, <2>2, <2>4, <2>5 DEF f, b
<1>4. CASE ~ (w > 0)
  <2>1. r = b /\ b.ok
    BY <1>4 DEF Rewarding
  <2> QED BY <1>1, <1>2, <2>1
<1> QED BY <1>3, <1>4

\* executeMint and executeReturn take nothing from anybody, and pay the receiver.
LEMMA ImportMintPays ==
  ASSUME NEW s, IsState(s), s.ok, NEW a \in Addresses, NEW m \in WarpTransfers, ~ m.Return,
         AssetKey(AssetIn(m)) \in s.keys, ImportMint(s, a, m).ok
  PROVE  LET r == ImportMint(s, a, m)
         IN r.keys = s.keys /\ NotLess(s, r) /\ m.Value <= r.balance[m.To][AssetIn(m)]
<1> DEFINE x   == AssetIn(m)
           v   == m.Value
           w   == m.Reward
           to  == m.To
           has == HasAsset(s, x)
           old == IF has THEN s.asset[x] ELSE [symbol |-> m.symbol, supply |-> 0]
           sup == old.supply + v + w
           new == [symbol |-> old.symbol, supply |-> sup,
                   owner |-> EmptyAddress, warp |-> TRUE]
           q   == has => s.asset[x].warp
           s1  == Check(s, q)
           s2  == SetAsset(s1, x, new)
           b   == AddBalance(s2, to, x, v)
           r   == Rewarding(w, AddBalance(b, a, x, w), b)
<1>1. ImportMint(s, a, m) = r
  BY DEF ImportMint
<1>2. v \in Nat /\ w \in Nat /\ to \in Addresses /\ m.symbol \in Symbols
  BY FieldTypes
<1>3. x \in Assets /\ x \notin Originals
  BY AssetsAssumption DEF AssetIn, Assets, WarpTransfers
<1>4. Typed(s)
  BY DEF IsState
<1>5. has <=> x \in DOMAIN s.asset
  BY DEF HasAsset
<1>6. q \in BOOLEAN /\ q
  BY <1>3, <1>4, <1>5 DEF Typed
<1>7. old.symbol \in Symbols /\ old.supply \in Nat
  BY <1>2, <1>4, <1>5, Uint64Range DEF Typed, AssetRecord
<1>8. r.ok
  BY <1>1
<1> HIDE DEF x, v, w, to, has, q, old
<1>9. IsState(s1) /\ s1.ok /\ s1.balance = s.balance /\ s1.keys = s.keys
  BY <1>6, CheckDoes
<1> HIDE DEF s1
<1>10. sup \in Int
  BY <1>2, <1>7
<1> HIDE DEF sup
<1>11. /\ new \in [symbol : Symbols, supply : Int,
                   owner : Addresses \cup {EmptyAddress}, warp : BOOLEAN]
       /\ new.warp
  BY <1>7, <1>10
<1> HIDE DEF new
<1>12. IsState(s2) /\ s2.balance = s1.balance /\ s2.keys = s1.keys
  BY <1>3, <1>9, <1>11, SetAssetDoes
<1> HIDE DEF s2
<1>13. r.keys = s2.keys /\ NotLess(s2, r) /\ v <= r.balance[to][x]
  BY <1>2, <1>3, <1>8, <1>12, ReceivedBalances
<1> HIDE DEF r
<1>14. NotLess(s, r)
  BY <1>9, <1>12, <1>13 DEF NotLess
<1> QED BY <1>1, <1>9, <1>12, <1>13, <1>14 DEF v, to, x


\* A returned asset is paid to the receiver, and nobody loses.
LEMMA ImportReturnPays ==
  ASSUME NEW s, IsState(s), s.ok, NEW a \in Addresses, NEW m \in WarpTransfers,
         ImportReturn(s, a, m).ok
  PROVE  LET r == ImportReturn(s, a, m)
         IN r.keys = s.keys /\ NotLess(s, r) /\ m.Value <= r.balance[m.To][m.Asset]
<1> DEFINE x  == m.Asset
           c  == m.SourceChainID
           to == m.To
           v  == m.Value
           w  == m.Reward
           q  == HasAsset(s, x) /\ s.asset[x].symbol = m.symbol /\ ~ s.asset[x].warp
           s0 == Check(s, q)
           s1 == SubLoan(s0, x, c, v)
           s2 == AddBalance(s1, to, x, v)
           s3 == SubLoan(s2, x, c, w)
           s4 == AddBalance(s3, a, x, w)
           r  == Rewarding(w, s4, s2)
<1>1. ImportReturn(s, a, m) = r /\ r.ok
  BY DEF ImportReturn
<1>2. /\ x \in Originals /\ x \in Assets /\ c \in Chains /\ to \in Addresses
      /\ v \in Nat /\ w \in Nat
  BY FieldTypes DEF Assets
<1>3. q \in BOOLEAN
  BY DEF HasAsset
<1> HIDE DEF x, c, to, v, w, q
<1>4. IsState(s0) /\ s0.balance = s.balance /\ s0.keys = s.keys
  BY <1>3, CheckDoes
<1> HIDE DEF s0
<1>5. IsState(s1) /\ s1.balance = s0.balance /\ s1.keys = s0.keys
  BY <1>2, <1>4, SubLoanDoes
<1> HIDE DEF s1
<1>6. IsState(s2) /\ s2.keys = s1.keys
  BY <1>2, <1>5, AddBalanceDoes
<1>7. ASSUME s2.ok
      PROVE  NotLess(s1, s2) /\ v <= s2.balance[to][x] /\ s2.balance[to][x] \in Nat
  <2>1. /\ s1.balance[to][x] \in Nat /\ NotLess(s1, s2)
        /\ s2.balance[to][x] = s1.balance[to][x] + v
    BY <1>2, <1>5, <1>7, Added
  <2> HIDE DEF s2
  <2> QED BY <1>2, <2>1
<1> HIDE DEF s2
<1>8. /\ IsState(s3) /\ s3.balance = s2.balance /\ s3.keys = s2.keys
      /\ s3.ok => s2.ok
  BY <1>2, <1>6, SubLoanDoes
<1> HIDE DEF s3
<1>9. /\ s4.keys = s3.keys /\ (s4.ok => s3.ok)
      /\ s4.ok => NotLess(s3, s4)
  BY <1>2, <1>8, AddBalanceDoes, Added
<1> HIDE DEF s4
<1>10. CASE w > 0
  <2>1. r = s4 /\ s4.ok /\ s3.ok /\ s2.ok
    BY <1>1, <1>8, <1>9, <1>10 DEF Rewarding
  <2>2. NotLess(s2, s4)
    BY <1>8, <1>9, <2>1 DEF NotLess
  <2>3. NotLess(s1, s4)
    BY <1>7, <2>1, <2>2, NotLessTwice
  <2>4. v <= s4.balance[to][x]
    BY <1>2, <1>7, <2>1, <2>2 DEF NotLess
  <2>5. NotLess(s, s4)
    BY <1>4, <1>5, <2>3 DEF NotLess
  <2>6. r.keys = s.keys
    BY <1>4, <1>5, <1>6, <1>8, <1>9, <2>1
  <2> QED BY <1>1, <2>1, <2>4, <2>5, <2>6 DEF v, to, x
<1>11. CASE ~ (w > 0)
  <2>1. r = s2 /\ s2.ok
    BY <1>1, <1>11 DEF Rewarding
  <2>2. NotLess(s, s2)
    BY <1>4, <1>5, <1>7, <2>1 DEF NotLess
  <2>3. r.keys = s.keys
    BY <1>4, <1>5, <1>6, <2>1
  <2> QED BY <1>1, <1>7, <2>1, <2>2, <2>3 DEF v, to, x
<1> QED BY <1>10, <1>11

\* A payment from one account to another succeeds when the first can pay, and takes
\* nothing from the second.
LEMMA PassSucceeds ==
  ASSUME NEW s, IsState(s), s.ok, NEW a \in Addresses, NEW b \in Addresses,
         NEW x \in Assets, NEW v \in Nat,
         BalanceKey(a, x) \in s.keys, BalanceKey(b, x) \in s.keys,
         v <= s.balance[a][x], Owned(s, x) < Word
  PROVE  LET r == AddBalance(SubBalance(s, a, x, v), b, x, v)
         IN /\ IsState(r) /\ r.ok /\ r.keys = s.keys /\ SameMoney(s, r)
            /\ \A y \in Assets : s.balance[b][y] \in Nat /\ r.balance[b][y] \in Nat
                                   /\ s.balance[b][y] <= r.balance[b][y]
<1> DEFINE t == SubBalance(s, a, x, v)
           r == AddBalance(t, b, x, v)
<1>1. t.ok
  BY SubBalanceWrites
<1>2. IsState(t) /\ t.keys = s.keys /\ Moves(s, t, x, 0 - v, 0, 0)
  BY <1>1, SubBalanceDoes
<1>3. \A h \in Addresses, y \in Assets :
        /\ s.balance[h][y] \in Nat
        /\ t.balance[h][y] = IF h = a /\ y = x THEN s.balance[a][x] - v ELSE s.balance[h][y]
  BY <1>1, Subtracted
<1> HIDE DEF t
<1>4. Owned(t, x) + v < Word
  <2>1. Owned(s, x) \in Nat /\ Owned(t, x) = Owned(s, x) + (0 - v)
    BY <1>2, TotalsType DEF IsState, Moves
  <2> QED BY <2>1, AssetsAssumption
<1>5. r.ok
  BY <1>1, <1>2, <1>4, AddBalanceSucceeds
<1>6. IsState(r) /\ r.keys = t.keys
  BY <1>2, AddBalanceDoes
<1>7. \A h \in Addresses, y \in Assets :
        /\ t.balance[h][y] \in Nat
        /\ r.balance[h][y] = IF h = b /\ y = x THEN t.balance[b][x] + v ELSE t.balance[h][y]
  BY <1>2, <1>5, Added
<1>8. SameMoney(s, r)
  <2>1. Moves(s, r, x, 0, 0, 0)
    BY <1>5, PassDoes DEF t
  <2>2. Typed(s)
    BY DEF IsState
  <2> QED BY <2>1, <2>2, MovesNothing
<1> HIDE DEF r
<1>9. ASSUME NEW y \in Assets
      PROVE  /\ s.balance[b][y] \in Nat /\ r.balance[b][y] \in Nat
             /\ s.balance[b][y] <= r.balance[b][y]
  <2>1. CASE y = x
    <3>1. /\ s.balance[b][x] \in Nat /\ t.balance[b][x] \in Nat
          /\ r.balance[b][x] = t.balance[b][x] + v
          /\ t.balance[b][x] = IF b = a THEN s.balance[b][x] - v ELSE s.balance[b][x]
      BY <1>3, <1>7
    <3> QED BY <2>1, <3>1
  <2>2. CASE y # x
    <3>1. /\ s.balance[b][y] \in Nat /\ r.balance[b][y] = t.balance[b][y]
          /\ t.balance[b][y] = s.balance[b][y]
      BY <1>3, <1>7, <2>2
    <3> QED BY <3>1
  <2> QED BY <2>1, <2>2
<1> QED BY <1>2, <1>5, <1>6, <1>8, <1>9 DEF r, t

\* The order is filled by one who can pay what it asks for.
LEMMA FillSwapSucceeds ==
  ASSUME NEW s, IsState(s), s.ok, NEW a \in Addresses, NEW m \in WarpTransfers,
         BalanceKey(m.To, AssetIn(m)) \in s.keys, BalanceKey(a, AssetIn(m)) \in s.keys,
         BalanceKey(a, m.swap.AssetOut) \in s.keys, BalanceKey(m.To, m.swap.AssetOut) \in s.keys,
         m.swap.SwapIn <= s.balance[m.To][AssetIn(m)],
         m.swap.SwapOut <= s.balance[a][m.swap.AssetOut],
         \A y \in Assets : Owned(s, y) < Word
  PROVE  FillSwap(s, a, m).ok
<1> DEFINE x  == AssetIn(m)
           y  == m.swap.AssetOut
           v  == m.swap.SwapIn
           w  == m.swap.SwapOut
           to == m.To
           t  == AddBalance(SubBalance(s, to, x, v), a, x, v)
           r  == AddBalance(SubBalance(t, a, y, w), to, y, w)
<1>1. FillSwap(s, a, m) = r
  BY DEF FillSwap
<1>2. /\ x \in Assets /\ y \in Assets /\ v \in Nat /\ w \in Nat /\ to \in Addresses
  <2>1. m.swap \in Swaps /\ m.To \in Addresses /\ m.Asset \in Originals
        /\ m.SourceChainID \in Chains
    BY FieldTypes
  <2>2. y \in Assets /\ v \in Uint64 /\ w \in Uint64
    BY <2>1 DEF Swaps
  <2>3. x \in Assets
    BY <2>1 DEF AssetIn, Assets
  <2> QED BY <2>1, <2>2, <2>3, Uint64Range
<1>3. /\ BalanceKey(to, x) \in s.keys /\ BalanceKey(a, x) \in s.keys
      /\ BalanceKey(a, y) \in s.keys /\ BalanceKey(to, y) \in s.keys
      /\ v <= s.balance[to][x] /\ w <= s.balance[a][y]
  OBVIOUS
<1> HIDE DEF x, y, v, w, to
<1>4. Owned(s, x) < Word /\ Owned(s, y) < Word
  BY <1>2
<1>5. /\ IsState(t) /\ t.ok /\ t.keys = s.keys /\ SameMoney(s, t)
      /\ s.balance[a][y] \in Nat /\ t.balance[a][y] \in Nat
      /\ s.balance[a][y] <= t.balance[a][y]
  BY <1>2, <1>3, <1>4, PassSucceeds
<1> HIDE DEF t
<1>6. w <= t.balance[a][y] /\ Owned(t, y) < Word
  BY <1>2, <1>3, <1>4, <1>5 DEF SameMoney
<1>7. BalanceKey(a, y) \in t.keys /\ BalanceKey(to, y) \in t.keys
  BY <1>3, <1>5
<1>8. r.ok
  BY <1>2, <1>5, <1>6, <1>7, PassSucceeds
<1> QED BY <1>1, <1>8


-----------------------------------------------------------------------------
(* Why imports fail.                                                       *)

\* What a message in flight brings, in detail.
LEMMA InFlightPays ==
  ASSUME Inv, NEW m \in InFlight, NEW a \in Addresses, NEW f
  PROVE  LET s == chain[m.DestinationChainID]
             r == Receive(Declare(s, ImportStateKeys(a, m, f)), a, m)
         IN /\ IsState(r) /\ r.ok /\ r.keys = ImportStateKeys(a, m, f) /\ NotLess(s, r)
            /\ m.Value <= r.balance[m.To][AssetIn(m)]
            /\ \A y \in Assets : Owned(r, y) < Word
<1> DEFINE d  == m.DestinationChainID
           x  == AssetIn(m)
           n  == m.Value + m.Reward
           ks == ImportStateKeys(a, m, f)
           s  == chain[d]
           s1 == Declare(s, ks)
           r  == Receive(s1, a, m)
<1>1. /\ Shape /\ SupplyAccounted /\ m \in sent /\ m \in WarpTransfers
  BY DEF Inv, InFlight, Shape
<1>2. /\ d \in Chains /\ m.Return \in BOOLEAN /\ n \in Nat /\ m.Asset \in Originals
      /\ m.SourceChainID \in Chains
  <2>1. /\ d \in Chains /\ m.Return \in BOOLEAN /\ m.Value \in Nat /\ m.Reward \in Nat
        /\ m.Asset \in Originals /\ m.SourceChainID \in Chains
    BY <1>1, FieldTypes
  <2> QED BY <2>1
<1>3. x \in Assets
  BY <1>2 DEF AssetIn, Assets
<1>4. AssetKey(x) \in ks
  BY ImportKeys
<1>5. IsState(r) /\ r.ok
  BY ImportKeys, InFlightReceived
<1>6. IsState(s) /\ s.ok
  BY <1>1, <1>2 DEF Shape
<1>7. /\ IsState(s1) /\ s1.ok /\ s1.keys = ks /\ s1.asset = s.asset /\ s1.loan = s.loan
      /\ s1.balance = s.balance
  BY <1>6, DeclareDoes
<1> HIDE DEF ks, s1
<1>8. r.keys = ks /\ NotLess(s1, r) /\ m.Value <= r.balance[m.To][x]
  <2>1. CASE m.Return
    <3>1. r = ImportReturn(s1, a, m) /\ x = m.Asset
      BY <2>1 DEF Receive, AssetIn
    <3> QED BY <1>1, <1>5, <1>7, <3>1, ImportReturnPays
  <2>2. CASE ~ m.Return
    <3>1. r = ImportMint(s1, a, m)
      BY <2>2 DEF Receive
    <3> QED BY <1>1, <1>4, <1>5, <1>7, <2>2, <3>1, ImportMintPays
  <2> QED BY <2>1, <2>2
<1>9. NotLess(s, r)
  <2> HIDE DEF r
  <2> QED BY <1>7, <1>8 DEF NotLess
<1>10. Moves(s1, r, x, n, 0 - n, 0) \/ Moves(s1, r, x, n, 0, n)
  <2>1. CASE m.Return
    <3>1. r = ImportReturn(s1, a, m) /\ x = m.Asset
      BY <2>1 DEF Receive, AssetIn
    <3>2. Moves(s1, ImportReturn(s1, a, m), m.Asset, n, 0 - n, 0)
      <4>1. ImportReturn(s1, a, m).ok
        BY <1>5, <3>1
      <4> QED BY <1>1, <1>7, <4>1, ImportReturnDoes
    <3> HIDE DEF r, x, n
    <3> QED BY <3>1, <3>2
  <2>2. CASE ~ m.Return
    <3>1. r = ImportMint(s1, a, m)
      BY <2>2 DEF Receive
    <3> QED BY <1>1, <1>4, <1>5, <1>7, <2>2, <3>1, ImportMintDoes
  <2> QED BY <2>1, <2>2
<1>11. \A y \in Assets : Supply(s1, y) = Owned(s1, y) + Lent(s1, y)
  BY <1>1, <1>2, <1>7, SameTotals DEF SupplyAccounted
<1>12. Typed(s1) /\ Typed(r)
  BY <1>5, <1>7 DEF IsState
<1> HIDE DEF r, n, x
<1>13. \A y \in Assets : Supply(r, y) = Owned(r, y) + Lent(r, y)
  <2>1. CASE Moves(s1, r, x, n, 0 - n, 0)
    BY <1>2, <1>3, <1>11, <1>12, <2>1, TotalsType DEF Moves
  <2>2. CASE Moves(s1, r, x, n, 0, n)
    BY <1>2, <1>3, <1>11, <1>12, <2>2, TotalsType DEF Moves
  <2> QED BY <1>10, <2>1, <2>2
<1>14. ASSUME NEW y \in Assets PROVE Owned(r, y) < Word
  <2>1. Owned(r, y) \in Nat /\ Lent(r, y) \in Nat /\ Supply(r, y) \in Nat
    BY <1>12, TotalsType
  <2>2. Supply(r, y) < Word
    <3>1. \A u \in Uint64 : u \in Nat /\ u < Word
      BY Uint64Below
    <3>2. 0 < Word
      BY AssetsAssumption
    <3> QED BY <1>12, <3>1, <3>2 DEF Supply, Typed, AssetRecord
  <2> QED BY <1>13, <2>1, <2>2, AssetsAssumption
<1> QED BY <1>5, <1>8, <1>9, <1>14 DEF r, s1, ks, x

\* With its order filled, a message is imported by whoever can pay.
LEMMA FilledSucceeds ==
  ASSUME Inv, NEW m \in InFlight, NEW a \in Addresses, NEW t, NEW f \in BOOLEAN, f,
         m.swap.SwapIn > 0,
         m.swap.SwapOut <= chain[m.DestinationChainID].balance[a][m.swap.AssetOut]
  PROVE  Imported(m.DestinationChainID, a, m, f, t).ok
<1> DEFINE d  == m.DestinationChainID
           ks == ImportStateKeys(a, m, f)
           s  == chain[d]
           r  == Receive(Declare(s, ks), a, m)
           y  == m.swap.AssetOut
<1>1. /\ IsState(r) /\ r.ok /\ r.keys = ks /\ NotLess(s, r)
      /\ m.Value <= r.balance[m.To][AssetIn(m)]
      /\ \A z \in Assets : Owned(r, z) < Word
  BY InFlightPays
<1>2. m \in WarpTransfers /\ UnmarshalWarpTransferOk(m)
  BY DEF Inv, InFlight, Shape, MessagesHome
<1>3. m.swap.SwapIn <= m.Value
  BY <1>2 DEF UnmarshalWarpTransferOk, ValidSwapParams
<1>4. /\ m.To \in Addresses /\ m.Value \in Nat /\ m.swap \in Swaps
      /\ m.Asset \in Originals /\ m.SourceChainID \in Chains
  BY <1>2, FieldTypes
<1>5. m.swap.SwapIn \in Uint64 /\ m.swap.SwapOut \in Uint64 /\ y \in Assets
      /\ AssetIn(m) \in Assets
  BY <1>4 DEF Swaps, AssetIn, Assets
<1>6. m.swap.SwapIn \in Nat /\ m.swap.SwapOut \in Nat
  <2>1. \A u \in Uint64 : u \in Nat /\ u < Word
    BY Uint64Below
  <2> QED BY <1>5, <2>1
<1>7. /\ BalanceKey(m.To, AssetIn(m)) \in ks /\ BalanceKey(a, AssetIn(m)) \in ks
      /\ BalanceKey(a, y) \in ks /\ BalanceKey(m.To, y) \in ks
  BY DEF ImportStateKeys
<1>8. Imported(d, a, m, f, t).ok = FillSwap(r, a, m).ok
  BY DEF Imported, ImportAsset, Receive
<1> HIDE DEF r, ks
<1>9. m.swap.SwapIn <= r.balance[m.To][AssetIn(m)] /\ m.swap.SwapOut <= r.balance[a][y]
  <2>1. r.balance[m.To][AssetIn(m)] \in Nat
    BY <1>1, <1>4, <1>5 DEF NotLess
  <2>2. s.balance[a][y] \in Nat /\ r.balance[a][y] \in Nat /\ s.balance[a][y] <= r.balance[a][y]
    BY <1>1, <1>5 DEF NotLess
  <2> QED BY <1>1, <1>3, <1>4, <1>6, <2>1, <2>2
<1>10. FillSwap(r, a, m).ok
  BY <1>1, <1>2, <1>7, <1>9, FillSwapSucceeds
<1> QED BY <1>8, <1>10

\* An import that was not forestalled, has a quorum and can be paid succeeds.
LEMMA InvImportFails ==
  ASSUME RelayInv
  PROVE  ImportFailsForAReason
<1> SUFFICES ASSUME NEW u \in Addresses, At(u, "import"), ~ ImportSucceeds(u)
             PROVE  LET m == Message(cmd[u].id)
                        c == m.DestinationChainID
                    IN \/ m \in chain[c].imported
                       \/ ~ Quorum(cmd[u].sigWeight)
                       \/ cmd[u].fill /\ chain[c].balance[u][m.swap.AssetOut] < m.swap.SwapOut
  BY DEF ImportFailsForAReason
<1> DEFINE m == Message(cmd[u].id)
           c == m.DestinationChainID
           f == cmd[u].fill
<1>1. /\ m \in sent /\ f \in BOOLEAN /\ (f => m.swap.SwapIn > 0)
      /\ ~ f => m.swap.SwapExpiry <= now
  BY SoughtIs DEF RelayInv, Commands
<1>2. Inv /\ now \in Nat /\ m \in WarpTransfers
  BY <1>1, OrderTypes DEF RelayInv
<1>3. ASSUME m \notin chain[c].imported, Quorum(cmd[u].sigWeight)
      PROVE  ~ Imported(c, u, m, f, now).ok
  BY <1>1, <1>3 DEF ImportSucceeds, WarpVerified
<1> HIDE DEF m, f
<1>4. SUFFICES ASSUME m \notin chain[c].imported, Quorum(cmd[u].sigWeight)
               PROVE  f /\ chain[c].balance[u][m.swap.AssetOut] < m.swap.SwapOut
  BY DEF m, f
<1>5. m \in InFlight
  BY <1>1, <1>4 DEF InFlight
<1>6. f
  <2> SUFFICES ASSUME ~ f PROVE FALSE
    OBVIOUS
  <2>1. f = FALSE /\ m.swap.SwapExpiry <= now
    BY <1>1
  <2>2. Imported(c, u, m, FALSE, now).ok
    BY <1>2, <1>5, <2>1, UnfilledSucceeds
  <2> QED BY <1>3, <1>4, <2>1, <2>2
<1>7. ~ (m.swap.SwapOut <= chain[c].balance[u][m.swap.AssetOut])
  BY <1>1, <1>2, <1>3, <1>4, <1>5, <1>6, FilledSucceeds
<1>8. m.swap.SwapOut \in Nat /\ chain[c].balance[u][m.swap.AssetOut] \in Nat
  <2>1. m.swap \in Swaps /\ c \in Chains
    BY <1>2, FieldTypes
  <2>2. Typed(chain[c]) /\ m.swap.AssetOut \in Assets /\ m.swap.SwapOut \in Uint64
    BY <1>2, <2>1, ShapeTyped DEF Inv, Swaps
  <2>3. chain[c].balance[u][m.swap.AssetOut] \in Nat
    BY <2>2, PartOfTotal
  <2>4. \A i \in Uint64 : i \in Nat /\ i < Word
    BY Uint64Below
  <2> QED BY <2>2, <2>3, <2>4
<1> QED BY <1>6, <1>7, <1>8

\* An import that the client sends fails only because another came first, the
\* signatures fall short, or who fills the order cannot pay: for any number of
\* chains, users and messages, no other check of ImportAsset can fail.
THEOREM ImportsFailForAReason == RelaySpec => []ImportFailsForAReason
<1>1. RelayInv => ImportFailsForAReason
  BY InvImportFails
<1> QED BY RelayInvHolds, <1>1, PTL


-----------------------------------------------------------------------------
(* Why exports fail.                                                       *)

\* Value and reward are taken from an account that has both.
LEMMA PaidSucceeds ==
  ASSUME NEW k, IsState(k), k.ok, NEW a \in Addresses, NEW x \in Assets,
         NEW v \in Nat, NEW w \in Nat, BalanceKey(a, x) \in k.keys,
         v + w <= k.balance[a][x]
  PROVE  Rewarding(w, SubBalance(SubBalance(k, a, x, v), a, x, w), SubBalance(k, a, x, v)).ok
<1> DEFINE b == SubBalance(k, a, x, v)
<1>1. Typed(k)
  BY DEF IsState
<1>2. k.balance[a][x] \in Nat
  BY <1>1, PartOfTotal
<1>3. v <= k.balance[a][x]
  BY <1>2
<1>4. b.ok
  BY <1>3, SubBalanceWrites
<1>5. IsState(b) /\ b.keys = k.keys
  BY SubBalanceDoes
<1>6. b.balance[a][x] = k.balance[a][x] - v
  BY <1>4, Subtracted
<1> HIDE DEF b
<1>7. w <= b.balance[a][x]
  BY <1>2, <1>6
<1>8. SubBalance(b, a, x, w).ok
  BY <1>4, <1>5, <1>7, SubBalanceWrites
<1> QED BY <1>4, <1>8 DEF Rewarding, b

\* The supply of an imported asset can be reduced by what some account has of it.
LEMMA ReducedSucceeds ==
  ASSUME NEW s, IsState(s), s.ok, NEW x \in DOMAIN s.asset \ Originals,
         NEW v \in Nat, NEW w \in Nat, v + w <= s.asset[x].supply, AssetKey(x) \in s.keys
  PROVE  LET left == s.asset[x].supply - v - w
             r    == IF left > 0
                       THEN SetAsset(s, x, [s.asset[x] EXCEPT !.supply = left])
                       ELSE DeleteAsset(Check(s, left = 0), x)
         IN IsState(r) /\ r.ok /\ r.balance = s.balance /\ r.keys = s.keys
<1> DEFINE left == s.asset[x].supply - v - w
           rec  == [s.asset[x] EXCEPT !.supply = left]
           q    == left = 0
           k    == Check(s, q)
<1>1. Typed(s)
  BY DEF IsState
<1>2. s.asset[x] \in AssetRecord /\ x \in Assets /\ s.asset[x].warp
  BY <1>1 DEF Typed
<1>3. s.asset[x].supply \in Nat /\ s.asset[x].supply < Word
  <2>1. \A u \in Uint64 : u \in Nat /\ u < Word
    BY Uint64Below
  <2> QED BY <1>2, <2>1 DEF AssetRecord
<1>4. left \in Int /\ 0 <= left /\ left < Word
  BY <1>3, AssetsAssumption
<1>5. left \in Uint64
  BY <1>4, Uint64Range
<1> HIDE DEF left
<1>6. CASE left > 0
  <2>1. /\ rec \in [symbol : Symbols, supply : Int,
                    owner : Addresses \cup {EmptyAddress}, warp : BOOLEAN]
        /\ rec.warp /\ rec.supply = left
    BY <1>2, <1>4 DEF AssetRecord
  <2> HIDE DEF rec
  <2>2. LET r == SetAsset(s, x, rec)
        IN IsState(r) /\ r.ok /\ r.balance = s.balance /\ r.keys = s.keys
    BY <1>2, <1>5, <2>1, SetAssetDoes
  <2> QED BY <1>6, <2>2 DEF rec, left
<1>7. CASE ~ (left > 0)
  <2>1. q \in BOOLEAN /\ q
    BY <1>4, <1>7
  <2> HIDE DEF q
  <2>2. IsState(k) /\ k.ok /\ k.balance = s.balance /\ k.keys = s.keys
    BY <2>1, CheckDoes
  <2> HIDE DEF k
  <2>3. LET r == DeleteAsset(k, x)
        IN IsState(r) /\ r.ok /\ r.balance = s.balance /\ r.keys = s.keys
    BY <1>2, <2>2, DeleteAssetDoes
  <2> QED BY <1>7, <2>3 DEF k, q, left
<1> QED BY <1>6, <1>7

\* executeReturn of ExportAsset succeeds for one who has the money.
LEMMA ExportReturnSucceeds ==
  ASSUME NEW s, IsState(s), s.ok, NEW a \in Addresses, NEW e \in Exports,
         AssetKey(e.Asset) \in s.keys, BalanceKey(a, e.Asset) \in s.keys,
         e.Asset \in DOMAIN s.asset \ Originals, e.Asset[2] = e.Destination,
         e.Value + e.Reward <= s.asset[e.Asset].supply,
         e.Value + e.Reward <= s.balance[a][e.Asset]
  PROVE  ExportReturn(s, a, e).ok
<1> DEFINE x    == e.Asset
           v    == e.Value
           w    == e.Reward
           left == s.asset[x].supply - v - w
           k    == IF left > 0
                     THEN SetAsset(s, x, [s.asset[x] EXCEPT !.supply = left])
                     ELSE DeleteAsset(Check(s, left = 0), x)
           b    == SubBalance(k, a, x, v)
<1>1. HasAsset(s, x) /\ s.asset[x].warp /\ x[2] = e.Destination
  BY DEF HasAsset, IsState, Typed
<1>2. ExportReturn(s, a, e) = Rewarding(w, SubBalance(b, a, x, w), b)
  BY <1>1 DEF ExportReturn
<1>3. v \in Nat /\ w \in Nat /\ x \in Assets
  BY FieldTypes
<1>4. /\ x \in DOMAIN s.asset \ Originals /\ v + w <= s.asset[x].supply
      /\ v + w <= s.balance[a][x] /\ AssetKey(x) \in s.keys /\ BalanceKey(a, x) \in s.keys
  OBVIOUS
<1> HIDE DEF x, v, w, b
<1>5. IsState(k) /\ k.ok /\ k.balance = s.balance /\ k.keys = s.keys
  BY <1>3, <1>4, ReducedSucceeds
<1> HIDE DEF k
<1>6. v + w <= k.balance[a][x] /\ BalanceKey(a, x) \in k.keys
  BY <1>4, <1>5
<1>7. Rewarding(w, SubBalance(b, a, x, w), b).ok
  BY <1>3, <1>5, <1>6, PaidSucceeds DEF b
<1> QED BY <1>2, <1>7

\* executeLoan of ExportAsset succeeds for one who has the money.
LEMMA ExportLoanSucceeds ==
  ASSUME NEW s, IsState(s), s.ok, NEW a \in Addresses, NEW e \in Exports,
         AssetKey(e.Asset) \in s.keys, BalanceKey(a, e.Asset) \in s.keys,
         LoanKey(e.Asset, e.Destination) \in s.keys,
         e.Asset \in DOMAIN s.asset, e.Asset \in Originals,
         e.Value + e.Reward <= s.balance[a][e.Asset],
         s.loan[e.Asset][e.Destination] + (e.Value + e.Reward) < Word
  PROVE  ExportLoan(s, a, e).ok
<1> DEFINE x  == e.Asset
           d  == e.Destination
           v  == e.Value
           w  == e.Reward
           l  == s.loan[x][d]
           s1 == AddLoan(s, x, d, v)
           s2 == SubBalance(s1, a, x, v)
           s3 == AddLoan(s2, x, d, w)
           s4 == SubBalance(s3, a, x, w)
<1>1. Typed(s)
  BY DEF IsState
<1>2. HasAsset(s, x) /\ ~ s.asset[x].warp
  BY <1>1 DEF HasAsset, Typed
<1>3. ExportLoan(s, a, e) = Rewarding(w, s4, s2)
  BY <1>2 DEF ExportLoan
<1>4. v \in Nat /\ w \in Nat /\ x \in Assets /\ x \in Originals /\ d \in Chains
  BY FieldTypes
<1>5. l \in Nat /\ s.balance[a][x] \in Nat /\ s.loan \in [Originals -> [Chains -> Uint64]]
  BY <1>1, <1>4, PartOfTotal DEF Typed
<1>6. /\ LoanKey(x, d) \in s.keys /\ BalanceKey(a, x) \in s.keys
      /\ v + w <= s.balance[a][x] /\ l + (v + w) < Word
  OBVIOUS
<1> HIDE DEF x, d, v, w
<1>7. l + v \in Int /\ l + v < Word /\ v <= s.balance[a][x] /\ (l + v) + w < Word
  BY <1>4, <1>5, <1>6, AssetsAssumption
<1>8. s1.ok /\ s1.loan = [s.loan EXCEPT ![x][d] = l + v]
  BY <1>4, <1>6, <1>7, AddLoanWrites
<1>9. IsState(s1) /\ s1.balance = s.balance /\ s1.keys = s.keys
  BY <1>4, AddLoanDoes
<1> HIDE DEF s1
<1>10. s1.loan[x][d] = l + v
  BY <1>4, <1>5, <1>7, <1>8, LoanEntry
<1>11. v <= s1.balance[a][x] /\ BalanceKey(a, x) \in s1.keys
  BY <1>6, <1>7, <1>9
<1>12. s2.ok
  BY <1>4, <1>8, <1>9, <1>11, SubBalanceWrites
<1>13. /\ IsState(s2) /\ s2.keys = s1.keys /\ s2.loan = s1.loan
       /\ s2.balance[a][x] = s1.balance[a][x] - v
  BY <1>4, <1>9, <1>12, SubBalanceDoes, Subtracted
<1> HIDE DEF s2
<1>14. ASSUME w > 0 PROVE s4.ok
  <2>1. s2.loan[x][d] + w < Word /\ LoanKey(x, d) \in s2.keys
    BY <1>6, <1>7, <1>9, <1>10, <1>13
  <2>2. s3.ok
    BY <1>4, <1>12, <1>13, <2>1, AddLoanWrites
  <2>3. IsState(s3) /\ s3.balance = s2.balance /\ s3.keys = s2.keys
    BY <1>4, <1>13, AddLoanDoes
  <2> HIDE DEF s3
  <2>4. w <= s3.balance[a][x] /\ BalanceKey(a, x) \in s3.keys
    <3>1. s3.balance[a][x] = s.balance[a][x] - v
      BY <1>9, <1>13, <2>3
    <3> QED BY <1>4, <1>5, <1>6, <1>9, <1>13, <2>3, <3>1
  <2> QED BY <1>4, <2>2, <2>3, <2>4, SubBalanceWrites
<1> HIDE DEF s3, s4
<1>15. Rewarding(w, s4, s2).ok
  BY <1>12, <1>14 DEF Rewarding
<1> QED BY <1>3, <1>15

\* An export whose prompts were answered succeeds for one who still has the money.
LEMMA InvExportFails ==
  ASSUME RelayInv
  PROVE  ExportFailsForFunds
<1> SUFFICES ASSUME NEW u \in Addresses, At(u, "export"), cmd[u].export.Value # 0,
                    ~ (chain[cmd[u].chain].balance[u][cmd[u].export.Asset]
                         < cmd[u].export.Value + cmd[u].export.Reward)
             PROVE  ExportAsset(chain[cmd[u].chain], u, cmd[u].export).ok
  BY DEF ExportFailsForFunds
<1> DEFINE c  == cmd[u].chain
           e  == cmd[u].export
           x  == e.Asset
           d  == e.Destination
           n  == e.Value + e.Reward
           s  == chain[c]
           ks == ExportStateKeys(u, e)
           s1 == Declare(s, ks)
<1>1. /\ c \in Chains /\ e \in Exports /\ (e.Return <=> x \notin Originals)
      /\ e.Return => d = x[2]
  BY DEF RelayInv, Commands, Settled
<1>2. Shape /\ SupplyAccounted /\ Typed(s) /\ IsState(s) /\ s.ok
  BY <1>1, ShapeTyped DEF RelayInv, Inv, Shape
<1>3. /\ x \in Assets /\ d \in Chains /\ e.Return \in BOOLEAN
      /\ e.Value \in Nat /\ e.Reward \in Nat
  BY <1>1, FieldTypes
<1>4. n \in Nat /\ n > 0
  BY <1>3
<1>5. s.balance[u][x] \in Nat /\ s.balance[u][x] <= Owned(s, x)
  BY <1>2, <1>3, PartOfTotal
<1>6. n <= s.balance[u][x]
  <2>1. ~ (s.balance[u][x] < n)
    OBVIOUS
  <2> HIDE DEF n, x, s
  <2> QED BY <1>4, <1>5, <2>1
<1>7. Owned(s, x) \in Nat /\ Lent(s, x) \in Nat /\ Supply(s, x) \in Nat
      /\ Supply(s, x) = Owned(s, x) + Lent(s, x)
  BY <1>1, <1>2, <1>3, TotalsType DEF SupplyAccounted
<1> HIDE DEF n, x, d
<1>8. n <= Supply(s, x) /\ Supply(s, x) > 0
  BY <1>4, <1>5, <1>6, <1>7
<1>9. x \in DOMAIN s.asset /\ Supply(s, x) = s.asset[x].supply
  BY <1>8 DEF Supply
<1>10. Supply(s, x) < Word
  <2>1. \A i \in Uint64 : i \in Nat /\ i < Word
    BY Uint64Below
  <2> QED BY <1>2, <1>9, <2>1 DEF Typed, AssetRecord
<1>11. /\ AssetKey(x) \in ks /\ BalanceKey(u, x) \in ks
       /\ ~ e.Return => LoanKey(x, d) \in ks
  BY DEF ExportStateKeys, x, d
<1> HIDE DEF ks
<1>12. /\ IsState(s1) /\ s1.ok /\ s1.keys = ks /\ s1.asset = s.asset /\ s1.loan = s.loan
       /\ s1.balance = s.balance
  BY <1>2, DeclareDoes
<1>13. ExportAsset(s, u, e) = IF e.Return THEN ExportReturn(s1, u, e) ELSE ExportLoan(s1, u, e)
  BY DEF ExportAsset, ks
<1> HIDE DEF s1, s, c, e
<1>14. CASE e.Return
  <2>1. /\ x \in DOMAIN s1.asset \ Originals /\ x[2] = d
        /\ n <= s1.asset[x].supply /\ n <= s1.balance[u][x]
        /\ AssetKey(x) \in s1.keys /\ BalanceKey(u, x) \in s1.keys
    BY <1>1, <1>6, <1>8, <1>9, <1>11, <1>12, <1>14
  <2>2. ExportReturn(s1, u, e).ok
    BY <1>1, <1>12, <2>1, ExportReturnSucceeds DEF x, d, n
  <2> QED BY <1>13, <1>14, <2>2 DEF s, c, e
<1>15. CASE ~ e.Return
  <2>1. x \in Originals
    BY <1>1, <1>15
  <2>2. s.loan[x][d] \in Nat /\ s.loan[x][d] <= Lent(s, x)
    BY <1>2, <1>3, <2>1, PartOfTotal
  <2>3. s.loan[x][d] + n < Word
    BY <1>4, <1>5, <1>6, <1>7, <1>10, <2>2, AssetsAssumption
  <2>4. /\ x \in DOMAIN s1.asset /\ n <= s1.balance[u][x]
        /\ s1.loan[x][d] + n < Word
        /\ AssetKey(x) \in s1.keys /\ BalanceKey(u, x) \in s1.keys /\ LoanKey(x, d) \in s1.keys
    BY <1>6, <1>9, <1>11, <1>12, <1>15, <2>3
  <2>5. ExportLoan(s1, u, e).ok
    BY <1>1, <1>12, <2>1, <2>4, ExportLoanSucceeds DEF x, d, n
  <2> QED BY <1>13, <1>15, <2>5 DEF s, c, e
<1> QED BY <1>14, <1>15

\* An export whose prompts were answered fails only when the balance that was read
\* is gone or nothing is exported, for any number of chains and users meanwhile.
THEOREM ExportsFailForFunds == RelaySpec => []ExportFailsForFunds
<1>1. RelayInv => ExportFailsForFunds
  BY InvExportFails
<1> QED BY RelayInvHolds, <1>1, PTL
=============================================================================
