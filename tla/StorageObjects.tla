--------------------------- MODULE StorageObjects ---------------------------
(***************************************************************************)
(* The transactions of a storage (impl/storage.cpp) and of an inserter     *)
(* (impl/inserter.cpp), which analyzes a content and inserts the documents *)
(* it consists of.  Operations take the state of a transaction and return  *)
(* the state they leave with the outcome of the call.                      *)
(***************************************************************************)
EXTENDS DeserializerDocuments, Serializer

CONSTANTS Documents       \* the documents the storage knows

(* operations: what the transaction is to do; open: whether there is an    *)
(* interface behind it; done: what the storage did.                        *)
NewTransaction == [open |-> TRUE, operations |-> << >>, done |-> << >>]

Prepared(t, op)   == [object |-> [t EXCEPT !.operations = Append(@, op)], ok |-> TRUE]
NotPrepared(t)    == [object |-> t, ok |-> FALSE]
PreparedIf(t, c, Op(_)) == IF Ok(c) THEN Prepared(t, Op(c)) ELSE NotPrepared(t)
Arguments(values) == Cursor(values)

(* A document is created first, and done when all of it was read.          *)
InsertDocument(t, docid, value) ==
  IF docid = "" THEN NotPrepared(t)
  ELSE PreparedIf(t, BuildInsertDocument(Arguments(<<value>>)),
                  LAMBDA c : [op |-> "insert", docid |-> docid, calls |-> c.made])

(* The contents to delete are read before the new ones.                    *)
UpdateDocument(t, docid, content, deletes) ==
  IF docid \notin Documents THEN NotPrepared(t)
  ELSE PreparedIf(t, BuildUpdateDocument(Arguments(<<deletes, content>>)),
                  LAMBDA c : [op |-> "update", docid |-> docid, calls |-> c.made])

DeleteDocument(t, docid) == Prepared(t, [op |-> "delete", docid |-> docid])
DeleteUserAccessRights(t, user) == Prepared(t, [op |-> "revoke", user |-> user])

---------------------------------------------------------------------------
(* The metadata table.  An element is replaced by another name when a type *)
(* is given, and by another type when there is none.                       *)

Command(got, label) ==
  LET field(f) == IF <<label, f>> \in DOMAIN got THEN got[<<label, f>>] ELSE ""
  IN  [op |-> field("op"), name |-> field("name"), type |-> field("type"),
       oldname |-> field("oldname")]
Commands(c) ==
  LET labels == {p[1] : p \in DOMAIN c.got}
  IN  [i \in 1..Cardinality(labels) |-> Command(c.got, ToString(i))]

TableCall(command) ==
  CASE command.op = "add"     -> <<"addElement", command.name, command.type>>
    [] command.op = "replace" ->
         IF command.type = "" THEN <<"alterElement", command.oldname, command.name, command.type>>
         ELSE <<"renameElement", command.oldname, command.name>>
    [] command.op = "remove"  -> IF command.name = "" THEN <<"deleteElements">>
                                 ELSE <<"deleteElement", command.name>>
    [] command.op = "clear"   -> <<"clearElement", command.name>>
FillUpdateMetaDataTable(t, c) ==
  LET calls(commands) == [i \in DOMAIN commands |-> TableCall(commands[i])]
  IN  PreparedIf(t, c, LAMBDA d : [op |-> "metadata", calls |-> calls(Commands(d))])

UpdateMetaDataTable(t, value) ==
  FillUpdateMetaDataTable(t, MetaDataTableCommandList(Arguments(<<value>>)))
DefineMetaDataTable(t, value) ==
  FillUpdateMetaDataTable(t, MetaDataNameTypePairs(Arguments(<<value>>)))

---------------------------------------------------------------------------
(* A commit that fails takes the interface with it.                        *)
Commit(t, success) ==
  IF success
  THEN [object |-> [t EXCEPT !.done = @ \o t.operations, !.operations = << >>], ok |-> TRUE]
  ELSE [object |-> [t EXCEPT !.open = FALSE, !.operations = << >>], ok |-> FALSE]
Rollback(t) == [object |-> [t EXCEPT !.operations = << >>], ok |-> TRUE]

---------------------------------------------------------------------------
(* Inserter: the documents of a content are serialized and inserted one by  *)
(* one.  Without a document id the attribute docid is taken; with one, the *)
(* second document is refused when it is inserted already.                 *)

DocidAttribute(d) ==
  LET ids == {i \in DOMAIN d.attribute : d.attribute[i].name = "docid"}
  IN  IF ids = {} THEN ""
      ELSE d.attribute[CHOOSE i \in ids : \A j \in ids : i <= j].value

InserterInsertDocument(t, docid, documents) ==
  LET Inserted[k \in 0..Len(documents)] ==
        IF k = 0 THEN [object |-> t, ok |-> TRUE]
        ELSE LET insert(before, d) ==
                   [InsertDocument(before.object, IF docid = "" THEN DocidAttribute(d) ELSE docid,
                                   Packed(WriteDocument(FALSE, d)))
                      EXCEPT !.ok = @ /\ (k = 1 \/ docid = "")]
             IN  IF Inserted[k - 1].ok THEN insert(Inserted[k - 1], documents[k])
                 ELSE Inserted[k - 1]
  IN  Inserted[Len(documents)]

=============================================================================
