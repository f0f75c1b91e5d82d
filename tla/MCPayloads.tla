----------------------------- MODULE MCPayloads ------------------------------
(***************************************************************************)
(* The encodings of block payloads, checked in one run.  They share no      *)
(* state, so a behaviour moves one of them, chosen at the start.            *)
(***************************************************************************)
EXTENDS TrlTxnData, TrlCallReturn, TrlVcData, TrlHierarchy, TrlDerived,
        TrlRegistry

CONSTANT Parts     \* "txn", "call", "wave", "hier", "derived", "reg"

VARIABLE part

payloadVars == <<part, txnVars, callVars, waveVars, hierVars, derivedVars, regVars>>

PayloadInit ==
  /\ part \in Parts
  /\ TxnInit /\ CallInit /\ WaveInit /\ HierInit /\ DerivedInit /\ RegInit
  /\ part # "txn" => txnBlk = [layout |-> "row", delta |-> TRUE, column |-> FALSE, known |-> << >>]
  /\ part # "wave" => waveCodec = "core"
  /\ part # "reg" => regNewer = FALSE

PayloadNext ==
  /\ UNCHANGED part
  /\ IF part = "txn" THEN TxnNext ELSE UNCHANGED txnVars
  /\ IF part = "call" THEN CallNext ELSE UNCHANGED callVars
  /\ IF part = "wave" THEN WaveNext ELSE UNCHANGED waveVars
  /\ IF part = "hier" THEN HierNext ELSE UNCHANGED hierVars
  /\ IF part = "derived" THEN DerivedNext ELSE UNCHANGED derivedVars
  /\ IF part = "reg" THEN RegNext ELSE UNCHANGED regVars

PayloadSpec == PayloadInit /\ [][PayloadNext]_payloadVars

\* Transactions: a type of a narrow and a variable field; a record that ends
\* before it starts; both attributes, and, for gaps, none or one.
MCFieldLists == {<<"U8", "VAR">>}
MCSpans == {<<1, 2>>, <<3, 1>>}
MCAttrLists == {<<[idx |-> 0, val |-> 3], [idx |-> 1, val |-> 6]>>}
MCSparseAttrs == {<< >>, <<[idx |-> 0, val |-> 3]>>}

\* Calls: a function of a number, and one of a string and a number.
MCSignatures == <<<<"INT">>, <<"STR", "INT">>>>
MCArgValues == {-2, 1}
MCReturns == {NoReturn, -2}

\* Waves: two vectors of which one is of two bytes, and single bits.
MCWaveTypes == <<[enc |-> "2STATE", width |-> 3], [enc |-> "4STATE", width |-> 2],
                 [enc |-> "2STATE", width |-> 1]>>
MCWaveValues == {{}, {0, 2}, {XBit, 0}}

\* Derived signals: constants and values of two bits.
MCConstants == {{1}}
MCInputValues == {{0}, {0, 1}}

\* Registry: numbers, a list that begins with a number of another sign, strings.
MCMetaValues == {[list |-> FALSE, kind |-> "INT", vals |-> <<-3>>],
                 [list |-> TRUE, kind |-> "INT", vals |-> <<2, -4>>],
                 [list |-> FALSE, kind |-> "STR", vals |-> <<7>>],
                 [list |-> TRUE, kind |-> "BOOL", vals |-> <<1, 0>>]}
MCStreamCodecs == {NoCodec, [id |-> 0, version |-> 1, params |-> <<1>>],
                   [id |-> 9, version |-> 1, params |-> <<1>>]}
MCEnumValues == {<<0, -1, 3>>}
=============================================================================
