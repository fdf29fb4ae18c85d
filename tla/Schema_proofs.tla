---------------------------- MODULE Schema_proofs ----------------------------
(***************************************************************************)
(* Proofs about the resolver and the generator, for any files, include     *)
(* paths and depth: no index of one list is ever found in another, every   *)
(* index leads to an item of its kind, and the generated code mentions     *)
(* only items it has.  If packages tell definitions apart, a descriptor    *)
(* has all that its file leads to, and identifiers are given twice only    *)
(* where the files do so.  If full names tell them apart, every field      *)
(* leads to the item it meant where it was written and has the label it    *)
(* was written with, and reading fails only for files that are not in      *)
(* order by themselves or whose imports go round.                          *)
(***************************************************************************)
EXTENDS SchemaGenerator, SequenceLemmas, FiniteSetTheorems

-----------------------------------------------------------------------------
(* The definitions a file, a merge and the two passes over types give. *)

HasItself(defs) == \A i \in DOMAIN defs : 1 \in DOMAIN defs[i].parts

HaveNoIndex(defs) == \A i \in DOMAIN defs : HasNoIndex(defs[i])

\* No two are of one kind, package and name.
DistinctKeys(defs) == \A i, j \in DOMAIN defs : Key(defs[i]) = Key(defs[j]) => i = j

\* What the list of a running call always is; what is incoming; what is handed over.
Listed(defs) == IsSeq(defs) /\ HasItself(defs) /\ DistinctKeys(defs) /\ HaveNoIndex(defs)
Arriving(defs) == IsSeq(defs) /\ HasItself(defs) /\ HaveNoIndex(defs)
Returned(defs) == IsSeq(defs) /\ HasItself(defs) /\ DistinctKeys(defs)

\* What a text is, one fact at a time.
LEMMA WrittenFacts ==
    ASSUME NEW file, Written(file)
    PROVE  /\ IsSeq(file.package) /\ IsSeq(file.imports) /\ IsSeq(file.defs)
           /\ \A i \in DOMAIN file.defs :
                /\ IsSeq(file.defs[i])
                /\ 1 \in DOMAIN file.defs[i]
                /\ \A j \in DOMAIN file.defs[i] :
                    /\ IsSeq(file.defs[i][j].name)
                    /\ file.defs[i][j].kind \in {"Message", "Enum"}
                    /\ \A k \in DOMAIN file.defs[i][j].fields :
                        /\ ~ IsIndexed(file.defs[i][j].fields[k].typ)
                        /\ IsNamed(file.defs[i][j].fields[k].typ) =>
                               IsSeq(file.defs[i][j].fields[k].typ.name)
           /\ \A i, j \in DOMAIN file.defs :
                /\ file.defs[i][1].kind = file.defs[j][1].kind
                /\ file.defs[i][1].name = file.defs[j][1].name
                => i = j
<1>1. \A s : IsSequence(s) => IsSeq(s)
  BY DEF IsSequence, IsSeq
<1>2. \A s : IsSequence(s) /\ s # << >> => 1 \in DOMAIN s
  <2> SUFFICES ASSUME NEW s, IsSequence(s), s # << >>
               PROVE  1 \in DOMAIN s
    OBVIOUS
  <2> DEFINE S == ToSet(s)
  <2>1. s \in Seq(S)
    BY DEF IsSequence
  <2> QED
    BY <2>1
<1> QED
  BY <1>1, <1>2 DEF Written

\* A file's own definitions.
LEMMA OwnDefsListed ==
    ASSUME fs \in Schemas, NEW f \in DOMAIN fs
    PROVE  Listed(OwnDefs(f))
<1> DEFINE defs == fs[f].defs
           own == OwnDefs(f)
<1>0. Written(fs[f])
  BY ResolverAssumption
<1>1. /\ \A i \in DOMAIN defs : 1 \in DOMAIN defs[i]
      /\ \A i \in DOMAIN defs : \A j \in DOMAIN defs[i] : \A k \in DOMAIN defs[i][j].fields :
            ~ IsIndexed(defs[i][j].fields[k].typ)
      /\ \A i, j \in DOMAIN defs :
            defs[i][1].kind = defs[j][1].kind /\ defs[i][1].name = defs[j][1].name => i = j
  BY <1>0, WrittenFacts
<1>2. IsSeq(defs)
  BY <1>0, WrittenFacts
<1>3. DOMAIN defs = 1..Len(defs) /\ Len(defs) \in Nat
  BY <1>2, SeqFacts
<1>4. own = [i \in 1..Len(defs) |-> own[i]]
  BY <1>3 DEF OwnDefs
<1>5. IsSeq(own) /\ DOMAIN own = DOMAIN defs
  BY <1>3, <1>4, FunctionIsSeq
<1>6. \A i \in DOMAIN defs :
          /\ own[i].package = fs[f].package
          /\ own[i].parts = [j \in DOMAIN defs[i] |-> message(fs[f], defs[i][j])]
  BY DEF OwnDefs
<1>7. HasItself(own)
  BY <1>1, <1>5, <1>6 DEF HasItself
<1>8. DistinctKeys(own)
  <2>1. ASSUME NEW i \in DOMAIN defs
        PROVE  Key(own[i]) = <<defs[i][1].kind, fs[f].package, defs[i][1].name>>
    <3>1. own[i].parts[1] = message(fs[f], defs[i][1])
      BY <1>1, <1>6
    <3>2. own[i].parts[1].kind = defs[i][1].kind /\ own[i].parts[1].name = defs[i][1].name
      BY <3>1 DEF message
    <3> QED
      BY <1>6, <3>2 DEF Key
  <2> QED
    BY <1>1, <1>5, <2>1 DEF DistinctKeys
<1>9. HaveNoIndex(own)
  <2> SUFFICES ASSUME NEW i \in DOMAIN own,
                      NEW j \in DOMAIN own[i].parts,
                      NEW k \in DOMAIN own[i].parts[j].fields
               PROVE  ~ IsIndexed(own[i].parts[j].fields[k].typ)
    BY DEF HaveNoIndex, HasNoIndex
  <2>1. i \in DOMAIN defs /\ j \in DOMAIN defs[i]
    BY <1>5, <1>6
  <2>2. own[i].parts[j] = message(fs[f], defs[i][j])
    BY <1>6, <2>1
  <2>3. own[i].parts[j].fields = [h \in DOMAIN defs[i][j].fields |-> Field(fs[f], defs[i][j].fields[h])]
    BY <2>2 DEF message
  <2>4. /\ k \in DOMAIN defs[i][j].fields
        /\ own[i].parts[j].fields[k] = Field(fs[f], defs[i][j].fields[k])
    BY <2>3
  <2>5. own[i].parts[j].fields[k].typ = defs[i][j].fields[k].typ
    BY <2>4 DEF Field
  <2> QED
    BY <1>1, <2>1, <2>4, <2>5
<1> QED
  BY <1>5, <1>7, <1>8, <1>9 DEF Listed

\* Changing fields changes no key.
LEMMA SameKeys ==
    ASSUME NEW d, NEW fields, 1 \in DOMAIN d.parts
    PROVE  /\ 1 \in DOMAIN WithFields(d, fields).parts
           /\ Key(WithFields(d, fields)) = Key(d)
BY DEF WithFields, Key

\* Resolving types keeps what makes definitions distinct.
LEMMA ResolvedReturned ==
    ASSUME NEW defs, Listed(defs)
    PROVE  Returned(Resolved(defs))
<1> DEFINE new == Resolved(defs)
<1>1. IsSeq(defs) /\ HasItself(defs) /\ DistinctKeys(defs)
  BY DEF Listed
<1>2. DOMAIN defs = 1..Len(defs) /\ Len(defs) \in Nat
  BY <1>1, SeqFacts
<1>3. new = [i \in 1..Len(defs) |-> new[i]]
  BY <1>2 DEF Resolved
<1>4. IsSeq(new) /\ DOMAIN new = DOMAIN defs
  BY <1>2, <1>3, FunctionIsSeq
<1>5. \A i \in DOMAIN defs : \E fields : new[i] = WithFields(defs[i], fields)
  BY DEF Resolved
<1> HIDE DEF new
<1>6. \A i \in DOMAIN defs : 1 \in DOMAIN new[i].parts /\ Key(new[i]) = Key(defs[i])
  BY <1>1, <1>5, SameKeys DEF HasItself
<1>7. HasItself(new)
  BY <1>4, <1>6 DEF HasItself
<1>8. DistinctKeys(new)
  BY <1>1, <1>4, <1>6 DEF DistinctKeys
<1> QED
  BY <1>4, <1>7, <1>8 DEF Returned, new

\* A name is no index.
LEMMA AsNameIsNoIndex ==
    ASSUME NEW defs, NEW typ
    PROVE  ~ IsIndexed(AsName(defs, typ))
BY DEF AsName, IsIndexed, MessageOrEnum

\* What a caller makes of a returned list has no index left, at any depth.
LEMMA ReceivedArriving ==
    ASSUME NEW defs, Returned(defs), NEW package
    PROVE  Arriving([i \in DOMAIN defs |-> Adopted(Unresolved(defs)[i], package)])
<1> DEFINE new == [i \in DOMAIN defs |-> Adopted(Unresolved(defs)[i], package)]
<1>1. IsSeq(defs) /\ HasItself(defs)
  BY DEF Returned
<1>2. DOMAIN defs = 1..Len(defs) /\ Len(defs) \in Nat
  BY <1>1, SeqFacts
<1>3. new = [i \in 1..Len(defs) |-> new[i]]
  BY <1>2
<1>4. IsSeq(new) /\ DOMAIN new = DOMAIN defs
  BY <1>2, <1>3, FunctionIsSeq
<1>5. ASSUME NEW i \in DOMAIN defs
      PROVE  /\ DOMAIN new[i].parts = DOMAIN defs[i].parts
             /\ \A j \in DOMAIN defs[i].parts : new[i].parts[j].fields =
                    [k \in DOMAIN defs[i].parts[j].fields |->
                        WithType(defs[i].parts[j].fields[k],
                                 AsName(defs, defs[i].parts[j].fields[k].typ))]
  BY <1>5 DEF Adopted, Unresolved, WithFields
<1> HIDE DEF new
<1>6. HasItself(new)
  BY <1>1, <1>4, <1>5 DEF HasItself
<1>7. HaveNoIndex(new)
  <2> SUFFICES ASSUME NEW i \in DOMAIN new,
                      NEW j \in DOMAIN new[i].parts,
                      NEW k \in DOMAIN new[i].parts[j].fields
               PROVE  ~ IsIndexed(new[i].parts[j].fields[k].typ)
    BY DEF HaveNoIndex, HasNoIndex
  <2>1. i \in DOMAIN defs /\ j \in DOMAIN defs[i].parts
    BY <1>4, <1>5
  <2>2. new[i].parts[j].fields[k] =
            WithType(defs[i].parts[j].fields[k], AsName(defs, defs[i].parts[j].fields[k].typ))
    BY <1>5, <2>1
  <2>3. new[i].parts[j].fields[k].typ = AsName(defs, defs[i].parts[j].fields[k].typ)
    BY <2>2 DEF WithType
  <2> QED
    BY <2>3, AsNameIsNoIndex
<1> QED
  BY <1>4, <1>6, <1>7 DEF Arriving, new

\* One more definition, which the list has not got by kind, package and name.
LEMMA MergedListed ==
    ASSUME NEW defs, Listed(defs), NEW d, 1 \in DOMAIN d.parts, HasNoIndex(d),
           ~ IsMerged(d, defs)
    PROVE  Listed(Append(defs, d))
<1> DEFINE new == Append(defs, d)
           n == Len(defs)
<1>1. IsSeq(defs) /\ HasItself(defs) /\ DistinctKeys(defs) /\ HaveNoIndex(defs)
  BY DEF Listed
<1>2. n \in Nat /\ DOMAIN defs = 1..n
  BY <1>1, SeqFacts
<1>3. /\ IsSeq(new) /\ DOMAIN new = 1..(n + 1)
      /\ \A i \in 1..n : new[i] = defs[i]
      /\ new[n + 1] = d
  BY <1>1, AppendFacts
<1> HIDE DEF new, n
<1>4. \A i \in DOMAIN new : i = n + 1 \/ i \in DOMAIN defs
  BY <1>2, <1>3
<1>5. HasItself(new)
  BY <1>1, <1>2, <1>3, <1>4 DEF HasItself
<1>6. HaveNoIndex(new)
  BY <1>1, <1>2, <1>3, <1>4 DEF HaveNoIndex
<1>7. DistinctKeys(new)
  <2> SUFFICES ASSUME NEW i \in DOMAIN new, NEW j \in DOMAIN new, Key(new[i]) = Key(new[j])
               PROVE  i = j
    BY DEF DistinctKeys
  <2>1. \A h \in DOMAIN defs : Key(defs[h]) # Key(d)
    BY DEF IsMerged
  <2>2. CASE i \in DOMAIN defs /\ j \in DOMAIN defs
    BY <1>1, <1>2, <1>3, <2>2 DEF DistinctKeys
  <2>3. CASE i \in DOMAIN defs /\ j = n + 1
    BY <1>2, <1>3, <2>1, <2>3
  <2>4. CASE i = n + 1 /\ j \in DOMAIN defs
    BY <1>2, <1>3, <2>1, <2>4
  <2> QED
    BY <1>4, <2>2, <2>3, <2>4
<1> QED
  BY <1>3, <1>5, <1>6, <1>7 DEF Listed, new

-----------------------------------------------------------------------------
(* The inductive invariant. *)

\* Every running call has a list that is in order, what returned has one but for its indices,
\* and what is incoming has none.
IInv ==
    /\ fs \in Schemas
    /\ IsSeq(stack)
    /\ Running => stack # << >>
    /\ \A n \in DOMAIN stack : Listed(stack[n].defs)
    /\ Returned(desc.defs)
    /\ Arriving(incoming)

LEMMA NothingReturned == Returned(<< >>) /\ Arriving(<< >>)
<1>1. IsSeq(<< >>)
  BY DEF IsSeq
<1> QED
  BY <1>1 DEF Returned, Arriving, HasItself, DistinctKeys, HaveNoIndex

LEMMA InitInv == Init => IInv
<1> SUFFICES ASSUME Init
             PROVE  IInv
  OBVIOUS
<1>1. fs \in Schemas /\ Root \in DOMAIN fs
  BY ResolverAssumption DEF Init
<1>2. stack = <<Call(Root)>> /\ desc.defs = << >> /\ incoming = << >>
  BY DEF Init, NoDesc
<1>3. IsSeq(stack) /\ stack # << >> /\ DOMAIN stack = {1}
  <2> DEFINE S == ToSet(stack)
  <2>1. stack[1] \in S /\ DOMAIN stack = {1} /\ Len(stack) = 1
    BY <1>2 DEF ToSet
  <2>2. stack = [i \in 1..1 |-> stack[i]]
    BY <1>2
  <2> QED
    BY <1>2, <2>1, <2>2, FunctionIsSeq
<1>4. stack[1].defs = OwnDefs(Root)
  BY <1>2 DEF Call, Frame
<1>5. \A n \in DOMAIN stack : Listed(stack[n].defs)
  BY <1>1, <1>3, <1>4, OwnDefsListed
<1> QED
  BY <1>1, <1>2, <1>3, <1>5, NothingReturned DEF IInv

LEMMA OpenImportInv == IInv /\ OpenImport => IInv'
<1> SUFFICES ASSUME IInv, OpenImport
             PROVE  IInv'
  OBVIOUS
<1> DEFINE f(i) == Candidate(Top.file, import_search_path[i], Import)
           frame == Frame(stack[Len(stack)].file, stack[Len(stack)].defs, stack[Len(stack)].next + 1)
           moved == [stack EXCEPT ![Len(stack)] = frame]
<1>1. PICK i \in DOMAIN import_search_path :
          IsMatch(Top.file, i, Import) /\ stack' = Append(moved, Call(f(i)))
  BY DEF OpenImport
<1>2. f(i) \in DOMAIN fs
  BY <1>1 DEF IsMatch, Exists
<1>3. Listed(OwnDefs(f(i)))
  BY <1>2, OwnDefsListed DEF IInv
<1>4. Call(f(i)).defs = OwnDefs(f(i)) /\ frame.defs = stack[Len(stack)].defs
  BY DEF Call, Frame
<1>5. /\ IsSeq(moved) /\ Len(moved) = Len(stack) /\ DOMAIN moved = DOMAIN stack
      /\ \A n \in DOMAIN stack : moved[n] = IF n = Len(stack) THEN frame ELSE stack[n]
  BY ExceptFacts, SMTT(30) DEF IInv
<1>6. Len(stack) \in Nat /\ DOMAIN stack = 1..Len(stack)
  BY SeqFacts DEF IInv
<1> HIDE DEF moved, frame, f
<1>7. \A n \in DOMAIN moved : Listed(moved[n].defs)
  BY <1>4, <1>5 DEF IInv
<1>8. /\ IsSeq(stack')
      /\ DOMAIN stack' = 1..(Len(stack) + 1)
      /\ \A n \in 1..Len(stack) : stack'[n] = moved[n]
      /\ stack'[Len(stack) + 1] = Call(f(i))
  BY <1>1, <1>5, AppendFacts
<1>9. \A n \in DOMAIN stack' : Listed(stack'[n].defs)
  <2> SUFFICES ASSUME NEW n \in DOMAIN stack'
               PROVE  Listed(stack'[n].defs)
    OBVIOUS
  <2>1. CASE n \in 1..Len(stack)
    BY <1>5, <1>6, <1>7, <1>8, <2>1
  <2>2. CASE n = Len(stack) + 1
    BY <1>3, <1>4, <1>8, <2>2
  <2> QED
    BY <1>6, <1>8, <2>1, <2>2
<1>10. stack' # << >>
  BY <1>6, <1>8
<1>11. fs' = fs /\ desc' = desc /\ incoming' = incoming
  BY DEF OpenImport
<1> QED
  BY <1>8, <1>9, <1>10, <1>11 DEF IInv

LEMMA ReturnInv == IInv /\ Return => IInv'
<1> SUFFICES ASSUME IInv, Return
             PROVE  IInv'
  OBVIOUS
<1>1. Running /\ IsSeq(stack) /\ stack # << >>
  BY DEF IInv, Return, Between
<1>2. /\ IsSeq(Front(stack)) /\ Len(Front(stack)) = Len(stack) - 1
      /\ Len(stack) \in DOMAIN stack
      /\ DOMAIN Front(stack) \subseteq DOMAIN stack
      /\ \A n \in DOMAIN Front(stack) : Front(stack)[n] = stack[n]
  BY <1>1, FrontFacts
<1>3. stack' = Front(stack) /\ desc'.defs = Resolved(Top.defs)
  BY DEF Return
<1>4. Returned(desc'.defs)
  BY <1>2, <1>3, ResolvedReturned DEF IInv, Top
<1>5. \A n \in DOMAIN stack' : Listed(stack'[n].defs)
  BY <1>2, <1>3 DEF IInv
<1>6. Running' => stack' # << >>
  <2> SUFFICES ASSUME Running', stack' = << >>
               PROVE  FALSE
    OBVIOUS
  <2>1. Len(stack) = 1
    <3>1. Len(stack') = 0
      OBVIOUS
    <3>2. Len(stack) \in Nat
      BY <1>1, SeqFacts
    <3> QED
      BY <1>2, <1>3, <3>1, <3>2
  <2> QED
    BY <2>1 DEF Return, Running
<1>7. fs' = fs /\ incoming' = incoming
  BY DEF Return
<1> QED
  BY <1>2, <1>3, <1>4, <1>5, <1>6, <1>7 DEF IInv

LEMMA ReceiveInv == IInv /\ Receive => IInv'
<1> SUFFICES ASSUME IInv, Receive
             PROVE  IInv'
  OBVIOUS
<1>1. Arriving(incoming')
  BY ReceivedArriving DEF IInv, Receive
<1>2. Returned(desc'.defs)
  BY NothingReturned DEF Receive, NoDesc
<1>3. fs' = fs /\ stack' = stack /\ outcome' = outcome
  BY DEF Receive
<1> QED
  BY <1>1, <1>2, <1>3 DEF IInv, Running

LEMMA MergeNextInv == IInv /\ MergeNext => IInv'
<1> SUFFICES ASSUME IInv, MergeNext
             PROVE  IInv'
  OBVIOUS
<1> DEFINE d == Head(incoming)
           frame == Frame(stack[Len(stack)].file, Append(stack[Len(stack)].defs, d),
                          stack[Len(stack)].next)
<1>1. IsSeq(incoming) /\ incoming # << >> /\ HasItself(incoming) /\ HaveNoIndex(incoming)
  BY DEF IInv, MergeNext, Arriving
<1>2. /\ IsSeq(Tail(incoming))
      /\ 1 \in DOMAIN incoming /\ d = incoming[1]
      /\ \A i \in DOMAIN Tail(incoming) :
            i + 1 \in DOMAIN incoming /\ Tail(incoming)[i] = incoming[i + 1]
  BY <1>1, TailFacts
<1>3. 1 \in DOMAIN d.parts /\ HasNoIndex(d)
  BY <1>1, <1>2 DEF HasItself, HaveNoIndex
<1>4. Arriving(incoming')
  <2>1. incoming' = Tail(incoming)
    BY DEF MergeNext
  <2> QED
    BY <1>1, <1>2, <2>1 DEF Arriving, HasItself, HaveNoIndex
<1>5. fs' = fs /\ desc' = desc /\ outcome' = outcome /\ Running
  BY DEF MergeNext
<1>6. IsSeq(stack) /\ stack # << >> /\ Len(stack) \in DOMAIN stack
  BY <1>5, FrontFacts DEF IInv
<1>7. CASE IsMerged(d, Top.defs)
  BY <1>4, <1>5, <1>7 DEF IInv, Running, MergeNext
<1>8. CASE ~ IsMerged(d, Top.defs)
  <2>1. stack' = [stack EXCEPT ![Len(stack)] = frame]
    BY <1>8 DEF MergeNext
  <2>2. /\ IsSeq(stack') /\ DOMAIN stack' = DOMAIN stack
        /\ \A n \in DOMAIN stack : stack'[n] = IF n = Len(stack) THEN frame ELSE stack[n]
    BY <1>6, <2>1, ExceptFacts
  <2>3. Listed(frame.defs)
    <3>1. Listed(stack[Len(stack)].defs) /\ ~ IsMerged(d, stack[Len(stack)].defs)
      BY <1>6, <1>8 DEF IInv, Top
    <3>2. frame.defs = Append(stack[Len(stack)].defs, d)
      BY DEF Frame
    <3> QED
      BY <1>3, <3>1, <3>2, MergedListed
  <2>4. \A n \in DOMAIN stack' : Listed(stack'[n].defs)
    BY <2>2, <2>3 DEF IInv
  <2>5. stack' # << >>
    BY <1>6, <2>2
  <2> QED
    BY <1>4, <1>5, <2>2, <2>4, <2>5 DEF IInv
<1> QED
  BY <1>7, <1>8

\* An error changes nothing but the outcome.
LEMMA FailInv ==
    ASSUME IInv, Running, NEW error, Fail(error)
    PROVE  IInv'
BY DEF IInv, Fail, Running

LEMMA StepInv == IInv /\ [Next]_vars => IInv'
<1> SUFFICES ASSUME IInv, [Next]_vars
             PROVE  IInv'
  OBVIOUS
<1>1. CASE OpenImport
  BY <1>1, OpenImportInv
<1>2. CASE Unreadable
  BY <1>2, FailInv DEF Unreadable, Opened
<1>3. CASE ParsePanics
  BY <1>3, FailInv DEF ParsePanics, Opened
<1>4. CASE StackOverflow
  BY <1>4, FailInv DEF StackOverflow, Between
<1>5. CASE ImportMissing
  BY <1>5, FailInv DEF ImportMissing, Between
<1>6. CASE NameMissing
  BY <1>6, FailInv DEF NameMissing, Between
<1>7. CASE Refuse
  BY <1>7, FailInv DEF Refuse, Between
<1>8. CASE Return
  BY <1>8, ReturnInv
<1>9. CASE Receive
  BY <1>9, ReceiveInv
<1>10. CASE MergeNext
  BY <1>10, MergeNextInv
<1>11. CASE UNCHANGED vars
  BY <1>11 DEF IInv, vars, Running
<1> QED
  BY <1>1, <1>2, <1>3, <1>4, <1>5, <1>6, <1>7, <1>8, <1>9, <1>10, <1>11 DEF Next

\* The lists of all running calls, and what moves between them, stay in order.
THEOREM ListsInOrder == Spec => []IInv
<1>1. Init => IInv
  BY InitInv
<1>2. IInv /\ [Next]_vars => IInv'
  BY StepInv
<1> QED
  BY <1>1, <1>2, PTL DEF Spec

-----------------------------------------------------------------------------
\* However deep messages are nested and however many merges a definition goes through, no index
\* into one list is found in another, nor in what is moving between two (types.rs:554-609).
THEOREM NeverStale == Spec => []NoStaleIndex
<1>1. IInv => NoStaleIndex
  BY DEF IInv, NoStaleIndex, Listed, Arriving, HaveNoIndex
<1> QED
  BY <1>1, ListsInOrder, PTL

-----------------------------------------------------------------------------
(* What is proved of the resolver holds while its result is generated. *)

\* Reading and generating, seen without the generated code, is reading: the generator changes
\* nothing the resolver returned (tacky-build parser.rs:468-511).
THEOREM GeneratorReads == GSpec => Spec
<1>1. GInit => Init
  BY DEF GInit
<1>2. [GNext]_gvars => [Next]_vars
  BY DEF GNext, read_proto, write_proto_with_includes, gvars
<1> QED
  BY <1>1, <1>2, PTL DEF GSpec, Spec

\* No index is stale, for every set of files (types.rs:554-609).
THEOREM GeneratedNeverStale == GSpec => []NoStaleIndex
BY GeneratorReads, NeverStale, PTL

-----------------------------------------------------------------------------
(* Looking names up. *)

\* Of several places one is left and above of all others.
LEMMA LeastPlace ==
    ASSUME NEW places, places # {}, \A x \in places : x = <<x[1], x[2]>> /\ x[1] \in Nat /\ x[2] \in Nat
    PROVE  \E x \in places : \A y \in places : x[1] < y[1] \/ (x[1] = y[1] /\ x[2] <= y[2])
<1> DEFINE rows == {x[1] : x \in places}
<1>1. PICK m \in rows : \A k \in rows : m <= k
  <2>1. rows \subseteq Nat /\ rows # {}
    OBVIOUS
  <2> HIDE DEF rows
  <2> QED
    BY <2>1, LeastNat
<1> DEFINE row == {x \in places : x[1] = m}
           columns == {x[2] : x \in row}
<1>2. PICK n \in columns : \A k \in columns : n <= k
  <2>1. columns \subseteq Nat /\ columns # {}
    BY <1>1
  <2> HIDE DEF columns
  <2> QED
    BY <2>1, LeastNat
<1>3. PICK x \in places : x[1] = m /\ x[2] = n
  BY <1>2
<1>4. ASSUME NEW y \in places
      PROVE  x[1] < y[1] \/ (x[1] = y[1] /\ x[2] <= y[2])
  <2>1. y[1] \in rows /\ x[1] <= y[1]
    BY <1>1, <1>3
  <2>2. y[1] = x[1] => y[2] \in columns /\ x[2] <= y[2]
    BY <1>2, <1>3
  <2>3. x[1] \in Nat /\ y[1] \in Nat
    OBVIOUS
  <2> HIDE DEF rows, row, columns
  <2> QED
    BY <2>1, <2>2, <2>3
<1> HIDE DEF rows, row, columns
<1> QED
  BY <1>4

\* Of several places one is entered first: of those in messages, if there is any, the least.
LEMMA FirstIsThere ==
    ASSUME NEW defs, NEW places, places # {},
           \A x \in places : x = <<x[1], x[2]>> /\ x[1] \in Nat /\ x[2] \in Nat
    PROVE  First(defs, places) \in places
<1> DEFINE early == {x \in places : ~ IsTopEnum(defs, x)}
<1>1. \E x \in places : \A y \in places : Precedes(defs, x, y)
  <2>1. CASE early # {}
    <3>1. PICK x \in early : \A y \in early : x[1] < y[1] \/ (x[1] = y[1] /\ x[2] <= y[2])
      <4>1. \A x \in early : x = <<x[1], x[2]>> /\ x[1] \in Nat /\ x[2] \in Nat
        OBVIOUS
      <4> HIDE DEF early
      <4> QED
        BY <2>1, <4>1, LeastPlace
    <3>2. \A y \in places : IsTopEnum(defs, y) \/ y \in early
      OBVIOUS
    <3>3. x \in places /\ ~ IsTopEnum(defs, x) /\ \A y \in early : ~ IsTopEnum(defs, y)
      OBVIOUS
    <3> HIDE DEF early
    <3>4. \A y \in places : Precedes(defs, x, y)
      BY <3>1, <3>2, <3>3 DEF Precedes
    <3> QED
      BY <3>3, <3>4
  <2>2. CASE early = {}
    <3>1. \A y \in places : IsTopEnum(defs, y)
      BY <2>2
    <3>2. PICK x \in places : \A y \in places : x[1] < y[1] \/ (x[1] = y[1] /\ x[2] <= y[2])
      BY LeastPlace
    <3>3. \A y \in places : Precedes(defs, x, y)
      BY <3>1, <3>2 DEF Precedes
    <3> QED
      BY <3>3
  <2> QED
    BY <2>1, <2>2
<1> HIDE DEF early
<1> QED
  BY <1>1 DEF First

\* A list whose places are pairs of numbers.
Numbered(defs) ==
    /\ DOMAIN defs \subseteq Nat
    /\ \A i \in DOMAIN defs : DOMAIN defs[i].parts \subseteq Nat

LEMMA PlaceIs ==
    ASSUME NEW defs, NEW x
    PROVE  x \in Places(defs) <=>
               \E i \in DOMAIN defs : \E j \in DOMAIN defs[i].parts : x = <<i, j>>
BY DEF Places

LEMMA PlacesAre ==
    ASSUME NEW defs, Numbered(defs), NEW x \in Places(defs)
    PROVE  /\ x = <<x[1], x[2]>> /\ x[1] \in Nat /\ x[2] \in Nat
           /\ x[1] \in DOMAIN defs /\ x[2] \in DOMAIN defs[x[1]].parts
<1>1. PICK i \in DOMAIN defs : \E j \in DOMAIN defs[i].parts : x = <<i, j>>
  BY PlaceIs
<1>2. PICK j \in DOMAIN defs[i].parts : x = <<i, j>>
  BY <1>1
<1> QED
  BY <1>2 DEF Numbered

\* What a name is looked up to is an item of that name.
LEMMA LookedUp ==
    ASSUME NEW defs, Numbered(defs), NEW name, IsDefined(defs, name)
    PROVE  \E kind \in {"Message", "Enum"} : \E x \in Named(defs, kind, name) :
               /\ LookUp(defs, name) = Index(kind, x)
               /\ kind = "Message" <=> Named(defs, "Message", name) # {}
<1>1. ASSUME NEW kind, Named(defs, kind, name) # {}
      PROVE  First(defs, Named(defs, kind, name)) \in Named(defs, kind, name)
  <2>1. Named(defs, kind, name) \subseteq Places(defs)
    BY DEF Named
  <2> QED
    BY <1>1, <2>1, PlacesAre, FirstIsThere
<1>2. CASE Named(defs, "Message", name) # {}
  BY <1>1, <1>2 DEF LookUp
<1>3. CASE Named(defs, "Message", name) = {}
  <2>1. Named(defs, "Enum", name) # {}
    BY <1>3 DEF IsDefined
  <2> QED
    BY <1>1, <1>3, <2>1 DEF LookUp
<1> QED
  BY <1>2, <1>3

\* Of the names that are tried the first that names something is taken, if one does.
LEMMA HitIs ==
    ASSUME NEW defs, NEW names, DOMAIN names \subseteq Nat \ {0},
           \A k \in DOMAIN names : 1..k \subseteq DOMAIN names,
           \E h \in DOMAIN names : IsDefined(defs, names[h])
    PROVE  \E k \in DOMAIN names : IsHit(defs, names, k) /\ Hit(defs, names) = names[k]
<1> DEFINE T == {h \in DOMAIN names : IsDefined(defs, names[h])}
<1>1. PICK m \in T : \A k \in T : m <= k
  <2>1. T \subseteq Nat /\ T # {}
    OBVIOUS
  <2> HIDE DEF T
  <2> QED
    BY <2>1, LeastNat
<1>2. IsHit(defs, names, m)
  <2> SUFFICES ASSUME NEW h \in 1..(m - 1), IsDefined(defs, names[h])
               PROVE  FALSE
    BY DEF IsHit
  <2>1. m \in Nat /\ h \in 1..m /\ ~(m <= h)
    BY <1>1
  <2>2. h \in T
    BY <1>1, <2>1
  <2> QED
    BY <1>1, <2>1, <2>2
<1>3. \E k \in DOMAIN names : IsHit(defs, names, k)
  BY <1>1, <1>2
<1> DEFINE c == CHOOSE k \in DOMAIN names : IsHit(defs, names, k)
<1>4. c \in DOMAIN names /\ IsHit(defs, names, c)
  BY <1>3
<1> QED
  BY <1>4 DEF Hit

\* How many names are tried.
LEMMA NamesTried ==
    ASSUME NEW scope, IsSeq(scope), NEW typ
    PROVE  /\ DOMAIN test_names(scope, typ) \subseteq Nat \ {0}
           /\ \A k \in DOMAIN test_names(scope, typ) : 1..k \subseteq DOMAIN test_names(scope, typ)
<1>1. Len(scope) \in Nat
  BY SeqFacts
<1>2. CASE typ.abs
  BY <1>2 DEF test_names
<1>3. CASE ~typ.abs
  BY <1>1, <1>3 DEF test_names
<1> QED
  BY <1>2, <1>3

\* What a type in a list that resolves becomes.
LEMMA ResolvedTo ==
    ASSUME NEW defs, Numbered(defs), NEW scope, IsSeq(scope), NEW typ, IsNamed(typ),
           \E h \in DOMAIN test_names(scope, typ) : IsDefined(defs, test_names(scope, typ)[h])
    PROVE  \E k \in DOMAIN test_names(scope, typ) : \E kind \in {"Message", "Enum"} :
               \E x \in Named(defs, kind, test_names(scope, typ)[k]) :
                  /\ IsHit(defs, test_names(scope, typ), k)
                  /\ Resolve(defs, scope, typ) = Index(kind, x)
<1> DEFINE names == test_names(scope, typ)
<1>1. PICK k \in DOMAIN names : IsHit(defs, names, k) /\ Hit(defs, names) = names[k]
  <2>1. DOMAIN names \subseteq Nat \ {0} /\ \A k \in DOMAIN names : 1..k \subseteq DOMAIN names
    BY NamesTried
  <2> HIDE DEF names
  <2>2. \E h \in DOMAIN names : IsDefined(defs, names[h])
    BY DEF names
  <2> QED
    BY <2>1, <2>2, HitIs
<1> HIDE DEF names
<1>2. PICK kind \in {"Message", "Enum"} : \E x \in Named(defs, kind, names[k]) :
          LookUp(defs, names[k]) = Index(kind, x)
  <2>1. IsDefined(defs, names[k])
    BY <1>1 DEF IsHit
  <2> QED
    BY <2>1, LookedUp
<1>3. PICK x \in Named(defs, kind, names[k]) : LookUp(defs, names[k]) = Index(kind, x)
  BY <1>2
<1>4. Resolve(defs, scope, typ) = Index(kind, x)
  BY <1>1, <1>3 DEF Resolve, names
<1> QED
  BY <1>1, <1>3, <1>4 DEF names

-----------------------------------------------------------------------------
(* Where a definition comes from. *)

\* Two definitions that differ in the types and labels of fields only.
SamePart(p, q) ==
    /\ p.kind = q.kind /\ p.name = q.name /\ p.oneofs = q.oneofs /\ DOMAIN p.fields = DOMAIN q.fields
    /\ \A k \in DOMAIN p.fields : p.fields[k].map = q.fields[k].map

SameParts(d, e) ==
    /\ DOMAIN d.parts = DOMAIN e.parts
    /\ \A j \in DOMAIN d.parts : SamePart(d.parts[j], e.parts[j])

IsPath(p) == p = <<p[1], p[2]>> /\ p[1] \in DOMAIN fs /\ p[2] \in DOMAIN fs[p[1]].defs

\* The definition is the one of the file at its path, in its package or, where it had none, in
\* another.
Sourced(d) ==
    /\ IsPath(d.path)
    /\ IsSeq(d.package)
    /\ fs[d.path[1]].package = << >> \/ d.package = fs[d.path[1]].package
    /\ DOMAIN d.parts = DOMAIN PartsOf(d.path)
    /\ \A j \in DOMAIN d.parts : SamePart(d.parts[j], PartsOf(d.path)[j])

AllSourced(defs) == \A i \in DOMAIN defs : Sourced(defs[i])

LEMMA SourcedNumbered ==
    ASSUME fs \in Schemas, NEW defs, IsSeq(defs), AllSourced(defs)
    PROVE  /\ Numbered(defs)
           /\ \A i \in DOMAIN defs : \A j \in DOMAIN defs[i].parts :
                IsSeq(FullName(defs[i], j))
<1>1. DOMAIN defs \subseteq Nat
  BY SeqFacts
<1>2. ASSUME NEW i \in DOMAIN defs
      PROVE  /\ DOMAIN defs[i].parts \subseteq Nat
             /\ \A j \in DOMAIN defs[i].parts : IsSeq(FullName(defs[i], j))
  <2> DEFINE d == defs[i]
             f == d.path[1]
             n == d.path[2]
  <2>1. Sourced(d)
    BY DEF AllSourced
  <2>2. f \in DOMAIN fs /\ n \in DOMAIN fs[f].defs /\ IsSeq(d.package)
        /\ DOMAIN d.parts = DOMAIN fs[f].defs[n]
        /\ \A j \in DOMAIN d.parts : d.parts[j].name = fs[f].defs[n][j].name
    BY <2>1 DEF Sourced, IsPath, SamePart, PartsOf
  <2>3. Written(fs[f])
    BY <2>2, ResolverAssumption
  <2>4. IsSeq(fs[f].defs[n]) /\ \A j \in DOMAIN fs[f].defs[n] : IsSeq(fs[f].defs[n][j].name)
    BY <2>2, <2>3, WrittenFacts
  <2> HIDE DEF d, f, n
  <2>5. DOMAIN d.parts \subseteq Nat
    BY <2>2, <2>4, SeqFacts
  <2>6. ASSUME NEW j \in DOMAIN d.parts
        PROVE  IsSeq(FullName(d, j))
    <3>1. IsSeq(d.parts[j].name)
      BY <2>2, <2>4
    <3> QED
      BY <2>2, <3>1, ConcatFacts DEF FullName
  <2> QED
    BY <2>5, <2>6 DEF d
<1> QED
  BY <1>1, <1>2 DEF Numbered

\* What keeps a definition's parts, path and package keeps where it comes from.
LEMMA KeepsSource ==
    ASSUME NEW d, NEW e, Sourced(d), SameParts(e, d), e.path = d.path,
           e.package = d.package \/ (d.package = << >> /\ IsSeq(e.package))
    PROVE  Sourced(e)
<1>1. IsPath(e.path) /\ IsSeq(e.package)
  BY DEF Sourced
<1>2. fs[e.path[1]].package = << >> \/ e.package = fs[e.path[1]].package
  BY DEF Sourced
<1>3. DOMAIN e.parts = DOMAIN PartsOf(e.path)
  BY DEF Sourced, SameParts
<1>4. ASSUME NEW j \in DOMAIN e.parts
      PROVE  SamePart(e.parts[j], PartsOf(e.path)[j])
  <2>1. SamePart(e.parts[j], d.parts[j]) /\ SamePart(d.parts[j], PartsOf(d.path)[j])
    BY DEF Sourced, SameParts
  <2> QED
    BY <2>1 DEF SamePart
<1> QED
  BY <1>1, <1>2, <1>3, <1>4 DEF Sourced

\* A definition with other fields.
LEMMA WithFieldsFacts ==
    ASSUME NEW d, NEW fields
    PROVE  /\ WithFields(d, fields).path = d.path
           /\ WithFields(d, fields).package = d.package
           /\ WithFields(d, fields).imported = d.imported
           /\ DOMAIN WithFields(d, fields).parts = DOMAIN d.parts
           /\ \A j \in DOMAIN d.parts :
                /\ WithFields(d, fields).parts[j].kind = d.parts[j].kind
                /\ WithFields(d, fields).parts[j].name = d.parts[j].name
                /\ WithFields(d, fields).parts[j].oneofs = d.parts[j].oneofs
                /\ WithFields(d, fields).parts[j].fields = fields[j]
<1> DEFINE part(j) == [kind |-> d.parts[j].kind, name |-> d.parts[j].name,
                       oneofs |-> d.parts[j].oneofs, reserved |-> d.parts[j].reserved, fields |-> fields[j]]
<1>1. WithFields(d, fields) = [package |-> d.package, path |-> d.path, imported |-> d.imported,
                               parts |-> [j \in DOMAIN d.parts |-> part(j)]]
  BY DEF WithFields
<1>2. \A j : part(j).kind = d.parts[j].kind /\ part(j).name = d.parts[j].name
             /\ part(j).oneofs = d.parts[j].oneofs /\ part(j).fields = fields[j]
  OBVIOUS
<1> HIDE DEF part
<1>3. /\ WithFields(d, fields).path = d.path
      /\ WithFields(d, fields).package = d.package
      /\ WithFields(d, fields).imported = d.imported
      /\ WithFields(d, fields).parts = [j \in DOMAIN d.parts |-> part(j)]
  BY <1>1
<1> QED
  BY <1>2, <1>3

\* A field as parsed.
LEMMA FieldFacts ==
    ASSUME NEW file, NEW decl
    PROVE  /\ Field(file, decl).map = decl.map
           /\ Field(file, decl).typ = decl.typ
BY DEF Field

\* A file's own definitions are its own.
LEMMA OwnFacts ==
    ASSUME fs \in Schemas, NEW f \in DOMAIN fs
    PROVE  /\ DOMAIN OwnDefs(f) = DOMAIN fs[f].defs
           /\ \A i \in DOMAIN OwnDefs(f) :
                /\ Sourced(OwnDefs(f)[i])
                /\ OwnDefs(f)[i].path = <<f, i>>
                /\ OwnDefs(f)[i].package = fs[f].package
                /\ OwnDefs(f)[i].imported = FALSE
                /\ \A j \in DOMAIN OwnDefs(f)[i].parts :
                    \A k \in DOMAIN OwnDefs(f)[i].parts[j].fields :
                        OwnDefs(f)[i].parts[j].fields[k] = Field(fs[f], fs[f].defs[i][j].fields[k])
<1> DEFINE defs == fs[f].defs
           own == OwnDefs(f)
<1>1. DOMAIN own = DOMAIN defs
  BY DEF OwnDefs
<1>2. \A i \in DOMAIN defs :
          /\ own[i].path = <<f, i>> /\ own[i].package = fs[f].package /\ own[i].imported = FALSE
          /\ own[i].parts = [j \in DOMAIN defs[i] |-> message(fs[f], defs[i][j])]
  BY DEF OwnDefs
<1> HIDE DEF own
<1>3. ASSUME NEW i \in DOMAIN defs, NEW j \in DOMAIN defs[i]
      PROVE  /\ own[i].parts[j].kind = defs[i][j].kind /\ own[i].parts[j].name = defs[i][j].name
             /\ own[i].parts[j].oneofs = defs[i][j].oneofs
             /\ own[i].parts[j].fields =
                    [h \in DOMAIN defs[i][j].fields |-> Field(fs[f], defs[i][j].fields[h])]
  <2>1. own[i].parts[j] = message(fs[f], defs[i][j])
    BY <1>2
  <2> QED
    BY <2>1 DEF message
<1>4. ASSUME NEW i \in DOMAIN defs, NEW j \in DOMAIN defs[i]
      PROVE  SamePart(own[i].parts[j], defs[i][j])
  <2>1. ASSUME NEW k \in DOMAIN defs[i][j].fields
        PROVE  own[i].parts[j].fields[k].map = defs[i][j].fields[k].map
    <3>1. own[i].parts[j].fields[k] = Field(fs[f], defs[i][j].fields[k])
      BY <1>3
    <3> QED
      BY <3>1, FieldFacts
  <2> QED
    BY <1>3, <2>1 DEF SamePart
<1>5. IsSeq(fs[f].package)
  BY ResolverAssumption, WrittenFacts
<1>6. ASSUME NEW i \in DOMAIN defs
      PROVE  Sourced(own[i])
  <2>1. own[i].path = <<f, i>> /\ PartsOf(own[i].path) = defs[i]
    <3>1. own[i].path = <<f, i>>
      BY <1>2
    <3>2. own[i].path[1] = f /\ own[i].path[2] = i
      BY <3>1
    <3> QED
      BY <3>1, <3>2 DEF PartsOf
  <2>2. DOMAIN own[i].parts = DOMAIN defs[i]
    BY <1>2
  <2>3. IsPath(own[i].path)
    BY <2>1 DEF IsPath
  <2>4. own[i].package = fs[own[i].path[1]].package
    <3>1. own[i].package = fs[f].package
      BY <1>2
    <3>2. own[i].path[1] = f
      BY <2>1
    <3> QED
      BY <3>1, <3>2
  <2>5. \A j \in DOMAIN own[i].parts : SamePart(own[i].parts[j], PartsOf(own[i].path)[j])
    BY <1>4, <2>1, <2>2
  <2> QED
    BY <1>2, <1>5, <2>1, <2>2, <2>3, <2>4, <2>5 DEF Sourced
<1>7. ASSUME NEW i \in DOMAIN own, NEW j \in DOMAIN own[i].parts, NEW k \in DOMAIN own[i].parts[j].fields
      PROVE  own[i].parts[j].fields[k] = Field(fs[f], defs[i][j].fields[k])
  <2>1. i \in DOMAIN defs /\ j \in DOMAIN defs[i]
    BY <1>1, <1>2
  <2>2. own[i].parts[j].fields =
            [h \in DOMAIN defs[i][j].fields |-> Field(fs[f], defs[i][j].fields[h])]
    BY <1>3, <2>1
  <2> QED
    BY <2>2
<1> QED
  BY <1>1, <1>2, <1>6, <1>7 DEF own

\* The pass that resolves, part by part.
LEMMA ResolvedFacts ==
    ASSUME NEW defs
    PROVE  /\ DOMAIN Resolved(defs) = DOMAIN defs
           /\ \A i \in DOMAIN defs :
                /\ SameParts(Resolved(defs)[i], defs[i])
                /\ Resolved(defs)[i].path = defs[i].path
                /\ Resolved(defs)[i].package = defs[i].package
                /\ Resolved(defs)[i].imported = defs[i].imported
                /\ \A j \in DOMAIN defs[i].parts : \A k \in DOMAIN defs[i].parts[j].fields :
                     Resolved(defs)[i].parts[j].fields[k] =
                         resolve_field(defs, FullName(defs[i], j), defs[i].parts[j].fields[k])
<1> DEFINE new == Resolved(defs)
           fields(i) == [j \in DOMAIN defs[i].parts |->
                           [k \in DOMAIN defs[i].parts[j].fields |->
                              resolve_field(defs, FullName(defs[i], j), defs[i].parts[j].fields[k])]]
<1>1. DOMAIN new = DOMAIN defs /\ \A i \in DOMAIN defs : new[i] = WithFields(defs[i], fields(i))
  BY DEF Resolved
<1> HIDE DEF new
<1>2. ASSUME NEW i \in DOMAIN defs
      PROVE  /\ new[i].path = defs[i].path /\ new[i].package = defs[i].package
             /\ new[i].imported = defs[i].imported
             /\ DOMAIN new[i].parts = DOMAIN defs[i].parts
             /\ \A j \in DOMAIN defs[i].parts :
                   /\ new[i].parts[j].kind = defs[i].parts[j].kind
                   /\ new[i].parts[j].name = defs[i].parts[j].name
                   /\ new[i].parts[j].oneofs = defs[i].parts[j].oneofs
                   /\ new[i].parts[j].fields = fields(i)[j]
  <2>1. new[i] = WithFields(defs[i], fields(i))
    BY <1>1
  <2> HIDE DEF fields
  <2> QED
    BY <2>1, WithFieldsFacts
<1>3. ASSUME NEW i \in DOMAIN defs, NEW j \in DOMAIN defs[i].parts
      PROVE  /\ DOMAIN new[i].parts[j].fields = DOMAIN defs[i].parts[j].fields
             /\ \A k \in DOMAIN defs[i].parts[j].fields :
                   new[i].parts[j].fields[k] =
                       resolve_field(defs, FullName(defs[i], j), defs[i].parts[j].fields[k])
  <2>1. new[i].parts[j].fields = fields(i)[j]
    BY <1>2
  <2>2. fields(i)[j] = [k \in DOMAIN defs[i].parts[j].fields |->
                              resolve_field(defs, FullName(defs[i], j), defs[i].parts[j].fields[k])]
    OBVIOUS
  <2> HIDE DEF fields
  <2> QED
    BY <2>1, <2>2
<1> HIDE DEF fields
<1>4. ASSUME NEW scope, NEW f
      PROVE  resolve_field(defs, scope, f).map = f.map
  BY DEF resolve_field, WithType
<1>5. ASSUME NEW i \in DOMAIN defs, NEW j \in DOMAIN defs[i].parts
      PROVE  SamePart(new[i].parts[j], defs[i].parts[j])
  BY <1>2, <1>3, <1>4 DEF SamePart
<1> QED
  BY <1>1, <1>2, <1>3, <1>5 DEF new, SameParts

\* What the caller makes of a definition it receives, part by part.
ReceivedAs(new, defs, d, package) ==
    /\ SameParts(new, d)
    /\ new.path = d.path
    /\ new.package = (IF d.package = << >> THEN package ELSE d.package)
    /\ new.imported = TRUE
    /\ \A j \in DOMAIN d.parts : \A k \in DOMAIN d.parts[j].fields :
          new.parts[j].fields[k] = WithType(d.parts[j].fields[k], AsName(defs, d.parts[j].fields[k].typ))

LEMMA ReceivedFacts ==
    ASSUME NEW defs, NEW package, NEW i \in DOMAIN defs
    PROVE  ReceivedAs(Adopted(Unresolved(defs)[i], package), defs, defs[i], package)
<1> DEFINE new == Adopted(Unresolved(defs)[i], package)
<1> DEFINE fields == [j \in DOMAIN defs[i].parts |->
                        [k \in DOMAIN defs[i].parts[j].fields |->
                            WithType(defs[i].parts[j].fields[k],
                                     AsName(defs, defs[i].parts[j].fields[k].typ))]]
<1>1. Unresolved(defs)[i] = WithFields(defs[i], fields)
  BY DEF Unresolved
<1>2. /\ new.path = defs[i].path
      /\ new.package = (IF defs[i].package = << >> THEN package ELSE defs[i].package)
      /\ new.imported = TRUE
      /\ new.parts = WithFields(defs[i], fields).parts
  BY <1>1 DEF Adopted, WithFields
<1> HIDE DEF new
<1>3. /\ DOMAIN new.parts = DOMAIN defs[i].parts
      /\ \A j \in DOMAIN defs[i].parts :
            /\ new.parts[j].kind = defs[i].parts[j].kind
            /\ new.parts[j].name = defs[i].parts[j].name
            /\ new.parts[j].oneofs = defs[i].parts[j].oneofs
            /\ new.parts[j].fields = fields[j]
  <2> HIDE DEF fields
  <2> QED
    BY <1>2, WithFieldsFacts
<1>4. ASSUME NEW j \in DOMAIN defs[i].parts
      PROVE  /\ DOMAIN new.parts[j].fields = DOMAIN defs[i].parts[j].fields
             /\ \A k \in DOMAIN defs[i].parts[j].fields :
                   new.parts[j].fields[k] = WithType(defs[i].parts[j].fields[k],
                                                     AsName(defs, defs[i].parts[j].fields[k].typ))
  BY <1>3, ZenonT(40)
<1> HIDE DEF fields
<1>5. ASSUME NEW f, NEW typ
      PROVE  WithType(f, typ).map = f.map
  BY DEF WithType
<1>6. ASSUME NEW j \in DOMAIN defs[i].parts
      PROVE  SamePart(new.parts[j], defs[i].parts[j])
  BY <1>3, <1>4, <1>5 DEF SamePart
<1> QED
  BY <1>2, <1>3, <1>4, <1>6 DEF SameParts, ReceivedAs, new

-----------------------------------------------------------------------------
(* What the steps do to the stack. *)

\* The calls below the innermost one.
Below == 1..(Len(stack) - 1)

\* While a call runs there is an innermost one.
LEMMA TopThere ==
    ASSUME IInv, Running
    PROVE  /\ IsSeq(stack) /\ Len(stack) \in Nat \ {0} /\ DOMAIN stack = 1..Len(stack)
           /\ Len(stack) \in DOMAIN stack /\ Below \subseteq DOMAIN stack
           /\ \A n \in DOMAIN stack : n \in Below \/ n = Len(stack)
           /\ Top = stack[Len(stack)]
<1>1. IsSeq(stack) /\ stack # << >>
  BY DEF IInv
<1>2. Len(stack) \in DOMAIN stack
  BY <1>1, FrontFacts
<1>3. Len(stack) \in Nat /\ DOMAIN stack = 1..Len(stack)
  BY <1>1, SeqFacts
<1> QED
  BY <1>1, <1>2, <1>3 DEF Below, Top

\* The file an import is looked for in.
Matches(f, import) ==
    {Candidate(f, import_search_path[i], import) :
        i \in {i \in DOMAIN import_search_path : IsMatch(f, i, import)}}

LEMMA OpenImportDoes ==
    ASSUME IInv, OpenImport
    PROVE  /\ Running /\ incoming = << >> /\ desc = NoDesc /\ MoreImports
           /\ UNCHANGED <<fs, incoming, desc, outcome>>
           /\ \E g \in Matches(Top.file, Import) :
                /\ g \in DOMAIN fs
                /\ IsSeq(stack') /\ Len(stack') = Len(stack) + 1
                /\ DOMAIN stack' = 1..(Len(stack) + 1)
                /\ \A n \in Below : stack'[n] = stack[n]
                /\ stack'[Len(stack)] = Frame(Top.file, Top.defs, Top.next + 1)
                /\ stack'[Len(stack) + 1] = Call(g)
<1>1. Running /\ incoming = << >> /\ desc = NoDesc /\ MoreImports
  BY DEF OpenImport, Between
<1>2. UNCHANGED <<fs, incoming, desc, outcome>>
  BY DEF OpenImport
<1> DEFINE f(i) == Candidate(Top.file, import_search_path[i], Import)
           frame == Frame(stack[Len(stack)].file, stack[Len(stack)].defs, stack[Len(stack)].next + 1)
           moved == [stack EXCEPT ![Len(stack)] = frame]
<1>3. PICK i \in DOMAIN import_search_path :
          IsMatch(Top.file, i, Import) /\ stack' = Append(moved, Call(f(i)))
  BY DEF OpenImport
<1>4. f(i) \in DOMAIN fs /\ f(i) \in Matches(Top.file, Import)
  BY <1>3 DEF IsMatch, Exists, Matches
<1>5. /\ IsSeq(stack) /\ Len(stack) \in Nat \ {0} /\ DOMAIN stack = 1..Len(stack)
      /\ Len(stack) \in DOMAIN stack /\ Below \subseteq DOMAIN stack
      /\ Top = stack[Len(stack)]
  BY <1>1, TopThere
<1>6. /\ IsSeq(moved) /\ Len(moved) = Len(stack)
      /\ \A n \in DOMAIN stack : moved[n] = IF n = Len(stack) THEN frame ELSE stack[n]
  <2> HIDE DEF frame
  <2>1. IsSeq(stack) /\ Len(stack) \in DOMAIN stack
    BY <1>5
  <2> QED
    BY <2>1, ExceptFacts
<1>7. frame = Frame(Top.file, Top.defs, Top.next + 1)
  BY <1>5
<1> DEFINE g == f(i)
           call == Call(g)
<1>8. stack' = Append(moved, call)
  BY <1>3
<1>9. g \in DOMAIN fs /\ g \in Matches(Top.file, Import) /\ call = Call(g)
  BY <1>4
<1> HIDE DEF moved, frame, f, g, call
<1>10. /\ IsSeq(stack') /\ Len(stack') = Len(stack) + 1
       /\ DOMAIN stack' = 1..(Len(stack) + 1)
       /\ \A n \in 1..Len(stack) : stack'[n] = moved[n]
       /\ stack'[Len(stack) + 1] = call
  BY <1>6, <1>8, AppendFacts
<1>11. \A n \in Below : stack'[n] = stack[n]
  BY <1>5, <1>6, <1>10 DEF Below
<1>12. stack'[Len(stack)] = frame
  BY <1>5, <1>6, <1>10
<1> QED
  BY <1>1, <1>2, <1>7, <1>9, <1>10, <1>11, <1>12

LEMMA ReturnDoes ==
    ASSUME IInv, Return
    PROVE  /\ Running /\ incoming = << >> /\ desc = NoDesc /\ ~MoreImports /\ ~Unresolvable(Top.defs)
           /\ UNCHANGED <<fs, incoming>>
           /\ desc' = [defs |-> Resolved(Top.defs), file |-> Top.file]
           /\ IsSeq(stack') /\ Len(stack') = Len(stack) - 1
           /\ DOMAIN stack' = Below
           /\ \A n \in Below : stack'[n] = stack[n]
           /\ outcome' = IF Len(stack) = 1 THEN "ok" ELSE outcome
<1>1. /\ Running /\ incoming = << >> /\ desc = NoDesc /\ ~MoreImports /\ ~Unresolvable(Top.defs)
      /\ UNCHANGED <<fs, incoming>>
      /\ desc' = [defs |-> Resolved(Top.defs), file |-> Top.file]
      /\ outcome' = IF Len(stack) = 1 THEN "ok" ELSE outcome
      /\ stack' = Front(stack)
  BY DEF Return, Between
<1>2. IsSeq(stack) /\ stack # << >>
  BY <1>1 DEF IInv
<1>3. /\ IsSeq(stack') /\ Len(stack') = Len(stack) - 1
      /\ \A n \in DOMAIN stack' : stack'[n] = stack[n]
  BY <1>1, <1>2, FrontFacts
<1>4. DOMAIN stack' = Below
  BY <1>3, SeqFacts DEF Below
<1> QED
  BY <1>1, <1>3, <1>4

LEMMA MergeNextDoes ==
    ASSUME IInv, MergeNext
    PROVE  /\ Running /\ incoming # << >>
           /\ UNCHANGED <<fs, desc, outcome>>
           /\ IsSeq(stack') /\ DOMAIN stack' = DOMAIN stack /\ Len(stack') = Len(stack)
           /\ \A n \in Below : stack'[n] = stack[n]
           /\ stack'[Len(stack)].file = Top.file /\ stack'[Len(stack)].next = Top.next
           /\ stack'[Len(stack)].defs =
                IF IsMerged(incoming[1], Top.defs) THEN Top.defs ELSE Append(Top.defs, incoming[1])
           /\ 1 \in DOMAIN incoming
           /\ IsSeq(incoming') /\ incoming' = Tail(incoming)
           /\ \A i \in DOMAIN incoming' : i + 1 \in DOMAIN incoming /\ incoming'[i] = incoming[i + 1]
           /\ \A i \in DOMAIN incoming : i = 1 \/ (i - 1 \in DOMAIN incoming')
<1> DEFINE d == Head(incoming)
           frame == Frame(stack[Len(stack)].file, Append(stack[Len(stack)].defs, d),
                          stack[Len(stack)].next)
<1>1. /\ Running /\ incoming # << >> /\ UNCHANGED <<fs, desc, outcome>>
      /\ incoming' = Tail(incoming)
      /\ stack' = IF IsMerged(d, Top.defs) THEN stack ELSE [stack EXCEPT ![Len(stack)] = frame]
  BY DEF MergeNext
<1>2. IsSeq(incoming)
  BY DEF IInv, Arriving
<1>3. /\ IsSeq(incoming')
      /\ 1 \in DOMAIN incoming /\ d = incoming[1]
      /\ \A i \in DOMAIN incoming' : i + 1 \in DOMAIN incoming /\ incoming'[i] = incoming[i + 1]
      /\ Len(incoming') = Len(incoming) - 1
  BY <1>1, <1>2, TailFacts
<1>4. \A i \in DOMAIN incoming : i = 1 \/ (i - 1 \in DOMAIN incoming')
  <2>1. DOMAIN incoming = 1..Len(incoming) /\ DOMAIN incoming' = 1..Len(incoming')
        /\ Len(incoming) \in Nat /\ Len(incoming') \in Nat
    BY <1>2, <1>3, SeqFacts
  <2> QED
    BY <1>3, <2>1
<1>5. /\ IsSeq(stack) /\ Len(stack) \in Nat \ {0} /\ DOMAIN stack = 1..Len(stack)
      /\ Len(stack) \in DOMAIN stack /\ Below \subseteq DOMAIN stack
      /\ Top = stack[Len(stack)] /\ Len(stack) \notin Below
  BY <1>1, TopThere DEF Below
<1> HIDE DEF d
<1>6. CASE IsMerged(d, Top.defs)
  BY <1>1, <1>3, <1>4, <1>5, <1>6
<1>7. CASE ~IsMerged(d, Top.defs)
  <2>1. stack' = [stack EXCEPT ![Len(stack)] = frame]
    BY <1>1, <1>7
  <2>2. frame.file = Top.file /\ frame.next = Top.next /\ frame.defs = Append(Top.defs, d)
    BY <1>5 DEF Frame
  <2> HIDE DEF frame
  <2>3. /\ IsSeq(stack') /\ DOMAIN stack' = DOMAIN stack /\ Len(stack') = Len(stack)
        /\ \A n \in DOMAIN stack : stack'[n] = IF n = Len(stack) THEN frame ELSE stack[n]
    BY <1>5, <2>1, ExceptFacts
  <2>4. stack'[Len(stack)] = frame /\ \A n \in Below : stack'[n] = stack[n]
    BY <1>5, <2>3
  <2> QED
    BY <1>1, <1>3, <1>4, <1>7, <2>2, <2>3, <2>4
<1> QED
  BY <1>6, <1>7

LEMMA ReceiveDoes ==
    ASSUME IInv, Receive
    PROVE  /\ Running /\ desc # NoDesc
           /\ UNCHANGED <<fs, stack, outcome>>
           /\ desc' = NoDesc
           /\ IsSeq(incoming') /\ DOMAIN incoming' = DOMAIN desc.defs
           /\ \A i \in DOMAIN desc.defs :
                incoming'[i] = Adopted(Unresolved(desc.defs)[i], fs[desc.file].package)
<1>1. /\ Running /\ desc # NoDesc /\ UNCHANGED <<fs, stack, outcome>> /\ desc' = NoDesc
      /\ incoming' = [i \in DOMAIN desc.defs |->
                         Adopted(Unresolved(desc.defs)[i], fs[desc.file].package)]
  BY DEF Receive
<1>2. Arriving(incoming')
  BY <1>1, ReceivedArriving DEF IInv
<1> QED
  BY <1>1, <1>2 DEF Arriving

-----------------------------------------------------------------------------
(* Where definitions come from, and where indices lead. *)

IsItem(defs, kind, at) == at \in Places(defs) /\ defs[at[1]].parts[at[2]].kind = kind

\* An index leads to an item of its list, of its kind.
Pointing(defs) ==
    \A i \in DOMAIN defs : \A j \in DOMAIN defs[i].parts : \A k \in DOMAIN defs[i].parts[j].fields :
        LET typ == defs[i].parts[j].fields[k].typ
        IN  IsIndexed(typ) => IsItem(defs, typ.tag, typ.at)

\* What a type of the list is resolved to is an item of the list.
LEMMA ResolvedItem ==
    ASSUME NEW defs, Numbered(defs), NEW scope, IsSeq(scope), NEW typ, ~IsIndexed(typ),
           IsNamed(typ) => \E h \in DOMAIN test_names(scope, typ) :
                              IsDefined(defs, test_names(scope, typ)[h])
    PROVE  IsIndexed(Resolve(defs, scope, typ)) =>
               IsItem(defs, Resolve(defs, scope, typ).tag, Resolve(defs, scope, typ).at)
<1>1. CASE IsNamed(typ)
  <2>1. PICK k \in DOMAIN test_names(scope, typ) : \E kind \in {"Message", "Enum"} :
            \E x \in Named(defs, kind, test_names(scope, typ)[k]) :
                Resolve(defs, scope, typ) = Index(kind, x)
    BY <1>1, ResolvedTo
  <2>2. PICK kind \in {"Message", "Enum"} : \E x \in Named(defs, kind, test_names(scope, typ)[k]) :
                Resolve(defs, scope, typ) = Index(kind, x)
    BY <2>1
  <2>3. PICK x \in Named(defs, kind, test_names(scope, typ)[k]) : Resolve(defs, scope, typ) = Index(kind, x)
    BY <2>2
  <2>4. Index(kind, x).tag = kind /\ Index(kind, x).at = x
    BY DEF Index
  <2> QED
    BY <2>3, <2>4 DEF Named, IsItem
<1>2. CASE ~IsNamed(typ)
  BY <1>2 DEF Resolve
<1> QED
  BY <1>1, <1>2

LEMMA ResolvedField ==
    ASSUME NEW defs, NEW scope, NEW f
    PROVE  /\ resolve_field(defs, scope, f).typ = Resolve(defs, scope, f.typ)
           /\ resolve_field(defs, scope, f).map = f.map
           /\ resolve_field(defs, scope, f).frequency =
                 Downgraded(f.frequency, WithType(f, Resolve(defs, scope, f.typ)))
BY DEF resolve_field, WithType

\* Every type of a list that is resolved finds something.
LEMMA AllFound ==
    ASSUME NEW defs, ~Unresolvable(defs),
           NEW i \in DOMAIN defs, NEW j \in DOMAIN defs[i].parts,
           NEW k \in DOMAIN defs[i].parts[j].fields,
           IsNamed(defs[i].parts[j].fields[k].typ)
    PROVE  \E h \in DOMAIN test_names(FullName(defs[i], j), defs[i].parts[j].fields[k].typ) :
               IsDefined(defs, test_names(FullName(defs[i], j), defs[i].parts[j].fields[k].typ)[h])
<1> DEFINE x == <<i, j>>
<1>1. x \in Places(defs) /\ x[1] = i /\ x[2] = j
  BY PlaceIs
<1> HIDE DEF x
<1>2. k \in DOMAIN defs[x[1]].parts[x[2]].fields
  BY <1>1
<1>3. ~ \A h \in DOMAIN test_names(FullName(defs[x[1]], x[2]), defs[x[1]].parts[x[2]].fields[k].typ) :
            ~ IsDefined(defs, test_names(FullName(defs[x[1]], x[2]), defs[x[1]].parts[x[2]].fields[k].typ)[h])
  BY <1>1, <1>2 DEF Unresolvable
<1> QED
  BY <1>1, <1>3

LEMMA ResolvedPointing ==
    ASSUME fs \in Schemas, NEW defs, IsSeq(defs), AllSourced(defs), HaveNoIndex(defs), ~Unresolvable(defs)
    PROVE  Pointing(Resolved(defs))
<1> DEFINE new == Resolved(defs)
<1>1. /\ Numbered(defs)
      /\ \A i \in DOMAIN defs : \A j \in DOMAIN defs[i].parts : IsSeq(FullName(defs[i], j))
  BY SourcedNumbered
<1>2. /\ DOMAIN new = DOMAIN defs
      /\ \A i \in DOMAIN defs : SameParts(new[i], defs[i])
      /\ \A i \in DOMAIN defs : \A j \in DOMAIN defs[i].parts : \A k \in DOMAIN defs[i].parts[j].fields :
            new[i].parts[j].fields[k] =
                resolve_field(defs, FullName(defs[i], j), defs[i].parts[j].fields[k])
  BY ResolvedFacts
<1> HIDE DEF new
<1>3. ASSUME NEW kind, NEW at, IsItem(defs, kind, at)
      PROVE  IsItem(new, kind, at)
  <2>1. PICK i \in DOMAIN defs : \E j \in DOMAIN defs[i].parts : at = <<i, j>>
    BY <1>3, PlaceIs DEF IsItem
  <2>2. PICK j \in DOMAIN defs[i].parts : at = <<i, j>>
    BY <2>1
  <2>3. i \in DOMAIN new /\ j \in DOMAIN new[i].parts /\ new[i].parts[j].kind = defs[i].parts[j].kind
    BY <1>2 DEF SameParts, SamePart
  <2>4. at \in Places(new)
    BY <2>2, <2>3, PlaceIs
  <2>5. defs[i].parts[j].kind = kind
    BY <1>3, <2>2 DEF IsItem
  <2> QED
    BY <2>2, <2>3, <2>4, <2>5 DEF IsItem
<1>4. ASSUME NEW i \in DOMAIN new, NEW j \in DOMAIN new[i].parts, NEW k \in DOMAIN new[i].parts[j].fields,
             IsIndexed(new[i].parts[j].fields[k].typ)
      PROVE  IsItem(new, new[i].parts[j].fields[k].typ.tag, new[i].parts[j].fields[k].typ.at)
  <2>1. i \in DOMAIN defs /\ j \in DOMAIN defs[i].parts /\ k \in DOMAIN defs[i].parts[j].fields
    BY <1>2 DEF SameParts, SamePart
  <2> DEFINE scope == FullName(defs[i], j)
             typ == defs[i].parts[j].fields[k].typ
  <2>2. new[i].parts[j].fields[k].typ = Resolve(defs, scope, typ)
    BY <1>2, <2>1, ResolvedField
  <2>3. ~IsIndexed(typ)
    BY <2>1 DEF HaveNoIndex, HasNoIndex
  <2>4. IsNamed(typ) => \E h \in DOMAIN test_names(scope, typ) : IsDefined(defs, test_names(scope, typ)[h])
    BY <2>1, AllFound
  <2>5. IsSeq(scope)
    BY <1>1, <2>1
  <2> HIDE DEF scope, typ
  <2>6. IsItem(defs, Resolve(defs, scope, typ).tag, Resolve(defs, scope, typ).at)
    BY <1>1, <1>4, <2>2, <2>3, <2>4, <2>5, ResolvedItem
  <2> QED
    BY <1>3, <2>2, <2>6
<1> QED
  BY <1>4 DEF Pointing, new

\* Every definition is one of a file's, every index of what returned leads somewhere.
SourceInv ==
    /\ \A n \in DOMAIN stack : stack[n].file \in DOMAIN fs /\ AllSourced(stack[n].defs)
    /\ AllSourced(incoming) /\ AllSourced(desc.defs) /\ Pointing(desc.defs)
    /\ desc # NoDesc => desc.file \in DOMAIN fs

LEMMA SameSource ==
    ASSUME fs' = fs
    PROVE  \A defs : AllSourced(defs)' <=> AllSourced(defs)
BY DEF AllSourced, Sourced, IsPath, PartsOf

LEMMA NothingSourced == AllSourced(<< >>) /\ Pointing(<< >>)
BY DEF AllSourced, Pointing

LEMMA OwnSourced ==
    ASSUME fs \in Schemas, NEW f \in DOMAIN fs
    PROVE  Call(f).file = f /\ Call(f).defs = OwnDefs(f) /\ Call(f).next = 1 /\ AllSourced(OwnDefs(f))
<1>1. AllSourced(OwnDefs(f))
  BY OwnFacts DEF AllSourced
<1> QED
  BY <1>1 DEF Call, Frame

LEMMA FrameFacts ==
    ASSUME NEW f, NEW defs, NEW n
    PROVE  Frame(f, defs, n).file = f /\ Frame(f, defs, n).defs = defs /\ Frame(f, defs, n).next = n
BY DEF Frame

LEMMA SourceInit == Init => SourceInv
<1> SUFFICES ASSUME Init
             PROVE  SourceInv
  OBVIOUS
<1>1. fs \in Schemas /\ Root \in DOMAIN fs
  BY ResolverAssumption DEF Init
<1>2. stack = <<Call(Root)>> /\ desc = NoDesc /\ desc.defs = << >> /\ incoming = << >>
  BY DEF Init, NoDesc
<1>3. DOMAIN stack = {1} /\ stack[1] = Call(Root)
  BY <1>2
<1> QED
  BY <1>1, <1>2, <1>3, OwnSourced, NothingSourced DEF SourceInv

LEMMA SourceOpen ==
    ASSUME IInv, SourceInv, OpenImport
    PROVE  SourceInv'
<1>1. /\ Running /\ UNCHANGED <<fs, incoming, desc, outcome>>
  BY OpenImportDoes
<1>2. PICK g \in Matches(Top.file, Import) :
        /\ g \in DOMAIN fs
        /\ IsSeq(stack') /\ Len(stack') = Len(stack) + 1
        /\ DOMAIN stack' = 1..(Len(stack) + 1)
        /\ \A n \in Below : stack'[n] = stack[n]
        /\ stack'[Len(stack)] = Frame(Top.file, Top.defs, Top.next + 1)
        /\ stack'[Len(stack) + 1] = Call(g)
  BY OpenImportDoes
<1>3. /\ Len(stack) \in Nat \ {0} /\ Len(stack) \in DOMAIN stack /\ Below \subseteq DOMAIN stack
      /\ Top = stack[Len(stack)]
  BY <1>1, TopThere
<1>4. AllSourced(OwnDefs(g)) /\ Call(g).file = g /\ Call(g).defs = OwnDefs(g)
  BY <1>2, OwnSourced DEF IInv
<1>5. ASSUME NEW n \in DOMAIN stack'
      PROVE  stack'[n].file \in DOMAIN fs /\ AllSourced(stack'[n].defs)
  <2>1. CASE n \in Below
    BY <1>2, <1>3, <2>1 DEF SourceInv
  <2>2. CASE n = Len(stack)
    BY <1>2, <1>3, <2>2, FrameFacts DEF SourceInv
  <2>3. CASE n = Len(stack) + 1
    BY <1>2, <1>4, <2>3
  <2> QED
    BY <1>2, <1>3, <2>1, <2>2, <2>3 DEF Below
<1> QED
  BY <1>1, <1>5, SameSource DEF SourceInv

LEMMA SourceReturn ==
    ASSUME IInv, SourceInv, Return
    PROVE  SourceInv'
<1>1. /\ Running /\ ~Unresolvable(Top.defs) /\ UNCHANGED <<fs, incoming>>
      /\ desc' = [defs |-> Resolved(Top.defs), file |-> Top.file]
      /\ DOMAIN stack' = Below /\ \A n \in Below : stack'[n] = stack[n]
  BY ReturnDoes
<1>2. Len(stack) \in DOMAIN stack /\ Below \subseteq DOMAIN stack /\ Top = stack[Len(stack)]
  BY <1>1, TopThere
<1> DEFINE defs == Top.defs
<1>3. Listed(defs) /\ AllSourced(defs) /\ Top.file \in DOMAIN fs
  BY <1>2 DEF IInv, SourceInv
<1>4. desc'.defs = Resolved(defs) /\ desc'.file = Top.file
  BY <1>1
<1> HIDE DEF defs
<1>5. Pointing(Resolved(defs))
  BY <1>1, <1>3, ResolvedPointing DEF IInv, Listed, defs
<1>6. AllSourced(Resolved(defs))
  <2> SUFFICES ASSUME NEW i \in DOMAIN Resolved(defs)
               PROVE  Sourced(Resolved(defs)[i])
    BY DEF AllSourced
  <2>1. i \in DOMAIN defs
    BY ResolvedFacts
  <2>2. /\ SameParts(Resolved(defs)[i], defs[i]) /\ Resolved(defs)[i].path = defs[i].path
        /\ Resolved(defs)[i].package = defs[i].package
    BY <2>1, ResolvedFacts
  <2>3. Sourced(defs[i])
    BY <1>3, <2>1 DEF AllSourced
  <2> QED
    BY <2>2, <2>3, KeepsSource
<1>7. \A n \in DOMAIN stack' : stack'[n].file \in DOMAIN fs /\ AllSourced(stack'[n].defs)
  BY <1>1, <1>2 DEF SourceInv
<1> QED
  BY <1>1, <1>3, <1>4, <1>5, <1>6, <1>7, SameSource DEF SourceInv

LEMMA SourceReceive ==
    ASSUME IInv, SourceInv, Receive
    PROVE  SourceInv'
<1>1. /\ Running /\ desc # NoDesc /\ UNCHANGED <<fs, stack, outcome>> /\ desc' = NoDesc
      /\ DOMAIN incoming' = DOMAIN desc.defs
      /\ \A i \in DOMAIN desc.defs :
            incoming'[i] = Adopted(Unresolved(desc.defs)[i], fs[desc.file].package)
  BY ReceiveDoes
<1>2. desc.file \in DOMAIN fs /\ AllSourced(desc.defs)
  BY <1>1 DEF SourceInv
<1>3. IsSeq(fs[desc.file].package)
  BY <1>2, ResolverAssumption, WrittenFacts DEF IInv
<1>4. AllSourced(incoming')
  <2> SUFFICES ASSUME NEW i \in DOMAIN desc.defs
               PROVE  Sourced(incoming'[i])
    BY <1>1 DEF AllSourced
  <2> DEFINE new == incoming'[i]
  <2>1. new = Adopted(Unresolved(desc.defs)[i], fs[desc.file].package)
    BY <1>1
  <2> HIDE DEF new
  <2>2. /\ SameParts(new, desc.defs[i]) /\ new.path = desc.defs[i].path
        /\ new.package = (IF desc.defs[i].package = << >> THEN fs[desc.file].package
                          ELSE desc.defs[i].package)
    <3> DEFINE defs == desc.defs
               package == fs[desc.file].package
    <3>1. i \in DOMAIN defs /\ new = Adopted(Unresolved(defs)[i], package)
      BY <2>1
    <3> HIDE DEF defs, package
    <3>2. ReceivedAs(new, defs, defs[i], package)
      BY <3>1, ReceivedFacts
    <3>3. /\ SameParts(new, defs[i]) /\ new.path = defs[i].path
          /\ new.package = (IF defs[i].package = << >> THEN package ELSE defs[i].package)
      BY <3>2 DEF ReceivedAs
    <3> QED
      BY <3>3 DEF defs, package
  <2>3. Sourced(desc.defs[i])
    BY <1>2 DEF AllSourced
  <2>4. Sourced(new)
    BY <1>3, <2>2, <2>3, KeepsSource
  <2> QED
    BY <2>4 DEF new
<1>5. desc'.defs = << >>
  BY <1>1 DEF NoDesc
<1> QED
  BY <1>1, <1>4, <1>5, SameSource, NothingSourced DEF SourceInv

LEMMA SourceMerge ==
    ASSUME IInv, SourceInv, MergeNext
    PROVE  SourceInv'
<1>1. /\ Running /\ UNCHANGED <<fs, desc, outcome>>
      /\ DOMAIN stack' = DOMAIN stack /\ \A n \in Below : stack'[n] = stack[n]
      /\ stack'[Len(stack)].file = Top.file
      /\ stack'[Len(stack)].defs =
            IF IsMerged(incoming[1], Top.defs) THEN Top.defs ELSE Append(Top.defs, incoming[1])
      /\ 1 \in DOMAIN incoming
      /\ \A i \in DOMAIN incoming' : i + 1 \in DOMAIN incoming /\ incoming'[i] = incoming[i + 1]
  BY MergeNextDoes
<1>2. /\ Len(stack) \in DOMAIN stack /\ Below \subseteq DOMAIN stack /\ Top = stack[Len(stack)]
      /\ \A n \in DOMAIN stack : n \in Below \/ n = Len(stack)
  BY <1>1, TopThere
<1>3. Sourced(incoming[1]) /\ AllSourced(Top.defs) /\ IsSeq(Top.defs) /\ Top.file \in DOMAIN fs
  BY <1>1, <1>2 DEF SourceInv, AllSourced, IInv, Listed
<1>4. AllSourced(Append(Top.defs, incoming[1]))
  <2> DEFINE defs == Top.defs
             d == incoming[1]
  <2> HIDE DEF defs, d
  <2>1. /\ DOMAIN Append(defs, d) = 1..(Len(defs) + 1)
        /\ \A i \in 1..Len(defs) : Append(defs, d)[i] = defs[i]
        /\ Append(defs, d)[Len(defs) + 1] = d
        /\ Len(defs) \in Nat /\ DOMAIN defs = 1..Len(defs)
    BY <1>3, AppendFacts, SeqFacts DEF defs
  <2>2. \A i \in DOMAIN Append(defs, d) : i \in DOMAIN defs \/ i = Len(defs) + 1
    BY <2>1
  <2>3. AllSourced(Append(defs, d))
    BY <1>3, <2>1, <2>2 DEF AllSourced, defs, d
  <2> QED
    BY <2>3 DEF defs, d
<1>5. AllSourced(stack'[Len(stack)].defs)
  BY <1>1, <1>3, <1>4
<1>6. \A n \in DOMAIN stack' : stack'[n].file \in DOMAIN fs /\ AllSourced(stack'[n].defs)
  BY <1>1, <1>2, <1>3, <1>5 DEF SourceInv
<1>7. AllSourced(incoming')
  BY <1>1 DEF SourceInv, AllSourced
<1> QED
  BY <1>1, <1>6, <1>7, SameSource DEF SourceInv

\* An error, or nothing, happens.
Halts ==
    \/ Unreadable \/ ParsePanics \/ StackOverflow \/ ImportMissing \/ NameMissing \/ Refuse
    \/ UNCHANGED vars

LEMMA HaltsKeeps == Halts => UNCHANGED <<fs, stack, incoming, desc>>
BY DEF Halts, Unreadable, ParsePanics, StackOverflow, ImportMissing, NameMissing, Refuse, Fail, vars

LEMMA Steps == [Next]_vars => OpenImport \/ Return \/ Receive \/ MergeNext \/ Halts
BY DEF Next, Halts

LEMMA SourceStep == IInv /\ SourceInv /\ [Next]_vars => SourceInv'
<1> SUFFICES ASSUME IInv, SourceInv, [Next]_vars
             PROVE  SourceInv'
  OBVIOUS
<1>1. CASE Halts
  <2>1. UNCHANGED <<fs, stack, incoming, desc>>
    BY <1>1, HaltsKeeps
  <2> QED
    BY <2>1, SameSource DEF SourceInv
<1> QED
  BY <1>1, Steps, SourceOpen, SourceReturn, SourceReceive, SourceMerge

LEMMA AllFromFiles == Spec => []SourceInv
<1>1. Init => SourceInv
  BY SourceInit
<1>2. IInv /\ SourceInv /\ [Next]_vars => SourceInv'
  BY SourceStep
<1> QED
  BY <1>1, <1>2, ListsInOrder, PTL DEF Spec

\* The outermost call is for the root, and so is what it returns.
RootInv ==
    /\ 1 \in DOMAIN stack => stack[1].file = Root
    /\ outcome = "ok" => desc.file = Root

LEMMA RootStep == IInv /\ RootInv /\ [Next]_vars => RootInv'
<1> SUFFICES ASSUME IInv, RootInv, [Next]_vars
             PROVE  RootInv'
  OBVIOUS
<1>1. CASE Halts
  <2>1. UNCHANGED <<fs, stack, incoming, desc>>
    BY <1>1, HaltsKeeps
  <2>2. outcome' = "ok" => outcome = "ok"
    BY <1>1 DEF Halts, Unreadable, ParsePanics, StackOverflow, ImportMissing, NameMissing, Refuse,
                Fail, SanityError, vars
  <2> QED
    BY <2>1, <2>2 DEF RootInv
<1>2. CASE OpenImport
  <2>1. /\ Running /\ UNCHANGED <<fs, incoming, desc, outcome>>
        /\ \A n \in Below : stack'[n] = stack[n]
        /\ \E next : stack'[Len(stack)] = Frame(Top.file, Top.defs, next)
    BY <1>2, OpenImportDoes
  <2>2. /\ Len(stack) \in Nat \ {0} /\ DOMAIN stack = 1..Len(stack) /\ Top = stack[Len(stack)]
        /\ \A n \in DOMAIN stack : n \in Below \/ n = Len(stack)
    BY <2>1, TopThere
  <2>3. \A n \in DOMAIN stack : stack'[n].file = stack[n].file
    BY <2>1, <2>2 DEF Frame
  <2>4. 1 \in DOMAIN stack
    BY <2>2
  <2> QED
    BY <2>1, <2>3, <2>4 DEF RootInv, Running
<1>3. CASE Return
  <2>1. /\ Running /\ desc' = [defs |-> Resolved(Top.defs), file |-> Top.file]
        /\ DOMAIN stack' = Below /\ (\A n \in Below : stack'[n] = stack[n])
        /\ outcome' = IF Len(stack) = 1 THEN "ok" ELSE outcome
    BY <1>3, ReturnDoes
  <2>2. /\ Len(stack) \in DOMAIN stack /\ Below \subseteq DOMAIN stack /\ Top = stack[Len(stack)]
    BY <2>1, TopThere
  <2>3. outcome # "ok"
    BY <2>1 DEF Running
  <2>4. 1 \in DOMAIN stack' => stack'[1].file = Root
    BY <2>1, <2>2 DEF RootInv
  <2>5. desc'.file = Top.file
    BY <2>1
  <2>6. outcome' = "ok" => desc'.file = Root
    BY <2>1, <2>2, <2>3, <2>5 DEF RootInv
  <2> QED
    BY <2>4, <2>6 DEF RootInv
<1>4. CASE Receive
  <2>1. stack' = stack /\ outcome' = outcome /\ outcome # "ok"
    BY <1>4 DEF Receive, Running
  <2> QED
    BY <2>1 DEF RootInv
<1>5. CASE MergeNext
  <2>1. /\ Running /\ UNCHANGED <<fs, desc, outcome>>
        /\ DOMAIN stack' = DOMAIN stack /\ (\A n \in Below : stack'[n] = stack[n])
        /\ stack'[Len(stack)].file = Top.file
    BY <1>5, MergeNextDoes
  <2>2. /\ Top = stack[Len(stack)]
        /\ \A n \in DOMAIN stack : n \in Below \/ n = Len(stack)
    BY <2>1, TopThere
  <2> QED
    BY <2>1, <2>2 DEF RootInv, Running
<1> QED
  BY <1>1, <1>2, <1>3, <1>4, <1>5, Steps

LEMMA RootIsRead == Spec => []RootInv
<1>1. Init => RootInv
  BY DEF Init, RootInv, Call, Frame
<1> QED
  BY <1>1, RootStep, ListsInOrder, PTL DEF Spec

-----------------------------------------------------------------------------
(* The generator. *)

\* The items of the message or enum at a place.
ItemsAt(defs, x) ==
    LET part == defs[x[1]].parts[x[2]]
        ident == qualified_name(defs[x[1]], x[2])
    IN  IF part.kind = "Message" THEN write_message(x, ident, part.oneofs) ELSE write_enum(x, ident)

LEMMA ItemsAre ==
    ASSUME NEW defs
    PROVE  /\ \A a \in Items(defs) : \E x \in Places(defs) : a \in ItemsAt(defs, x)
           /\ \A x \in Places(defs) :
                defs[x[1]].parts[x[2]].kind \in {"Message", "Enum"} => ItemsAt(defs, x) \subseteq Items(defs)
<1> DEFINE ofMessage(x) ==
               write_message(x, qualified_name(defs[x[1]], x[2]), defs[x[1]].parts[x[2]].oneofs)
           ofEnum(x) == write_enum(x, qualified_name(defs[x[1]], x[2]))
           kind(x) == defs[x[1]].parts[x[2]].kind
<1>1. /\ \A x : kind(x) = "Message" => ItemsAt(defs, x) = ofMessage(x)
      /\ \A x : kind(x) # "Message" => ItemsAt(defs, x) = ofEnum(x)
  BY DEF ItemsAt
<1>2. Items(defs) = (UNION {ofMessage(x) : x \in collect_all_messages(defs)})
                    \cup (UNION {ofEnum(x) : x \in collect_all_enums(defs)})
  BY DEF Items
<1>3. /\ \A x : x \in collect_all_messages(defs) <=> x \in Places(defs) /\ kind(x) = "Message"
      /\ \A x : x \in collect_all_enums(defs) <=> x \in Places(defs) /\ kind(x) = "Enum"
  BY DEF collect_all_messages, collect_all_enums
<1>4. "Enum" # "Message"
  OBVIOUS
<1> HIDE DEF ofMessage, ofEnum, kind
<1>5. \A a : a \in Items(defs) <=> \/ \E x \in collect_all_messages(defs) : a \in ofMessage(x)
                                   \/ \E x \in collect_all_enums(defs) : a \in ofEnum(x)
  BY <1>2
<1>6. ASSUME NEW a \in Items(defs)
      PROVE  \E x \in Places(defs) : a \in ItemsAt(defs, x)
  <2>1. CASE \E x \in collect_all_messages(defs) : a \in ofMessage(x)
    BY <1>1, <1>3, <2>1
  <2>2. CASE \E x \in collect_all_enums(defs) : a \in ofEnum(x)
    BY <1>1, <1>3, <1>4, <2>2
  <2> QED
    BY <1>5, <2>1, <2>2
<1>7. ASSUME NEW x \in Places(defs), kind(x) \in {"Message", "Enum"}, NEW a \in ItemsAt(defs, x)
      PROVE  a \in Items(defs)
  <2>1. CASE kind(x) = "Message"
    <3>1. x \in collect_all_messages(defs) /\ a \in ofMessage(x)
      BY <1>1, <1>3, <2>1
    <3> QED
      BY <1>5, <3>1
  <2>2. CASE kind(x) = "Enum"
    <3>1. x \in collect_all_enums(defs) /\ a \in ofEnum(x)
      BY <1>1, <1>3, <1>4, <2>2
    <3> QED
      BY <1>5, <3>1
  <2> QED
    BY <1>7, <2>1, <2>2
<1> QED
  BY <1>6, <1>7 DEF kind

\* What is mentioned is the item an index leads to.
LEMMA MentionsAreItems ==
    ASSUME NEW defs, Numbered(defs), Pointing(defs)
    PROVE  Uses(defs) \subseteq Items(defs)
<1> SUFFICES ASSUME NEW s \in Slots(defs), IsIndexed(FieldAt(defs, s).typ),
                    NEW a \in Mentions(defs, FieldAt(defs, s).typ)
             PROVE  a \in Items(defs)
  BY DEF Uses
<1> DEFINE typ == FieldAt(defs, s).typ
           at == typ.at
           word == qualified_name(defs[at[1]], at[2])
<1>1. PICK x \in Places(defs) : \E k \in DOMAIN defs[x[1]].parts[x[2]].fields : s = <<x[1], x[2], k>>
  BY DEF Slots
<1>2. PICK k \in DOMAIN defs[x[1]].parts[x[2]].fields : s = <<x[1], x[2], k>>
  BY <1>1
<1>3. x[1] \in DOMAIN defs /\ x[2] \in DOMAIN defs[x[1]].parts
  BY PlacesAre
<1>4. typ = defs[x[1]].parts[x[2]].fields[k].typ
  BY <1>2 DEF FieldAt
<1>5. IsItem(defs, typ.tag, at)
  BY <1>3, <1>4 DEF Pointing
<1>6. CASE typ.tag = "Message"
  <2>1. a \in {Item(at, 0, i) : i \in message_schema(word)}
    BY <1>6 DEF Mentions
  <2>2. at \in Places(defs) /\ defs[at[1]].parts[at[2]].kind = "Message"
    BY <1>5, <1>6 DEF IsItem
  <2>3. a \in ItemsAt(defs, at)
    BY <2>1, <2>2 DEF ItemsAt, write_message
  <2> QED
    BY <2>2, <2>3, ItemsAre
<1>7. CASE typ.tag = "Enum"
  <2>1. a = Item(at, 0, word)
    BY <1>7 DEF Mentions
  <2>2. at \in Places(defs) /\ defs[at[1]].parts[at[2]].kind = "Enum"
    BY <1>5, <1>7 DEF IsItem
  <2>3. a \in ItemsAt(defs, at)
    BY <2>1, <2>2 DEF ItemsAt, write_enum
  <2> QED
    BY <2>2, <2>3, ItemsAre
<1> QED
  BY <1>6, <1>7 DEF IsIndexed

\* Once there is code it is that of what read_proto returned.
CodeInv ==
    \/ code = NoModule("none") \/ code = NoModule("panic")
    \/ /\ outcome = "ok" /\ fs[desc.file].package # << >>
       /\ code = Module(desc.file, desc.defs)

LEMMA SameModule ==
    ASSUME fs' = fs
    PROVE  \A f, defs : Module(f, defs)' = Module(f, defs)
BY DEF Module, Labels

LEMMA CodeStep == IInv /\ SourceInv /\ CodeInv /\ [GNext]_gvars => CodeInv'
<1> SUFFICES ASSUME CodeInv, [GNext]_gvars
             PROVE  CodeInv'
  OBVIOUS
<1>1. CASE write_proto_with_includes
  <2>1. desc' = desc /\ outcome' = outcome
    BY <1>1 DEF write_proto_with_includes, vars
  <2>2. \/ code' = NoModule("panic")
        \/ fs[desc.file].package # << >> /\ code' = Module(desc.file, desc.defs)
    BY <1>1, <2>1 DEF write_proto_with_includes, Unsupported
  <2>3. outcome' = "ok" /\ fs' = fs
    BY <1>1, <2>1 DEF write_proto_with_includes, vars
  <2> QED
    BY <2>1, <2>2, <2>3, SameModule DEF CodeInv
<1>2. CASE read_proto
  <2>1. code' = code
    BY <1>2 DEF read_proto
  <2>2. ~ (~ Running /\ Next)
    BY DEF Next, OpenImport, Unreadable, ParsePanics, StackOverflow, ImportMissing, NameMissing,
           Refuse, Return, Receive, MergeNext, Between, Opened
  <2>3. outcome = "ok" => ~Running
    BY DEF Running
  <2>4. outcome # "ok"
    BY <1>2, <2>2, <2>3 DEF read_proto
  <2> QED
    BY <2>1, <2>4 DEF CodeInv
<1>3. CASE UNCHANGED gvars
  <2>1. code' = code /\ desc' = desc /\ outcome' = outcome /\ fs' = fs
    BY <1>3 DEF gvars, vars
  <2> QED
    BY <2>1, SameModule DEF CodeInv
<1> QED
  BY <1>1, <1>2, <1>3 DEF GNext

LEMMA CodeIsOf == GSpec => [](IInv /\ SourceInv /\ CodeInv)
<1>1. GInit => CodeInv
  BY DEF GInit, CodeInv
<1>2. IInv /\ SourceInv /\ CodeInv /\ [GNext]_gvars => CodeInv'
  BY CodeStep
<1> QED
  BY <1>1, <1>2, GeneratorReads, ListsInOrder, AllFromFiles, PTL DEF GSpec

\* Whatever the files are, an item that the code of a field mentions is generated: an index into a
\* descriptor leads to one of its items, of the kind it says, however the descriptor was merged
\* (parser.rs:11-37, 364-389).
THEOREM EverythingGenerated == GSpec => []NothingDangling
<1>1. IInv /\ SourceInv /\ CodeInv => NothingDangling
  <2> SUFFICES ASSUME IInv, SourceInv, CodeInv
               PROVE  code.uses \subseteq code.items
    BY DEF NothingDangling
  <2>1. IsSeq(desc.defs) /\ AllSourced(desc.defs) /\ Pointing(desc.defs)
    BY DEF IInv, SourceInv, Returned
  <2>2. Numbered(desc.defs)
    BY <2>1, SourcedNumbered DEF IInv
  <2>3. Uses(desc.defs) \subseteq Items(desc.defs)
    BY <2>1, <2>2, MentionsAreItems
  <2>4. CASE code = Module(desc.file, desc.defs)
    BY <2>3, <2>4 DEF Module
  <2>5. CASE code = NoModule("none") \/ code = NoModule("panic")
    BY <2>5 DEF NoModule
  <2> QED
    BY <2>4, <2>5 DEF CodeInv
<1> QED
  BY <1>1, CodeIsOf, PTL

-----------------------------------------------------------------------------
(* Which files a file leads to. *)

\* At most one file is what an import names.
LEMMA OneMatch ==
    ASSUME NEW f, NEW import, NEW g \in Matches(f, import), NEW h \in Matches(f, import)
    PROVE  g = h
<1> DEFINE path == import_search_path
<1>1. DOMAIN path \subseteq Nat \ {0}
  <2>1. IsSeq(Includes)
    BY ResolverAssumption DEF IsSequence, IsSeq
  <2>2. IsSeq(path)
    BY <2>1, AppendFacts DEF import_search_path
  <2> HIDE DEF path
  <2> QED
    BY <2>2, SeqFacts
<1>2. PICK i \in DOMAIN path : IsMatch(f, i, import) /\ g = Candidate(f, path[i], import)
  BY DEF Matches
<1>3. PICK j \in DOMAIN path : IsMatch(f, j, import) /\ h = Candidate(f, path[j], import)
  BY DEF Matches
<1> HIDE DEF path
<1>4. i \in Nat \ {0} /\ j \in Nat \ {0} /\ Exists(f, i, import) /\ Exists(f, j, import)
      /\ (\A k \in 1..i - 1 : ~Exists(f, k, import)) /\ (\A k \in 1..j - 1 : ~Exists(f, k, import))
  BY <1>1, <1>2, <1>3 DEF IsMatch
<1>5. i = j
  BY <1>4
<1> QED
  BY <1>2, <1>3, <1>5

\* The imports of a file are what its import statements name.
LEMMA ImportsAre ==
    ASSUME NEW f
    PROVE  /\ Imports(f) \subseteq DOMAIN fs
           /\ \A g : g \in Imports(f) <=>
                        \E import \in ToSet(fs[f].imports) : g \in Matches(f, import)
<1>1. \A import : Matches(f, import) \subseteq DOMAIN fs
  BY DEF Matches, IsMatch, Exists
<1>2. Imports(f) = UNION {Matches(f, import) : import \in ToSet(fs[f].imports)}
  BY DEF Imports, Matches
<1> QED
  BY <1>1, <1>2

\* A set of files that has what its files import.
IsClosed(S) == S \subseteq DOMAIN fs /\ \A g \in S : Imports(g) \subseteq S

\* Reach(f) is the least one that has f.
LEMMA ReachLeast ==
    ASSUME NEW f \in DOMAIN fs
    PROVE  /\ f \in Reach(f) /\ IsClosed(Reach(f))
           /\ \A S : IsClosed(S) /\ f \in S => Reach(f) \subseteq S
<1> DEFINE edges == UNION {{<<g, h>> : h \in Imports(g)} : g \in DOMAIN fs}
           closed == {S \in SUBSET DOMAIN fs : f \in S /\ \A e \in edges : e[1] \in S => e[2] \in S}
<1>1. \A g, h : <<g, h>> \in edges <=> g \in DOMAIN fs /\ h \in Imports(g)
  OBVIOUS
<1>2. \A e \in edges : e = <<e[1], e[2]>> /\ e[1] \in DOMAIN fs /\ e[2] \in Imports(e[1])
  OBVIOUS
<1>3. Reach(f) = {g \in DOMAIN fs : \A S \in closed : g \in S}
  BY DEF Reach
<1> HIDE DEF edges
<1>4. \A S : S \in closed <=> IsClosed(S) /\ f \in S
  <2>1. ASSUME NEW S \in closed
        PROVE  IsClosed(S) /\ f \in S
    <3>1. ASSUME NEW g \in S, NEW h \in Imports(g)
          PROVE  h \in S
      <4>1. <<g, h>> \in edges
        BY <1>1
      <4>2. <<g, h>>[1] = g /\ <<g, h>>[2] = h
        OBVIOUS
      <4> QED
        BY <4>1, <4>2
    <3> QED
      BY <3>1 DEF IsClosed
  <2>2. ASSUME NEW S, IsClosed(S), f \in S
        PROVE  S \in closed
    BY <1>2, <2>2 DEF IsClosed
  <2> QED
    BY <2>1, <2>2
<1> HIDE DEF closed
<1>5. f \in Reach(f)
  BY <1>3, <1>4
<1>6. IsClosed(Reach(f))
  <2>1. ASSUME NEW g \in Reach(f), NEW h \in Imports(g)
        PROVE  h \in Reach(f)
    <3>1. h \in DOMAIN fs
      BY ImportsAre
    <3>2. ASSUME NEW S \in closed
          PROVE  h \in S
      BY <1>3, <1>4 DEF IsClosed
    <3> QED
      BY <1>3, <3>1, <3>2
  <2> QED
    BY <1>3, <2>1 DEF IsClosed
<1>7. \A S : IsClosed(S) /\ f \in S => Reach(f) \subseteq S
  BY <1>3, <1>4
<1> QED
  BY <1>5, <1>6, <1>7

\* What a file that f leads to leads to, f leads to.
LEMMA ReachThrough ==
    ASSUME NEW f \in DOMAIN fs, NEW g \in Reach(f)
    PROVE  /\ g \in DOMAIN fs /\ Imports(g) \subseteq Reach(f)
           /\ Reach(g) \subseteq Reach(f)
           /\ PathsFrom(g) \subseteq PathsFrom(f)
<1>1. g \in DOMAIN fs /\ Imports(g) \subseteq Reach(f) /\ IsClosed(Reach(f))
  BY ReachLeast DEF IsClosed
<1>2. Reach(g) \subseteq Reach(f)
  BY <1>1, ReachLeast
<1> QED
  BY <1>1, <1>2 DEF PathsFrom

\* A file leads to itself and to what its imports lead to.
LEMMA ReachIs ==
    ASSUME NEW f \in DOMAIN fs
    PROVE  Reach(f) = {f} \cup UNION {Reach(g) : g \in Imports(f)}
<1> DEFINE S == {f} \cup UNION {Reach(g) : g \in Imports(f)}
<1>1. Imports(f) \subseteq DOMAIN fs
  BY ImportsAre
<1>2. S \subseteq Reach(f)
  <2>1. f \in Reach(f) /\ Imports(f) \subseteq Reach(f)
    BY ReachLeast DEF IsClosed
  <2> QED
    BY <2>1, ReachThrough
<1>3. IsClosed(S)
  <2>1. S \subseteq DOMAIN fs
    BY <1>1, ReachLeast DEF IsClosed
  <2>2. ASSUME NEW g \in S, NEW h \in Imports(g)
        PROVE  h \in S
    <3>1. CASE g = f
      <4>1. h \in Imports(f) /\ h \in Reach(h)
        BY <1>1, <3>1, ReachLeast
      <4> QED
        BY <4>1
    <3>2. CASE g # f
      <4>1. PICK i \in Imports(f) : g \in Reach(i)
        BY <3>2
      <4>2. h \in Reach(i)
        BY <1>1, <4>1, ReachThrough
      <4> QED
        BY <4>2
    <3> QED
      BY <3>1, <3>2
  <2> HIDE DEF S
  <2> QED
    BY <2>1, <2>2 DEF IsClosed
<1>4. f \in S
  OBVIOUS
<1> HIDE DEF S
<1>5. Reach(f) \subseteq S
  BY <1>3, <1>4, ReachLeast
<1> QED
  BY <1>2, <1>5 DEF S

\* The paths of a file are its own and those of its imports.
LEMMA PathsFromIs ==
    ASSUME NEW f \in DOMAIN fs
    PROVE  \A p : p \in PathsFrom(f) <=>
                     p \in PathsOf(f) \/ \E g \in Imports(f) : p \in PathsFrom(g)
BY ReachIs DEF PathsFrom

-----------------------------------------------------------------------------
(* What a running call has of what its file leads to. *)

PathSet(defs) == {defs[i].path : i \in DOMAIN defs}

\* Where the definitions are of a file and of its imports before the n-th.
Before(f, n) ==
    PathsOf(f) \cup
    (UNION {UNION {PathsFrom(g) : g \in Matches(f, fs[f].imports[k])} : k \in 1..(n - 1)})

LEMMA BeforeFirst ==
    ASSUME NEW f
    PROVE  Before(f, 1) = PathsOf(f)
BY DEF Before

LEMMA BeforeNext ==
    ASSUME NEW f, NEW n \in Nat, n - 1 \in Nat \ {0}, NEW g \in Matches(f, fs[f].imports[n - 1])
    PROVE  Before(f, n) = Before(f, n - 1) \cup PathsFrom(g)
<1> DEFINE of(k) == UNION {PathsFrom(h) : h \in Matches(f, fs[f].imports[k])}
<1>1. of(n - 1) = PathsFrom(g)
  BY OneMatch
<1>2. /\ Before(f, n) = PathsOf(f) \cup (UNION {of(k) : k \in 1..(n - 1)})
      /\ Before(f, n - 1) = PathsOf(f) \cup (UNION {of(k) : k \in 1..(n - 1 - 1)})
  BY DEF Before
<1>3. \A k : k \in 1..(n - 1) <=> k \in 1..(n - 1 - 1) \/ k = n - 1
  OBVIOUS
<1> HIDE DEF of
<1> QED
  BY <1>1, <1>2, <1>3

LEMMA BeforeAll ==
    ASSUME fs \in Schemas, NEW f \in DOMAIN fs, NEW n \in 1..(Len(fs[f].imports) + 1)
    PROVE  /\ PathsOf(f) \subseteq Before(f, n)
           /\ Before(f, n) \subseteq PathsFrom(f)
           /\ n > Len(fs[f].imports) => Before(f, n) = PathsFrom(f)
<1> DEFINE imports == fs[f].imports
<1>1. Len(imports) \in Nat /\ DOMAIN imports = 1..Len(imports)
  <2>1. IsSeq(imports)
    BY ResolverAssumption, WrittenFacts
  <2> QED
    BY <2>1, SeqFacts
<1>2. ASSUME NEW g
      PROVE  g \in Imports(f) <=> \E k \in DOMAIN imports : g \in Matches(f, imports[k])
  <2>1. \A import : import \in ToSet(imports) <=> \E k \in DOMAIN imports : import = imports[k]
    BY DEF ToSet
  <2> QED
    BY <2>1, ImportsAre
<1>3. ASSUME NEW p
      PROVE  p \in Before(f, n) <=>
                p \in PathsOf(f) \/ \E k \in 1..(n - 1) : \E g \in Matches(f, imports[k]) : p \in PathsFrom(g)
  BY DEF Before
<1>4. 1..(n - 1) \subseteq DOMAIN imports /\ (n > Len(imports) => 1..(n - 1) = DOMAIN imports)
  BY <1>1
<1>5. \A p : p \in Before(f, n) => p \in PathsFrom(f)
  BY <1>2, <1>3, <1>4, PathsFromIs
<1>6. ASSUME n > Len(imports), NEW p \in PathsFrom(f)
      PROVE  p \in Before(f, n)
  BY <1>2, <1>3, <1>4, <1>6, PathsFromIs
<1> QED
  BY <1>3, <1>5, <1>6

\* A file without a package that defines something is imported, directly or not, only by files
\* without one.
Packaged ==
    \A f \in Reach(Root) : \A g \in Reach(f) :
        fs[g].package = << >> /\ fs[g].defs # << >> => fs[f].package = << >>

\* No two definitions at the top have the kind, the package and the name.
UniqueUnits ==
    \A p, q \in PathsFrom(Root) :
        /\ PartsOf(p)[1].kind = PartsOf(q)[1].kind
        /\ PartsOf(p)[1].name = PartsOf(q)[1].name
        /\ fs[p[1]].package = fs[q[1]].package
        => p = q

\* Definitions that are in the package of their file.
Faithful(defs) == \A i \in DOMAIN defs : defs[i].package = fs[defs[i].path[1]].package

\* Definitions that say whether they are f's.
Flagged(defs, f) ==
    \A i \in DOMAIN defs :
        \/ defs[i].imported = FALSE /\ defs[i].path[1] = f
        \/ defs[i].imported = TRUE /\ defs[i].path[1] # f

\* The constants of a state, so to say: what depends on the files only.
LEMMA SameFiles ==
    ASSUME fs' = fs
    PROVE  /\ \A f : /\ Reach(f)' = Reach(f) /\ PathsFrom(f)' = PathsFrom(f)
                     /\ Imports(f)' = Imports(f) /\ PathsOf(f)' = PathsOf(f)
           /\ \A f, n : Before(f, n)' = Before(f, n)
           /\ \A f, import : Matches(f, import)' = Matches(f, import)
           /\ \A defs : Faithful(defs)' <=> Faithful(defs)
           /\ Packaged' <=> Packaged
           /\ UniqueUnits' <=> UniqueUnits
<1>1. \A f, import : Matches(f, import)' = Matches(f, import)
  BY DEF Matches, IsMatch, Exists
<1>2. \A f : Imports(f)' = Imports(f)
  BY DEF Imports, IsMatch, Exists
<1>3. \A f : Reach(f)' = Reach(f) /\ PathsFrom(f)' = PathsFrom(f) /\ PathsOf(f)' = PathsOf(f)
  BY DEF Reach, Imports, IsMatch, Exists, PathsFrom, PathsOf
<1>4. \A f, n : Before(f, n)' = Before(f, n)
  BY DEF Before, Matches, IsMatch, Exists, Reach, Imports, PathsFrom, PathsOf
<1>5. \A defs : Faithful(defs)' <=> Faithful(defs)
  BY DEF Faithful
<1>6. Packaged' <=> Packaged
  BY <1>3 DEF Packaged
<1>7. UniqueUnits' <=> UniqueUnits
  BY <1>3 DEF UniqueUnits, PartsOf
<1> QED
  BY <1>1, <1>2, <1>3, <1>4, <1>5, <1>6, <1>7

\* Among definitions in the packages of their files the key tells where one is from.
LEMMA KeyIsPath ==
    ASSUME UniqueUnits, NEW d, NEW e, Sourced(d), Sourced(e), 1 \in DOMAIN d.parts, 1 \in DOMAIN e.parts,
           d.package = fs[d.path[1]].package, e.package = fs[e.path[1]].package,
           d.path \in PathsFrom(Root), e.path \in PathsFrom(Root)
    PROVE  Key(d) = Key(e) <=> d.path = e.path
<1>1. /\ d.parts[1].kind = PartsOf(d.path)[1].kind /\ d.parts[1].name = PartsOf(d.path)[1].name
      /\ e.parts[1].kind = PartsOf(e.path)[1].kind /\ e.parts[1].name = PartsOf(e.path)[1].name
  BY DEF Sourced, SamePart
<1>2. Key(d) = Key(e) <=> /\ d.parts[1].kind = e.parts[1].kind /\ d.package = e.package
                          /\ d.parts[1].name = e.parts[1].name
  BY DEF Key
<1>3. ASSUME d.path = e.path
      PROVE  Key(d) = Key(e)
  <2>1. d.package = e.package
    BY <1>3
  <2>2. d.parts[1].kind = e.parts[1].kind /\ d.parts[1].name = e.parts[1].name
    BY <1>1, <1>3
  <2> QED
    BY <1>2, <2>1, <2>2
<1>4. ASSUME Key(d) = Key(e)
      PROVE  d.path = e.path
  <2>1. fs[d.path[1]].package = fs[e.path[1]].package
    BY <1>2, <1>4
  <2>2. /\ PartsOf(d.path)[1].kind = PartsOf(e.path)[1].kind
        /\ PartsOf(d.path)[1].name = PartsOf(e.path)[1].name
    BY <1>1, <1>2, <1>4
  <2> QED
    BY <2>1, <2>2 DEF UniqueUnits
<1> QED
  BY <1>3, <1>4

-----------------------------------------------------------------------------
(* Every call has what its file and the imports it is done with lead to.     *)

\* A call is of a file the root leads to and of its imports it has at most all behind it.
Held(frame) ==
    /\ frame.file \in Reach(Root)
    /\ frame.next \in 1..(Len(fs[frame.file].imports) + 1)
    /\ Faithful(frame.defs) /\ Flagged(frame.defs, frame.file)

\* A call that waits for g, its last import, or for what g has returned.
Waits(frame, g) ==
    /\ frame.next - 1 \in Nat \ {0}
    /\ g \in Matches(frame.file, fs[frame.file].imports[frame.next - 1])
    /\ PathSet(frame.defs) = Before(frame.file, frame.next - 1)

\* A call that merges its last import, or is between two.
Merges(frame) ==
    /\ PathSet(frame.defs) \cup PathSet(incoming) = Before(frame.file, frame.next)
    /\ PathsOf(frame.file) \subseteq PathSet(frame.defs)

CoverInv ==
    /\ \A n \in DOMAIN stack : Held(stack[n])
    /\ \A n \in Below : Waits(stack[n], stack[n + 1].file)
    /\ stack # << >> => IF desc = NoDesc THEN Merges(Top) ELSE Waits(Top, desc.file)
    /\ desc # NoDesc => /\ desc.file \in Reach(Root) /\ incoming = << >>
                        /\ PathSet(desc.defs) = PathsFrom(desc.file)
    /\ Faithful(desc.defs) /\ Flagged(desc.defs, desc.file)
    /\ Faithful(incoming) /\ \A i \in DOMAIN incoming : incoming[i].imported = TRUE

LEMMA SameFrames ==
    ASSUME fs' = fs
    PROVE  /\ \A frame : Held(frame)' <=> Held(frame)
           /\ \A frame, g : Waits(frame, g)' <=> Waits(frame, g)
           /\ \A defs, f : Flagged(defs, f)' <=> Flagged(defs, f)
<1>1. \A defs, f : Flagged(defs, f)' <=> Flagged(defs, f)
  BY DEF Flagged
<1>2. \A frame : Held(frame)' <=> Held(frame)
  BY SameFiles DEF Held, Flagged
<1>3. \A frame, g : Waits(frame, g)' <=> Waits(frame, g)
  BY SameFiles DEF Waits, PathSet
<1> QED
  BY <1>1, <1>2, <1>3

LEMMA SameMerges ==
    ASSUME fs' = fs, incoming' = incoming
    PROVE  \A frame : Merges(frame)' <=> Merges(frame)
BY SameFiles DEF Merges, PathSet

LEMMA EmptyPaths == PathSet(<< >>) = {} /\ Faithful(<< >>) /\ \A f : Flagged(<< >>, f)
BY DEF PathSet, Faithful, Flagged

\* A call that starts has its file's definitions.
LEMMA OwnHeld ==
    ASSUME fs \in Schemas, NEW f \in Reach(Root)
    PROVE  /\ f \in DOMAIN fs
           /\ Held(Call(f)) /\ PathSet(Call(f).defs) = Before(f, 1)
           /\ PathsOf(f) \subseteq PathSet(Call(f).defs)
           /\ Call(f).file = f /\ Call(f).next = 1
<1>1. f \in DOMAIN fs
  BY DEF Reach
<1>2. /\ DOMAIN OwnDefs(f) = DOMAIN fs[f].defs
      /\ \A i \in DOMAIN OwnDefs(f) :
            /\ OwnDefs(f)[i].path = <<f, i>>
            /\ OwnDefs(f)[i].package = fs[f].package
            /\ OwnDefs(f)[i].imported = FALSE
  BY <1>1, OwnFacts
<1>3. Call(f).file = f /\ Call(f).defs = OwnDefs(f) /\ Call(f).next = 1
  BY <1>1, OwnSourced
<1> DEFINE own == OwnDefs(f)
<1> HIDE DEF own
<1>4. PathSet(own) = PathsOf(f)
  BY <1>2 DEF PathSet, PathsOf, own
<1>5. \A i \in DOMAIN own : own[i].path[1] = f
  <2> SUFFICES ASSUME NEW i \in DOMAIN own
               PROVE  own[i].path[1] = f
    OBVIOUS
  <2>1. own[i].path = <<f, i>>
    BY <1>2 DEF own
  <2> QED
    BY <2>1
<1>6. Faithful(own)
  <2> SUFFICES ASSUME NEW i \in DOMAIN own
               PROVE  own[i].package = fs[own[i].path[1]].package
    BY DEF Faithful
  <2>1. own[i].package = fs[f].package
    BY <1>2 DEF own
  <2> QED
    BY <1>5, <2>1
<1>7. Flagged(own, f)
  BY <1>2, <1>5 DEF Flagged, own
<1>8. Len(fs[f].imports) \in Nat
  BY <1>1, ResolverAssumption, WrittenFacts, SeqFacts
<1>9. Held(Call(f))
  BY <1>3, <1>6, <1>7, <1>8 DEF Held, own
<1> QED
  BY <1>1, <1>3, <1>4, <1>9, BeforeFirst DEF own

LEMMA CoverInit == Init => CoverInv
<1> SUFFICES ASSUME Init
             PROVE  CoverInv
  OBVIOUS
<1>1. fs \in Schemas /\ Root \in DOMAIN fs /\ Root \in Reach(Root)
  BY ResolverAssumption, ReachLeast DEF Init
<1>2. stack = <<Call(Root)>> /\ desc = NoDesc /\ desc.defs = << >> /\ incoming = << >>
  BY DEF Init, NoDesc
<1>3. DOMAIN stack = {1} /\ stack[1] = Call(Root) /\ Len(stack) = 1
  BY <1>2
<1>4. Below = {} /\ Top = Call(Root)
  BY <1>3 DEF Below, Top
<1>5. Merges(Top)
  BY <1>1, <1>2, <1>4, OwnHeld, EmptyPaths DEF Merges
<1>6. Held(Call(Root))
  BY <1>1, OwnHeld
<1> QED
  BY <1>2, <1>3, <1>4, <1>5, <1>6, EmptyPaths DEF CoverInv

LEMMA CoverOpen ==
    ASSUME IInv, CoverInv, OpenImport
    PROVE  CoverInv'
<1>1. /\ Running /\ incoming = << >> /\ desc = NoDesc /\ MoreImports
      /\ UNCHANGED <<fs, incoming, desc, outcome>>
  BY OpenImportDoes
<1>2. PICK g \in Matches(Top.file, Import) :
        /\ g \in DOMAIN fs
        /\ IsSeq(stack') /\ Len(stack') = Len(stack) + 1
        /\ DOMAIN stack' = 1..(Len(stack) + 1)
        /\ \A n \in Below : stack'[n] = stack[n]
        /\ stack'[Len(stack)] = Frame(Top.file, Top.defs, Top.next + 1)
        /\ stack'[Len(stack) + 1] = Call(g)
  BY OpenImportDoes
<1>3. /\ Len(stack) \in Nat \ {0} /\ Len(stack) \in DOMAIN stack /\ Below \subseteq DOMAIN stack
      /\ Top = stack[Len(stack)] /\ DOMAIN stack = 1..Len(stack) /\ Below = 1..(Len(stack) - 1)
  BY <1>1, TopThere DEF Below
<1>4. Held(Top) /\ Merges(Top)
  <2>1. stack # << >>
    BY <1>1 DEF IInv
  <2> QED
    BY <1>1, <1>3, <2>1 DEF CoverInv
<1> DEFINE frame == Frame(Top.file, Top.defs, Top.next + 1)
<1>5. frame.file = Top.file /\ frame.defs = Top.defs /\ frame.next = Top.next + 1
  BY FrameFacts
<1>6. /\ Top.file \in Reach(Root) /\ Root \in DOMAIN fs /\ Top.file \in DOMAIN fs
      /\ Len(fs[Top.file].imports) \in Nat
      /\ Top.next \in 1..Len(fs[Top.file].imports)
      /\ Import \in ToSet(fs[Top.file].imports)
  <2>1. Top.file \in Reach(Root) /\ Root \in DOMAIN fs /\ Top.file \in DOMAIN fs
    BY <1>4, ResolverAssumption DEF Held, Reach, IInv
  <2>2. IsSeq(fs[Top.file].imports)
    BY <2>1, ResolverAssumption, WrittenFacts DEF IInv
  <2>3. Len(fs[Top.file].imports) \in Nat /\ DOMAIN fs[Top.file].imports = 1..Len(fs[Top.file].imports)
    BY <2>2, SeqFacts
  <2>4. Top.next \in 1..Len(fs[Top.file].imports)
    BY <1>1, <1>4, <2>3 DEF Held, MoreImports
  <2> QED
    BY <2>1, <2>3, <2>4 DEF Import, ToSet
<1>7. g \in Reach(Root)
  <2>1. g \in Imports(Top.file)
    BY <1>6, ImportsAre
  <2> QED
    BY <1>6, <2>1, ReachThrough
<1> HIDE DEF frame
<1>8. Held(frame)
  BY <1>4, <1>5, <1>6 DEF Held
<1>9. Waits(frame, g)
  <2>1. frame.next - 1 = Top.next
    BY <1>5, <1>6
  <2>2. PathSet(Top.defs) = Before(Top.file, Top.next)
    BY <1>1, <1>4, EmptyPaths DEF Merges
  <2>3. g \in Matches(frame.file, fs[frame.file].imports[frame.next - 1])
    BY <1>2, <1>5, <2>1 DEF Import
  <2> QED
    BY <1>5, <1>6, <2>1, <2>2, <2>3 DEF Waits
<1>10. stack'[Len(stack)] = frame
  BY <1>2 DEF frame
<1>11. ASSUME NEW n \in DOMAIN stack'
       PROVE  Held(stack'[n])
  <2>1. CASE n \in Below
    BY <1>2, <1>3, <2>1 DEF CoverInv
  <2>2. CASE n = Len(stack)
    BY <1>8, <1>10, <2>2
  <2>3. CASE n = Len(stack) + 1
    BY <1>2, <1>7, <2>3, OwnHeld DEF IInv
  <2> QED
    BY <1>2, <1>3, <2>1, <2>2, <2>3
<1>12. Below' = 1..Len(stack)
  BY <1>2, <1>3 DEF Below
<1>13. Call(g).file = g /\ Call(g).next = 1 /\ PathSet(Call(g).defs) = Before(g, 1)
       /\ PathsOf(g) \subseteq PathSet(Call(g).defs)
  BY <1>7, OwnHeld DEF IInv
<1>14. ASSUME NEW n \in Below'
       PROVE  Waits(stack'[n], stack'[n + 1].file)
  <2>1. CASE n = Len(stack)
    BY <1>2, <1>9, <1>10, <1>13, <2>1
  <2>2. CASE n # Len(stack)
    <3>0. n \in 1..Len(stack)
      BY <1>12
    <3>1. n \in Below
      <4>1. Len(stack) \in Nat
        BY <1>3
      <4> QED
        BY <2>2, <3>0, <4>1 DEF Below
    <3>2. Waits(stack[n], stack[n + 1].file)
      BY <3>1 DEF CoverInv
    <3>3. stack'[n] = stack[n]
      BY <1>2, <3>1
    <3>4. stack'[n + 1].file = stack[n + 1].file
      <4>1. CASE n + 1 \in Below
        BY <1>2, <4>1
      <4>2. CASE n + 1 = Len(stack)
        BY <1>3, <1>5, <1>10, <4>2
      <4> QED
        BY <1>3, <3>1, <4>1, <4>2
    <3> QED
      BY <3>2, <3>3, <3>4
  <2> QED
    BY <2>1, <2>2
<1>15. Top' = Call(g)
  BY <1>2 DEF Top
<1>16. Merges(Call(g))
  BY <1>1, <1>13, EmptyPaths DEF Merges
<1>17. (IF desc = NoDesc THEN Merges(Top) ELSE Waits(Top, desc.file))'
  <2>1. desc' = NoDesc
    BY <1>1
  <2>2. PICK call : call = Call(g)
    OBVIOUS
  <2>3. Merges(Top)'
    <3>1. Merges(call)'
      BY <1>1, <1>16, <2>2, SameMerges
    <3> QED
      BY <1>15, <2>2, <3>1 DEF Merges
  <2> QED
    BY <2>1, <2>3
<1>18. (\A n \in DOMAIN stack : Held(stack[n]))'
  BY <1>1, <1>11, SameFrames
<1>19. (\A n \in Below : Waits(stack[n], stack[n + 1].file))'
  BY <1>1, <1>14, SameFrames
<1> QED
  BY <1>1, <1>17, <1>18, <1>19, SameFiles, SameFrames DEF CoverInv

\* Turning names into indices changes none of this.
LEMMA ResolvedPaths ==
    ASSUME NEW defs
    PROVE  /\ PathSet(Resolved(defs)) = PathSet(defs)
           /\ Faithful(defs) => Faithful(Resolved(defs))
           /\ \A f : Flagged(defs, f) => Flagged(Resolved(defs), f)
<1> DEFINE new == Resolved(defs)
<1>1. /\ DOMAIN new = DOMAIN defs
      /\ \A i \in DOMAIN defs : /\ new[i].path = defs[i].path /\ new[i].package = defs[i].package
                                /\ new[i].imported = defs[i].imported
  BY ResolvedFacts
<1> HIDE DEF new
<1>2. PathSet(new) = PathSet(defs)
  BY <1>1 DEF PathSet
<1>3. Faithful(defs) => Faithful(new)
  BY <1>1 DEF Faithful
<1>4. \A f : Flagged(defs, f) => Flagged(new, f)
  BY <1>1 DEF Flagged
<1> QED
  BY <1>2, <1>3, <1>4 DEF new

LEMMA CoverReturn ==
    ASSUME IInv, CoverInv, Return
    PROVE  CoverInv'
<1>1. /\ Running /\ incoming = << >> /\ desc = NoDesc /\ ~MoreImports
      /\ UNCHANGED <<fs, incoming>>
      /\ desc' = [defs |-> Resolved(Top.defs), file |-> Top.file]
      /\ IsSeq(stack') /\ Len(stack') = Len(stack) - 1
      /\ DOMAIN stack' = Below /\ \A n \in Below : stack'[n] = stack[n]
  BY ReturnDoes
<1>2. /\ Len(stack) \in Nat \ {0} /\ Len(stack) \in DOMAIN stack /\ Below \subseteq DOMAIN stack
      /\ Top = stack[Len(stack)] /\ DOMAIN stack = 1..Len(stack) /\ Below = 1..(Len(stack) - 1)
  BY <1>1, TopThere DEF Below
<1>3. Held(Top) /\ Merges(Top)
  <2>1. stack # << >>
    BY <1>1 DEF IInv
  <2> QED
    BY <1>1, <1>2, <2>1 DEF CoverInv
<1>4. /\ Top.file \in Reach(Root) /\ Top.file \in DOMAIN fs
      /\ Top.file # << >>
      /\ Top.next \in 1..(Len(fs[Top.file].imports) + 1) /\ Top.next > Len(fs[Top.file].imports)
  <2>1. Top.file \in Reach(Root) /\ Top.file \in DOMAIN fs
    BY <1>3 DEF Held, Reach
  <2>2. Top.file # << >> /\ IsSeq(fs[Top.file].imports)
    BY <2>1, ResolverAssumption, WrittenFacts DEF IInv
  <2>3. Len(fs[Top.file].imports) \in Nat
    BY <2>2, SeqFacts
  <2> QED
    BY <1>1, <1>3, <2>1, <2>2, <2>3 DEF Held, MoreImports
<1>5. PathSet(Top.defs) = PathsFrom(Top.file)
  BY <1>1, <1>3, <1>4, EmptyPaths, BeforeAll DEF Merges, IInv
<1>6. desc'.defs = Resolved(Top.defs) /\ desc'.file = Top.file
  BY <1>1
<1>7. desc' # NoDesc
  BY <1>4, <1>6 DEF NoDesc
<1>8. PathSet(desc'.defs) = PathsFrom(desc'.file) /\ Faithful(desc'.defs) /\ Flagged(desc'.defs, desc'.file)
  BY <1>3, <1>5, <1>6, ResolvedPaths DEF Held
<1>9. \A n \in DOMAIN stack' : Held(stack'[n])
  BY <1>1, <1>2 DEF CoverInv
<1>10. Below' = 1..(Len(stack) - 2)
  BY <1>1, <1>2 DEF Below
<1>11. ASSUME NEW n \in Below'
       PROVE  Waits(stack'[n], stack'[n + 1].file)
  <2>1. n \in Below /\ n + 1 \in Below
    BY <1>2, <1>10
  <2> QED
    BY <1>1, <2>1 DEF CoverInv
<1>12. ASSUME stack' # << >>
       PROVE  Waits(Top', desc'.file)
  <2>1. Len(stack) - 1 \in Below
    <3>1. Len(stack') # 0
      BY <1>1, <1>12, SeqFacts DEF IsSeq
    <3> QED
      BY <1>1, <1>2, <3>1
  <2>2. Top' = stack[Len(stack) - 1]
    BY <1>1, <2>1 DEF Top
  <2>3. Waits(stack[Len(stack) - 1], stack[Len(stack)].file)
    <3>1. Len(stack) - 1 + 1 = Len(stack)
      BY <1>2
    <3>2. \A n \in Below : Waits(stack[n], stack[n + 1].file)
      BY DEF CoverInv
    <3> QED
      BY <2>1, <3>1, <3>2
  <2> QED
    BY <1>2, <1>6, <2>2, <2>3
<1>13. (\A n \in DOMAIN stack : Held(stack[n]))' /\ (\A n \in Below : Waits(stack[n], stack[n + 1].file))'
  BY <1>1, <1>9, <1>11, SameFrames
<1>14. (stack # << >> => IF desc = NoDesc THEN Merges(Top) ELSE Waits(Top, desc.file))'
  BY <1>1, <1>7, <1>12, SameFrames
<1>15. (desc # NoDesc => /\ desc.file \in Reach(Root) /\ incoming = << >>
                         /\ PathSet(desc.defs) = PathsFrom(desc.file))'
  <2>1. PathSet(desc.defs)' = PathsFrom(desc'.file)
    BY <1>8 DEF PathSet
  <2>2. desc'.file \in Reach(Root)
    BY <1>4, <1>6
  <2> QED
    BY <1>1, <2>1, <2>2, SameFiles
<1>16. (Faithful(desc.defs) /\ Flagged(desc.defs, desc.file))'
  BY <1>1, <1>8, SameFiles, SameFrames
<1>17. (Faithful(incoming) /\ \A i \in DOMAIN incoming : incoming[i].imported = TRUE)'
  BY <1>1, SameFiles DEF CoverInv
<1> QED
  BY <1>13, <1>14, <1>15, <1>16, <1>17 DEF CoverInv

LEMMA CoverReceive ==
    ASSUME IInv, SourceInv, Packaged, CoverInv, Receive
    PROVE  CoverInv'
<1>1. /\ Running /\ desc # NoDesc /\ UNCHANGED <<fs, stack, outcome>> /\ desc' = NoDesc
      /\ IsSeq(incoming') /\ DOMAIN incoming' = DOMAIN desc.defs
      /\ \A i \in DOMAIN desc.defs :
            incoming'[i] = Adopted(Unresolved(desc.defs)[i], fs[desc.file].package)
  BY ReceiveDoes
<1>2. /\ Len(stack) \in Nat \ {0} /\ Len(stack) \in DOMAIN stack /\ Top = stack[Len(stack)]
      /\ stack # << >>
  BY <1>1, TopThere DEF IInv
<1>3. /\ Waits(Top, desc.file) /\ Held(Top) /\ desc.file \in Reach(Root) /\ incoming = << >>
      /\ PathSet(desc.defs) = PathsFrom(desc.file) /\ Faithful(desc.defs)
  BY <1>1, <1>2 DEF CoverInv
<1> DEFINE defs == desc.defs
           package == fs[desc.file].package
<1>4. ASSUME NEW i \in DOMAIN defs
      PROVE  /\ incoming'[i].path = defs[i].path
             /\ incoming'[i].package = (IF defs[i].package = << >> THEN package ELSE defs[i].package)
             /\ incoming'[i].imported = TRUE
  <2>1. incoming'[i] = Adopted(Unresolved(defs)[i], package)
    BY <1>1
  <2> HIDE DEF defs, package
  <2>2. ReceivedAs(incoming'[i], defs, defs[i], package)
    BY <2>1, ReceivedFacts
  <2> QED
    BY <2>2 DEF ReceivedAs
<1>5. PathSet(incoming)' = PathsFrom(desc.file)
  BY <1>1, <1>3, <1>4 DEF PathSet
<1>6. (\A i \in DOMAIN incoming : incoming[i].imported = TRUE)'
  BY <1>1, <1>4
<1>7. Faithful(incoming)'
  <2> SUFFICES ASSUME NEW i \in DOMAIN defs
               PROVE  incoming'[i].package = fs[incoming'[i].path[1]].package
    BY <1>1 DEF Faithful
  <2>1. defs[i].package = fs[defs[i].path[1]].package
    BY <1>3 DEF Faithful
  <2>2. defs[i].package = << >> => package = << >>
    <3> DEFINE g == defs[i].path[1]
    <3>1. defs[i].path \in PathsFrom(desc.file)
      BY <1>3 DEF PathSet
    <3>2. PICK h \in Reach(desc.file) : defs[i].path \in PathsOf(h)
      BY <3>1 DEF PathsFrom
    <3>3. g = h /\ fs[h].defs # << >>
      BY <3>2 DEF PathsOf
    <3> QED
      BY <1>3, <2>1, <3>2, <3>3 DEF Packaged
  <2> HIDE DEF defs, package
  <2> QED
    BY <1>4, <2>1, <2>2
<1>8. PathsOf(Top.file) \subseteq PathSet(Top.defs)
      /\ PathSet(Top.defs) \cup PathsFrom(desc.file) = Before(Top.file, Top.next)
  <2>1. /\ Top.next - 1 \in Nat \ {0}
        /\ desc.file \in Matches(Top.file, fs[Top.file].imports[Top.next - 1])
        /\ PathSet(Top.defs) = Before(Top.file, Top.next - 1)
    BY <1>3 DEF Waits
  <2>2. Top.next \in Nat
    BY <1>3 DEF Held
  <2>3. Before(Top.file, Top.next) = Before(Top.file, Top.next - 1) \cup PathsFrom(desc.file)
    BY <2>1, <2>2, BeforeNext
  <2>4. PathsOf(Top.file) \subseteq Before(Top.file, Top.next - 1)
    BY DEF Before
  <2> QED
    BY <2>1, <2>3, <2>4
<1>9. Top' = Top
  BY <1>1 DEF Top
<1>10. Merges(Top)'
  <2>1. PathSet(Top.defs)' = PathSet(Top.defs)
    BY <1>9 DEF PathSet
  <2>2. Before(Top.file, Top.next)' = Before(Top.file, Top.next) /\ PathsOf(Top.file)' = PathsOf(Top.file)
    BY <1>1, <1>9, SameFiles
  <2> QED
    BY <1>5, <1>8, <2>1, <2>2 DEF Merges
<1>11. (\A n \in DOMAIN stack : Held(stack[n]))' /\ (\A n \in Below : Waits(stack[n], stack[n + 1].file))'
  BY <1>1, SameFrames DEF CoverInv, Below
<1>12. desc'.defs = << >>
  BY <1>1 DEF NoDesc
<1>13. (Faithful(desc.defs) /\ Flagged(desc.defs, desc.file))'
  BY <1>1, <1>12, EmptyPaths, SameFiles, SameFrames
<1> QED
  BY <1>1, <1>6, <1>7, <1>10, <1>11, <1>13 DEF CoverInv

LEMMA CoverMerge ==
    ASSUME IInv, SourceInv, UniqueUnits, CoverInv, MergeNext
    PROVE  CoverInv'
<1> DEFINE d == incoming[1]
           defs == Top.defs
           f == Top.file
           new == IF IsMerged(d, defs) THEN defs ELSE Append(defs, d)
<1>1. /\ Running /\ incoming # << >> /\ UNCHANGED <<fs, desc, outcome>>
      /\ IsSeq(stack') /\ DOMAIN stack' = DOMAIN stack /\ Len(stack') = Len(stack)
      /\ \A n \in Below : stack'[n] = stack[n]
      /\ stack'[Len(stack)].file = f /\ stack'[Len(stack)].next = Top.next
      /\ stack'[Len(stack)].defs = new
      /\ 1 \in DOMAIN incoming
      /\ \A i \in DOMAIN incoming' : i + 1 \in DOMAIN incoming /\ incoming'[i] = incoming[i + 1]
      /\ \A i \in DOMAIN incoming : i = 1 \/ (i - 1 \in DOMAIN incoming')
  BY MergeNextDoes
<1>2. /\ Len(stack) \in Nat \ {0} /\ Len(stack) \in DOMAIN stack /\ Below \subseteq DOMAIN stack
      /\ Top = stack[Len(stack)] /\ DOMAIN stack = 1..Len(stack) /\ Below = 1..(Len(stack) - 1)
      /\ stack # << >>
  BY <1>1, TopThere DEF Below, IInv
<1>3. desc = NoDesc
  BY <1>1 DEF CoverInv
<1>4. Held(Top) /\ Merges(Top)
  BY <1>2, <1>3 DEF CoverInv
<1>5. /\ f \in Reach(Root) /\ f \in DOMAIN fs /\ Root \in DOMAIN fs /\ Faithful(defs) /\ Flagged(defs, f)
      /\ Top.next \in 1..(Len(fs[f].imports) + 1)
  BY <1>4, ResolverAssumption DEF Held, Reach, IInv
<1>6. PathSet(defs) \cup PathSet(incoming) \subseteq PathsFrom(Root)
  <2>1. Before(f, Top.next) \subseteq PathsFrom(f)
    BY <1>5, BeforeAll DEF IInv
  <2>2. PathsFrom(f) \subseteq PathsFrom(Root)
    BY <1>5, ReachThrough
  <2> QED
    BY <1>4, <2>1, <2>2 DEF Merges
<1>7. /\ Sourced(d) /\ 1 \in DOMAIN d.parts /\ d.package = fs[d.path[1]].package
      /\ d.path \in PathsFrom(Root) /\ d.imported = TRUE
  <2>1. Sourced(d) /\ 1 \in DOMAIN d.parts
    BY <1>1 DEF SourceInv, AllSourced, IInv, Arriving, HasItself
  <2>2. d.package = fs[d.path[1]].package /\ d.imported = TRUE
    BY <1>1 DEF CoverInv, Faithful
  <2>3. d.path \in PathsFrom(Root)
    BY <1>1, <1>6 DEF PathSet
  <2> QED
    BY <2>1, <2>2, <2>3
<1>8. ASSUME NEW i \in DOMAIN defs
      PROVE  Key(defs[i]) = Key(d) <=> defs[i].path = d.path
  <2> DEFINE e == defs[i]
  <2>1. Sourced(e) /\ 1 \in DOMAIN e.parts
    <3>1. AllSourced(defs) /\ HasItself(defs)
      BY <1>2 DEF SourceInv, IInv, Listed
    <3> QED
      BY <3>1 DEF AllSourced, HasItself
  <2>2. e.package = fs[e.path[1]].package
    BY <1>5 DEF Faithful
  <2>3. e.path \in PathsFrom(Root)
    BY <1>6 DEF PathSet
  <2> HIDE DEF e, d
  <2>4. Key(e) = Key(d) <=> e.path = d.path
    BY <1>7, <2>1, <2>2, <2>3, KeyIsPath
  <2> QED
    BY <2>4 DEF e
<1>9. IsMerged(d, defs) <=> d.path \in PathSet(defs)
  BY <1>8 DEF IsMerged, PathSet
<1>10. /\ DOMAIN Append(defs, d) = 1..(Len(defs) + 1)
       /\ \A i \in 1..Len(defs) : Append(defs, d)[i] = defs[i]
       /\ Append(defs, d)[Len(defs) + 1] = d
       /\ Len(defs) \in Nat /\ DOMAIN defs = 1..Len(defs)
  <2>1. IsSeq(defs)
    BY <1>2 DEF IInv, Listed
  <2> HIDE DEF defs, d
  <2> QED
    BY <2>1, AppendFacts, SeqFacts
<1> HIDE DEF defs, d, f
<1>11. \A i \in DOMAIN Append(defs, d) : (i \in DOMAIN defs /\ Append(defs, d)[i] = defs[i])
                                         \/ Append(defs, d)[i] = d
  BY <1>10
<1>12. /\ DOMAIN defs \subseteq DOMAIN Append(defs, d) /\ Len(defs) + 1 \in DOMAIN Append(defs, d)
       /\ \A i \in DOMAIN defs : Append(defs, d)[i] = defs[i]
  BY <1>10
<1>13. PathSet(Append(defs, d)) = PathSet(defs) \cup {d.path} /\ Faithful(Append(defs, d))
  <2>1. \A p \in PathSet(Append(defs, d)) : p \in PathSet(defs) \cup {d.path}
    BY <1>11 DEF PathSet
  <2>2. PathSet(defs) \cup {d.path} \subseteq PathSet(Append(defs, d))
    BY <1>10, <1>12 DEF PathSet
  <2>3. Faithful(Append(defs, d))
    BY <1>5, <1>7, <1>11 DEF Faithful
  <2> QED
    BY <2>1, <2>2, <2>3
<1>14. ~IsMerged(d, defs) => Flagged(Append(defs, d), f)
  <2> SUFFICES ASSUME ~IsMerged(d, defs)
               PROVE  Flagged(Append(defs, d), f)
    OBVIOUS
  <2>1. d.path[1] # f
    <3> SUFFICES ASSUME d.path[1] = f
                 PROVE  FALSE
      OBVIOUS
    <3>1. d.path = <<d.path[1], d.path[2]>> /\ d.path[2] \in DOMAIN fs[f].defs
      BY <1>7 DEF Sourced, IsPath
    <3>2. d.path \in PathsOf(f)
      BY <3>1 DEF PathsOf
    <3>3. PathsOf(f) \subseteq PathSet(defs)
      BY <1>4 DEF Merges, defs, f
    <3> QED
      BY <1>9, <3>2, <3>3
  <2> QED
    BY <1>5, <1>7, <1>11, <2>1 DEF Flagged
<1>15. /\ PathSet(new) = PathSet(defs) \cup {d.path}
       /\ Faithful(new) /\ Flagged(new, f)
  <2>1. CASE IsMerged(d, defs)
    BY <1>5, <1>9, <2>1
  <2>2. CASE ~IsMerged(d, defs)
    BY <1>13, <1>14, <2>2
  <2> QED
    BY <2>1, <2>2
<1> HIDE DEF new
<1>16. PathSet(incoming) = PathSet(incoming)' \cup {d.path}
  <2>1. \A p \in PathSet(incoming) : p \in PathSet(incoming)' \cup {d.path}
    <3> SUFFICES ASSUME NEW i \in DOMAIN incoming, i # 1
                 PROVE  incoming[i].path \in PathSet(incoming)'
      BY DEF PathSet, d
    <3>1. i - 1 \in DOMAIN incoming'
      BY <1>1
    <3>2. incoming'[i - 1] = incoming[i - 1 + 1] /\ i - 1 + 1 = i
      <4>1. i \in Nat
        BY SeqFacts DEF IInv, Arriving
      <4> QED
        BY <1>1, <3>1, <4>1
    <3> QED
      BY <3>1, <3>2 DEF PathSet
  <2>2. PathSet(incoming)' \subseteq PathSet(incoming)
    BY <1>1 DEF PathSet
  <2>3. d.path \in PathSet(incoming)
    BY <1>1 DEF PathSet, d
  <2> QED
    BY <2>1, <2>2, <2>3
<1>17. Faithful(incoming)' /\ (\A i \in DOMAIN incoming : incoming[i].imported = TRUE)'
  BY <1>1 DEF Faithful, CoverInv
<1> DEFINE frame == stack'[Len(stack)]
<1>18. frame.file = f /\ frame.next = Top.next /\ frame.defs = new
  BY <1>1
<1> HIDE DEF frame
<1>19. Held(frame)
  BY <1>5, <1>15, <1>18 DEF Held
<1>20. PathSet(frame.defs) \cup PathSet(incoming)' = Before(frame.file, frame.next)
       /\ PathsOf(frame.file) \subseteq PathSet(frame.defs)
  BY <1>4, <1>15, <1>16, <1>18 DEF Merges, defs, f
<1>21. \A n \in DOMAIN stack' : Held(stack'[n])
  <2> SUFFICES ASSUME NEW n \in DOMAIN stack'
               PROVE  Held(stack'[n])
    OBVIOUS
  <2>1. CASE n \in Below
    BY <1>1, <2>1 DEF CoverInv
  <2>2. CASE n = Len(stack)
    BY <1>19, <2>2 DEF frame
  <2> QED
    BY <1>1, <1>2, <2>1, <2>2
<1>22. Below' = Below
  BY <1>1 DEF Below
<1>23. ASSUME NEW n \in Below
       PROVE  Waits(stack'[n], stack'[n + 1].file)
  <2>1. Waits(stack[n], stack[n + 1].file) /\ stack'[n] = stack[n]
    BY <1>1 DEF CoverInv
  <2>2. stack'[n + 1].file = stack[n + 1].file
    <3>1. CASE n + 1 \in Below
      BY <1>1, <3>1
    <3>2. CASE n + 1 = Len(stack)
      BY <1>1, <1>2, <3>2 DEF f
    <3> QED
      BY <1>2, <3>1, <3>2
  <2> QED
    BY <2>1, <2>2
<1>24. Top' = frame
  BY <1>1 DEF Top, frame
<1>25. Merges(Top)'
  <2> PICK call : call = frame
    OBVIOUS
  <2>1. PathSet(call.defs) \cup PathSet(incoming)' = Before(call.file, call.next)
        /\ PathsOf(call.file) \subseteq PathSet(call.defs)
    BY <1>20
  <2>2. /\ Before(call.file, call.next)' = Before(call.file, call.next)
        /\ PathsOf(call.file)' = PathsOf(call.file)
    BY <1>1, SameFiles
  <2>3. PathSet(call.defs)' = PathSet(call.defs)
    BY DEF PathSet
  <2>4. Merges(call)'
    BY <2>1, <2>2, <2>3 DEF Merges
  <2> QED
    BY <1>24, <2>4 DEF Merges
<1>26. (\A n \in DOMAIN stack : Held(stack[n]))' /\ (\A n \in Below : Waits(stack[n], stack[n + 1].file))'
  BY <1>1, <1>21, <1>22, <1>23, SameFrames
<1>27. (stack # << >> => IF desc = NoDesc THEN Merges(Top) ELSE Waits(Top, desc.file))'
  BY <1>1, <1>3, <1>25
<1>28. (Faithful(desc.defs) /\ Flagged(desc.defs, desc.file))'
  BY <1>1, SameFiles, SameFrames DEF CoverInv
<1>29. desc' = NoDesc
  BY <1>1, <1>3
<1> QED
  BY <1>17, <1>26, <1>27, <1>28, <1>29 DEF CoverInv

LEMMA CoverStep == IInv /\ SourceInv /\ Packaged /\ UniqueUnits /\ CoverInv /\ [Next]_vars => CoverInv'
<1> SUFFICES ASSUME IInv, SourceInv, Packaged, UniqueUnits, CoverInv, [Next]_vars
             PROVE  CoverInv'
  OBVIOUS
<1>1. CASE Halts
  <2>1. UNCHANGED <<fs, stack, incoming, desc>>
    BY <1>1, HaltsKeeps
  <2>2. Top' = Top /\ Below' = Below
    BY <2>1 DEF Top, Below
  <2>3. (\A n \in DOMAIN stack : Held(stack[n]))' /\ (\A n \in Below : Waits(stack[n], stack[n + 1].file))'
    BY <2>1, <2>2, SameFrames DEF CoverInv
  <2>4. (stack # << >> => IF desc = NoDesc THEN Merges(Top) ELSE Waits(Top, desc.file))'
    BY <2>1, <2>2, SameFrames, SameMerges DEF CoverInv
  <2>5. (desc # NoDesc => /\ desc.file \in Reach(Root) /\ incoming = << >>
                          /\ PathSet(desc.defs) = PathsFrom(desc.file))'
    BY <2>1, SameFiles DEF CoverInv, PathSet
  <2>6. (Faithful(desc.defs) /\ Flagged(desc.defs, desc.file))'
        /\ (Faithful(incoming) /\ \A i \in DOMAIN incoming : incoming[i].imported = TRUE)'
    BY <2>1, SameFiles, SameFrames DEF CoverInv
  <2> QED
    BY <2>3, <2>4, <2>5, <2>6 DEF CoverInv
<1> QED
  BY <1>1, Steps, CoverOpen, CoverReturn, CoverReceive, CoverMerge

LEMMA FilesStay == [Next]_vars => fs' = fs
BY DEF Next, OpenImport, Unreadable, ParsePanics, StackOverflow, ImportMissing, NameMissing,
       Refuse, Return, Receive, MergeNext, Fail, vars

LEMMA Covers == Spec => [](Packaged /\ UniqueUnits => CoverInv)
<1> DEFINE Inv == Packaged /\ UniqueUnits => CoverInv
<1>1. Init => Inv
  BY CoverInit
<1>2. IInv /\ SourceInv /\ Inv /\ [Next]_vars => Inv'
  BY CoverStep, FilesStay, SameFiles
<1> QED
  BY <1>1, <1>2, ListsInOrder, AllFromFiles, PTL DEF Spec

\* A list with a definition for each path has as many as there are paths.
LEMMA AsManyAsPaths ==
    ASSUME NEW defs, IsSeq(defs), \A i, j \in DOMAIN defs : defs[i].path = defs[j].path => i = j
    PROVE  Len(defs) = Cardinality(PathSet(defs))
<1>1. Len(defs) \in Nat /\ DOMAIN defs = 1..Len(defs)
  BY SeqFacts
<1> DEFINE S == 1..Len(defs)
           at == [i \in S |-> defs[i].path]
<1>2. IsFiniteSet(S) /\ Cardinality(S) = Len(defs)
  BY <1>1, FS_Interval
<1>3. at \in Bijection(S, PathSet(defs))
  BY <1>1 DEF PathSet, Bijection, Injection, Surjection, IsInjective
<1>4. ExistsBijection(S, PathSet(defs))
  BY <1>3 DEF ExistsBijection
<1> HIDE DEF S
<1> QED
  BY <1>2, <1>4, FS_Bijection

\* If packages tell definitions apart, a descriptor has every definition of the file and of all
\* it imports, directly or not, each once, and tells its own from imported ones, however the
\* imports overlap (types.rs:611-710).
THEOREM DescriptorComplete == Spec => [](Packaged /\ UniqueUnits => Complete)
<1>1. IInv /\ SourceInv /\ (Packaged /\ UniqueUnits => CoverInv) => (Packaged /\ UniqueUnits => Complete)
  <2> SUFFICES ASSUME IInv, SourceInv, CoverInv, desc # NoDesc
               PROVE  /\ {desc.defs[i].path : i \in DOMAIN desc.defs} = PathsFrom(desc.file)
                      /\ Len(desc.defs) = Cardinality(PathsFrom(desc.file))
                      /\ \A i \in DOMAIN desc.defs :
                            desc.defs[i].imported = (desc.defs[i].path[1] # desc.file)
    BY DEF Complete
  <2> DEFINE defs == desc.defs
  <2>1. PathSet(defs) = PathsFrom(desc.file) /\ Faithful(defs) /\ Flagged(defs, desc.file)
    BY DEF CoverInv
  <2>2. Returned(defs) /\ AllSourced(defs)
    BY DEF IInv, SourceInv
  <2> HIDE DEF defs
  <2>3. ASSUME NEW i \in DOMAIN defs, NEW j \in DOMAIN defs, defs[i].path = defs[j].path
        PROVE  i = j
    <3>1. /\ Sourced(defs[i]) /\ Sourced(defs[j])
          /\ 1 \in DOMAIN defs[i].parts /\ 1 \in DOMAIN defs[j].parts
      BY <2>2 DEF AllSourced, Returned, HasItself
    <3>2. defs[i].package = defs[j].package
      BY <2>1, <2>3 DEF Faithful
    <3>3. defs[i].parts[1].kind = defs[j].parts[1].kind /\ defs[i].parts[1].name = defs[j].parts[1].name
      BY <2>3, <3>1 DEF Sourced, SamePart
    <3>4. Key(defs[i]) = Key(defs[j])
      BY <3>2, <3>3 DEF Key
    <3> QED
      BY <2>2, <3>4 DEF Returned, DistinctKeys
  <2>4. Len(defs) = Cardinality(PathSet(defs))
    BY <2>2, <2>3, AsManyAsPaths DEF Returned
  <2>5. \A i \in DOMAIN defs : defs[i].imported = (defs[i].path[1] # desc.file)
    BY <2>1 DEF Flagged
  <2> QED
    BY <2>1, <2>4, <2>5 DEF PathSet, defs
<1> QED
  BY <1>1, ListsInOrder, AllFromFiles, Covers, PTL

-----------------------------------------------------------------------------
(* What a name means.                                                        *)

\* The items of the definitions at `paths`, and their full names.
ItemsIn(paths) == UNION {{<<p[1], p[2], j>> : j \in DOMAIN PartsOf(p)} : p \in paths}

NameOf(item) == fs[item[1]].package \o PartsOf(item)[item[3]].name

\* No two items have one full name, and none has a name that ends the other's.
Clear ==
    \A x, y \in ItemsIn(PathsFrom(Root)) : IsSuffix(NameOf(x), NameOf(y)) => x = y

LEMMA ItemIs ==
    ASSUME NEW paths, NEW y
    PROVE  y \in ItemsIn(paths) <=> \E p \in paths : \E j \in DOMAIN PartsOf(p) : y = <<p[1], p[2], j>>
BY DEF ItemsIn

\* A path of a file that the root leads to.
LEMMA PathsAre ==
    ASSUME NEW f \in DOMAIN fs, NEW p \in PathsFrom(f)
    PROVE  /\ IsPath(p) /\ p[1] \in Reach(f) /\ p[1] \in DOMAIN fs /\ p \in PathsOf(p[1])
<1>1. PICK g \in Reach(f) : p \in PathsOf(g)
  BY DEF PathsFrom
<1>2. PICK i \in DOMAIN fs[g].defs : p = <<g, i>>
  BY <1>1 DEF PathsOf
<1>3. p[1] = g /\ p[2] = i
  BY <1>2
<1>4. g \in DOMAIN fs
  BY ReachLeast DEF IsClosed
<1> QED
  BY <1>1, <1>2, <1>3, <1>4 DEF IsPath

\* What is declared under a name are the items of that name.
LEMMA DeclaredIs ==
    ASSUME NEW paths, NEW name, \A p \in paths : IsPath(p), NEW y
    PROVE  y \in DeclaredAs(paths, name) <=> y \in ItemsIn(paths) /\ NameOf(y) = name
<1> DEFINE named(p) == {j \in DOMAIN PartsOf(p) : fs[p[1]].package \o PartsOf(p)[j].name = name}
           of(p) == {<<p[1], p[2], j>> : j \in named(p)}
<1>1. y \in DeclaredAs(paths, name) <=>
         \E p \in paths : \E j \in DOMAIN PartsOf(p) :
            y = <<p[1], p[2], j>> /\ fs[p[1]].package \o PartsOf(p)[j].name = name
  <2>1. DeclaredAs(paths, name) = UNION {of(p) : p \in paths}
    BY DEF DeclaredAs
  <2>2. \A p : y \in of(p) <=> \E j \in DOMAIN PartsOf(p) :
            y = <<p[1], p[2], j>> /\ fs[p[1]].package \o PartsOf(p)[j].name = name
    OBVIOUS
  <2> HIDE DEF of
  <2> QED
    BY <2>1, <2>2
<1>2. ASSUME NEW p \in paths, NEW j \in DOMAIN PartsOf(p)
      PROVE  NameOf(<<p[1], p[2], j>>) = fs[p[1]].package \o PartsOf(p)[j].name
  <2> DEFINE z == <<p[1], p[2], j>>
  <2>1. z[1] = p[1] /\ z[2] = p[2] /\ z[3] = j
    OBVIOUS
  <2> HIDE DEF z
  <2>2. NameOf(z) = fs[p[1]].package \o PartsOf(p)[j].name
    BY <2>1 DEF NameOf, PartsOf
  <2> QED
    BY <2>2 DEF z
<1> HIDE DEF named, of
<1>3. ASSUME y \in DeclaredAs(paths, name)
      PROVE  y \in ItemsIn(paths) /\ NameOf(y) = name
  BY <1>1, <1>2, <1>3, ItemIs
<1>4. ASSUME y \in ItemsIn(paths), NameOf(y) = name
      PROVE  y \in DeclaredAs(paths, name)
  <2>1. PICK p \in paths : \E j \in DOMAIN PartsOf(p) : y = <<p[1], p[2], j>>
    BY <1>4, ItemIs
  <2>2. PICK j \in DOMAIN PartsOf(p) : y = <<p[1], p[2], j>>
    BY <2>1
  <2> QED
    BY <1>1, <1>2, <1>4, <2>2
<1> QED
  BY <1>3, <1>4

\* The names of items are sequences.
LEMMA NamesAreSeqs ==
    ASSUME fs \in Schemas, NEW f \in DOMAIN fs, NEW y \in ItemsIn(PathsFrom(f))
    PROVE  /\ IsSeq(NameOf(y)) /\ PartsOf(y)[y[3]].kind \in {"Message", "Enum"}
           /\ y[1] \in DOMAIN fs /\ y[2] \in DOMAIN fs[y[1]].defs /\ y[3] \in DOMAIN PartsOf(y)
<1>1. PICK p \in PathsFrom(f) : \E j \in DOMAIN PartsOf(p) : y = <<p[1], p[2], j>>
  BY ItemIs
<1>2. PICK j \in DOMAIN PartsOf(p) : y = <<p[1], p[2], j>>
  BY <1>1
<1>3. y[1] = p[1] /\ y[2] = p[2] /\ y[3] = j
  BY <1>2
<1>4. p[1] \in DOMAIN fs /\ p[2] \in DOMAIN fs[p[1]].defs
  BY PathsAre DEF IsPath
<1>5. PartsOf(y) = fs[p[1]].defs[p[2]] /\ PartsOf(p) = fs[p[1]].defs[p[2]]
  BY <1>3 DEF PartsOf
<1>6. /\ IsSeq(fs[p[1]].package) /\ IsSeq(fs[p[1]].defs[p[2]][j].name)
      /\ fs[p[1]].defs[p[2]][j].kind \in {"Message", "Enum"}
  BY <1>4, <1>5, ResolverAssumption, WrittenFacts
<1>7. IsSeq(NameOf(y))
  BY <1>3, <1>5, <1>6, ConcatFacts DEF NameOf
<1> QED
  BY <1>3, <1>4, <1>5, <1>6, <1>7

\* The item at a place of a list.
ItemAt(defs, x) == <<defs[x[1]].path[1], defs[x[1]].path[2], x[2]>>

\* A list of f's: it has what f leads to, in the packages of the files.
Whole(defs, f) == AllSourced(defs) /\ Faithful(defs) /\ PathSet(defs) = PathsFrom(f)

LEMMA PlacesAreItems ==
    ASSUME NEW defs, NEW f \in DOMAIN fs, Whole(defs, f)
    PROVE  /\ \A x \in Places(defs) :
                /\ ItemAt(defs, x) \in ItemsIn(PathsFrom(f))
                /\ NameOf(ItemAt(defs, x)) = FullName(defs[x[1]], x[2])
                /\ PartsOf(ItemAt(defs, x))[ItemAt(defs, x)[3]].kind = defs[x[1]].parts[x[2]].kind
           /\ \A y \in ItemsIn(PathsFrom(f)) : \E x \in Places(defs) : ItemAt(defs, x) = y
<1>1. ASSUME NEW i \in DOMAIN defs
      PROVE  /\ defs[i].path \in PathsFrom(f)
             /\ DOMAIN defs[i].parts = DOMAIN PartsOf(defs[i].path)
             /\ defs[i].package = fs[defs[i].path[1]].package
             /\ \A j \in DOMAIN defs[i].parts : SamePart(defs[i].parts[j], PartsOf(defs[i].path)[j])
  BY DEF Whole, AllSourced, Sourced, Faithful, PathSet
<1>2. ASSUME NEW i \in DOMAIN defs, NEW j \in DOMAIN defs[i].parts, NEW x, x = <<i, j>>
      PROVE  /\ ItemAt(defs, x) \in ItemsIn(PathsFrom(f))
             /\ NameOf(ItemAt(defs, x)) = FullName(defs[x[1]], x[2])
             /\ PartsOf(ItemAt(defs, x))[ItemAt(defs, x)[3]].kind = defs[x[1]].parts[x[2]].kind
  <2> DEFINE d == defs[i]
             y == ItemAt(defs, x)
  <2>1. x[1] = i /\ x[2] = j
    BY <1>2
  <2>2. y = <<d.path[1], d.path[2], j>>
    BY <2>1 DEF ItemAt
  <2>3. y[1] = d.path[1] /\ y[2] = d.path[2] /\ y[3] = j
    BY <2>2
  <2>4. PartsOf(y) = PartsOf(d.path)
    BY <2>3 DEF PartsOf
  <2>5. y \in ItemsIn(PathsFrom(f))
    BY <1>1, <2>2, ItemIs
  <2>6. SamePart(d.parts[j], PartsOf(d.path)[j])
    BY <1>1
  <2>7. NameOf(y) = d.package \o d.parts[j].name
    BY <1>1, <2>3, <2>4, <2>6 DEF NameOf, SamePart
  <2>8. PartsOf(y)[y[3]].kind = d.parts[j].kind
    BY <2>3, <2>4, <2>6 DEF SamePart
  <2> HIDE DEF d, y
  <2>9. FullName(d, j) = d.package \o d.parts[j].name
    BY DEF FullName
  <2> QED
    BY <2>1, <2>5, <2>7, <2>8, <2>9 DEF d, y
<1>3. ASSUME NEW y \in ItemsIn(PathsFrom(f))
      PROVE  \E x \in Places(defs) : ItemAt(defs, x) = y
  <2>1. PICK p \in PathsFrom(f) : \E j \in DOMAIN PartsOf(p) : y = <<p[1], p[2], j>>
    BY ItemIs
  <2>2. PICK j \in DOMAIN PartsOf(p) : y = <<p[1], p[2], j>>
    BY <2>1
  <2>3. PICK i \in DOMAIN defs : defs[i].path = p
    BY DEF Whole, PathSet
  <2>4. j \in DOMAIN defs[i].parts
    BY <1>1, <2>2, <2>3
  <2> DEFINE x == <<i, j>>
  <2>5. x \in Places(defs) /\ x[1] = i /\ x[2] = j
    BY <2>4, PlaceIs
  <2> HIDE DEF x
  <2>6. ItemAt(defs, x) = y
    BY <2>2, <2>3, <2>5 DEF ItemAt
  <2> QED
    BY <2>5, <2>6
<1> QED
  BY <1>2, <1>3, PlaceIs

\* So a name is defined in the list exactly if f's text and that of its imports declares it.
LEMMA DefinedIsDeclared ==
    ASSUME fs \in Schemas, NEW defs, NEW f \in DOMAIN fs, Whole(defs, f), NEW name
    PROVE  /\ IsDefined(defs, name) <=> DeclaredAs(PathsFrom(f), name) # {}
           /\ \A kind : \A x \in Named(defs, kind, name) :
                 ItemAt(defs, x) \in DeclaredAs(PathsFrom(f), name)
<1> DEFINE paths == PathsFrom(f)
<1>1. \A p \in paths : IsPath(p)
  BY PathsAre
<1>2. \A y : y \in DeclaredAs(paths, name) <=> y \in ItemsIn(paths) /\ NameOf(y) = name
  BY <1>1, DeclaredIs
<1>3. ASSUME NEW kind, NEW x \in Named(defs, kind, name)
      PROVE  ItemAt(defs, x) \in DeclaredAs(paths, name)
  <2>1. x \in Places(defs) /\ FullName(defs[x[1]], x[2]) = name
    BY DEF Named
  <2> QED
    BY <1>2, <2>1, PlacesAreItems
<1>4. ASSUME NEW y \in DeclaredAs(paths, name)
      PROVE  IsDefined(defs, name)
  <2>1. y \in ItemsIn(paths) /\ NameOf(y) = name
    BY <1>2
  <2>2. PICK x \in Places(defs) : ItemAt(defs, x) = y
    BY <2>1, PlacesAreItems
  <2>3. FullName(defs[x[1]], x[2]) = name /\ defs[x[1]].parts[x[2]].kind \in {"Message", "Enum"}
    BY <2>1, <2>2, PlacesAreItems, NamesAreSeqs
  <2> QED
    BY <2>2, <2>3 DEF IsDefined, Named
<1>5. IsDefined(defs, name) => DeclaredAs(paths, name) # {}
  BY <1>3 DEF IsDefined
<1> QED
  BY <1>3, <1>4, <1>5

\* The greatest of some numbers, if there is one.
LEMMA GreatestIs ==
    ASSUME NEW S, S \subseteq Nat, NEW m \in S, \A n \in S : n <= m
    PROVE  Max(S) = m
<1>1. \A y \in S : m >= y
  OBVIOUS
<1> DEFINE c == CHOOSE x \in S : \A y \in S : x >= y
<1>2. c \in S /\ \A y \in S : c >= y
  BY <1>1
<1>3. c >= m /\ m >= c /\ c \in Nat /\ m \in Nat
  BY <1>1, <1>2
<1>4. c = m
  BY <1>3
<1> QED
  BY <1>4 DEF Max

\* What a name means is an item that its file can see.
LEMMA MeaningIsSeen ==
    ASSUME NEW p, p[1] \in DOMAIN fs, NEW j, NEW typ, NEW y \in Meaning(p, j, typ)
    PROVE  y \in ItemsIn(PathsFrom(p[1]))
<1> DEFINE visible == PathsFrom(p[1])
           scope == fs[p[1]].package \o PartsOf(p)[j].name
           Seen(k) == DeclaredAs(visible, SubSeq(scope, 1, k) \o typ.name)
           depths == {k \in 0..Len(scope) : Seen(k) # {}}
<1>1. Meaning(p, j, typ) = IF typ.abs THEN DeclaredAs(visible, typ.name)
                           ELSE IF depths = {} THEN {} ELSE Seen(Max(depths))
  BY DEF Meaning
<1> HIDE DEF depths
<1>2. \E name : y \in DeclaredAs(visible, name)
  BY <1>1
<1>3. \A q \in visible : IsPath(q)
  BY PathsAre
<1> QED
  BY <1>2, <1>3, DeclaredIs

LEMMA Depths ==
    ASSUME NEW n \in Nat, NEW k \in 1..(n + 1)
    PROVE  /\ n + 1 - k \in 0..n /\ 0..n \subseteq Nat
           /\ \A m \in 0..n : ~(m <= n + 1 - k) =>
                 n + 1 - m \in 1..(k - 1) /\ n + 1 - m \in 1..(n + 1) /\ n + 1 - (n + 1 - m) = m
OBVIOUS

\* The first name that is defined, from the innermost scope on, is what the file means.
LEMMA OwnResolved ==
    ASSUME fs \in Schemas, NEW p, p[1] \in DOMAIN fs, NEW defs, Whole(defs, p[1]),
           NEW j, NEW typ, NEW scope, scope = fs[p[1]].package \o PartsOf(p)[j].name, IsSeq(scope),
           NEW k \in DOMAIN test_names(scope, typ), IsHit(defs, test_names(scope, typ), k),
           NEW kind, NEW x \in Named(defs, kind, test_names(scope, typ)[k])
    PROVE  ItemAt(defs, x) \in Meaning(p, j, typ)
<1> DEFINE visible == PathsFrom(p[1])
           Seen(m) == DeclaredAs(visible, SubSeq(scope, 1, m) \o typ.name)
           depths == {m \in 0..Len(scope) : Seen(m) # {}}
           names == test_names(scope, typ)
<1>1. Meaning(p, j, typ) = IF typ.abs THEN DeclaredAs(visible, typ.name)
                           ELSE IF depths = {} THEN {} ELSE Seen(Max(depths))
  BY DEF Meaning
<1>2. ItemAt(defs, x) \in DeclaredAs(visible, names[k])
  BY DefinedIsDeclared
<1>3. CASE typ.abs
  <2>1. names[k] = typ.name
    BY <1>3 DEF test_names
  <2> QED
    BY <1>1, <1>2, <1>3, <2>1
<1>4. CASE ~typ.abs
  <2>1. Len(scope) \in Nat
    BY SeqFacts
  <2>2. names = [h \in 1 .. Len(scope) + 1 |-> SubSeq(scope, 1, Len(scope) + 1 - h) \o typ.name]
    BY <1>4 DEF test_names
  <2>3. DOMAIN names = 1..(Len(scope) + 1)
        /\ \A h \in 1..(Len(scope) + 1) : names[h] = SubSeq(scope, 1, Len(scope) + 1 - h) \o typ.name
    BY <2>2
  <2> DEFINE m == Len(scope) + 1 - k
  <2>4. k \in 1..(Len(scope) + 1) /\ m \in 0..Len(scope)
    <3>1. k \in 1..(Len(scope) + 1)
      BY <2>3
    <3>2. m \in 0..Len(scope)
      BY ONLY <2>1, <3>1, Depths
    <3> QED
      BY <3>1, <3>2
  <2>5. ItemAt(defs, x) \in Seen(m)
    BY <1>2, <2>3, <2>4
  <2>6. m \in depths
    BY <2>4, <2>5
  <2>7. ASSUME NEW n \in depths, ~(n <= m)
        PROVE  FALSE
    <3> DEFINE h == Len(scope) + 1 - n
    <3>1. n \in 0..Len(scope) /\ Seen(n) # {}
      OBVIOUS
    <3>2. h \in 1..(k - 1) /\ h \in 1..(Len(scope) + 1) /\ Len(scope) + 1 - h = n
      BY ONLY <2>1, <2>4, <2>7, <3>1, Depths
    <3>3. ~IsDefined(defs, names[h])
      BY <3>2 DEF IsHit
    <3>4. names[h] = SubSeq(scope, 1, n) \o typ.name
      BY <2>3, <3>2
    <3>5. IsDefined(defs, SubSeq(scope, 1, n) \o typ.name)
      BY <3>1, DefinedIsDeclared
    <3> QED
      BY <3>3, <3>4, <3>5
  <2>8. depths \subseteq Nat
    <3>1. 0..Len(scope) \subseteq Nat
      BY ONLY <2>1, <2>4, Depths
    <3> HIDE DEF Seen
    <3> QED
      BY <3>1
  <2> HIDE DEF depths, m, Seen
  <2>9. Max(depths) = m
    BY <2>6, <2>7, <2>8, GreatestIs
  <2> QED
    BY <1>1, <1>4, <2>5, <2>6, <2>9
<1> QED
  BY <1>3, <1>4

\* All that those names lead to is one item.
LeadTo(defs, names, item) ==
    \A k \in DOMAIN names : \A kind : \A x \in Named(defs, kind, names[k]) : ItemAt(defs, x) = item

\* A full name that an importer looks up again leads to the item it is the name of.
LEMMA ImportedResolved ==
    ASSUME fs \in Schemas, Clear, NEW f \in Reach(Root), NEW defs, Whole(defs, f),
           NEW item \in ItemsIn(PathsFrom(f)), NEW scope, IsSeq(scope)
    PROVE  LeadTo(defs, test_names(scope, MessageOrEnum(FALSE, NameOf(item))), item)
<1> SUFFICES ASSUME NEW typ, typ = MessageOrEnum(FALSE, NameOf(item)),
                    NEW names, names = test_names(scope, typ),
                    NEW k \in DOMAIN names, NEW kind, NEW x \in Named(defs, kind, names[k])
             PROVE  ItemAt(defs, x) = item
  BY DEF LeadTo
<1> DEFINE n == Len(scope)
<1>1. Root \in DOMAIN fs /\ f \in DOMAIN fs
  BY ResolverAssumption DEF Reach
<1>2. typ.abs = FALSE /\ typ.name = NameOf(item)
  BY DEF MessageOrEnum
<1>3. n \in Nat
  BY SeqFacts
<1>4. k \in 1..(n + 1) /\ names[k] = SubSeq(scope, 1, n + 1 - k) \o NameOf(item)
  BY <1>2 DEF test_names
<1> DEFINE y == ItemAt(defs, x)
           c == SubSeq(scope, 1, n + 1 - k)
<1>5. y \in ItemsIn(PathsFrom(f)) /\ NameOf(y) = c \o NameOf(item)
  <2>1. x \in Places(defs) /\ FullName(defs[x[1]], x[2]) = names[k]
    BY DEF Named
  <2> QED
    BY <1>1, <1>4, <2>1, PlacesAreItems
<1>6. IsSeq(NameOf(item))
  BY <1>1, NamesAreSeqs
<1>7. IsSuffix(NameOf(item), c \o NameOf(item))
  <2> DEFINE N == NameOf(item)
             T == ToSet(N) \cup ToSet(scope)
  <2>1. N \in Seq(T) /\ scope \in Seq(T)
    <3>1. /\ Len(N) \in Nat /\ DOMAIN N = 1..Len(N) /\ N = [i \in 1..Len(N) |-> N[i]]
          /\ Len(scope) \in Nat /\ DOMAIN scope = 1..Len(scope) /\ scope = [i \in 1..Len(scope) |-> scope[i]]
      BY <1>6, SeqFacts
    <3> HIDE DEF N
    <3>2. \A i \in 1..Len(N) : N[i] \in T
      BY <3>1 DEF ToSet
    <3>3. \A i \in 1..Len(scope) : scope[i] \in T
      BY <3>1 DEF ToSet
    <3> HIDE DEF T
    <3>4. N \in [1..Len(N) -> T] /\ scope \in [1..Len(scope) -> T]
      BY <3>1, <3>2, <3>3
    <3> QED
      BY <3>1, <3>4
  <2> HIDE DEF N, T
  <2>2. c \in Seq(T)
    BY <1>3, <1>4, <2>1, SubSeqProps
  <2> HIDE DEF c
  <2>3. IsSuffix(N, c \o N)
    BY <2>1, <2>2, SuffixOfConcat
  <2> QED
    BY <2>3 DEF N
<1>8. PathsFrom(f) \subseteq PathsFrom(Root)
  BY <1>1, ReachThrough
<1>9. y \in ItemsIn(PathsFrom(Root)) /\ item \in ItemsIn(PathsFrom(Root))
  BY <1>5, <1>8, ItemIs
<1> HIDE DEF y, c
<1>10. item = y
  BY <1>5, <1>7, <1>9 DEF Clear
<1> QED
  BY <1>10 DEF y

\* Types are as written; those of an imported definition that were names are the full names of
\* what they mean in their own file.
KeptIn(d) ==
    \A j \in DOMAIN d.parts : \A k \in DOMAIN d.parts[j].fields :
        LET was == PartsOf(d.path)[j].fields[k].typ
            now == d.parts[j].fields[k].typ
        IN  IF IsNamed(was) /\ d.imported = TRUE
            THEN \E item \in Meaning(d.path, j, was) : now = MessageOrEnum(FALSE, NameOf(item))
            ELSE now = was

Kept(defs) == \A i \in DOMAIN defs : KeptIn(defs[i])

\* Types that were names lead to what they mean in their own file.
ToldIn(defs, d) ==
    \A j \in DOMAIN d.parts : \A k \in DOMAIN d.parts[j].fields :
        LET was == PartsOf(d.path)[j].fields[k].typ
            now == d.parts[j].fields[k].typ
        IN  IF IsNamed(was)
            THEN IsIndexed(now) /\ ItemAt(defs, now.at) \in Meaning(d.path, j, was)
            ELSE now = was

Told(defs) == \A i \in DOMAIN defs : ToldIn(defs, defs[i])

MeaningInv ==
    /\ \A n \in DOMAIN stack : Kept(stack[n].defs)
    /\ Kept(incoming)
    /\ Told(desc.defs)

LEMMA SameMeanings ==
    ASSUME fs' = fs
    PROVE  /\ \A defs : (Kept(defs)' <=> Kept(defs)) /\ (Told(defs)' <=> Told(defs))
           /\ Clear' <=> Clear
<1>0. \A p : PartsOf(p)' = PartsOf(p)
  BY DEF PartsOf
<1>1. \A p, j, typ : Meaning(p, j, typ)' = Meaning(p, j, typ)
  BY DEF Meaning, DeclaredAs, PathsFrom, PathsOf, PartsOf, Reach, Imports, IsMatch, Exists
<1>2. \A item : NameOf(item)' = NameOf(item)
  BY DEF NameOf, PartsOf
<1>3. \A d : KeptIn(d)' <=> KeptIn(d)
  BY ONLY <1>0, <1>1, <1>2 DEF KeptIn
<1>4. \A defs, d : ToldIn(defs, d)' <=> ToldIn(defs, d)
  <2>1. \A defs, at : ItemAt(defs, at)' = ItemAt(defs, at)
    BY DEF ItemAt
  <2> QED
    BY ONLY <1>0, <1>1, <2>1 DEF ToldIn
<1>5. Clear' <=> Clear
  <2>1. ItemsIn(PathsFrom(Root))' = ItemsIn(PathsFrom(Root))
    BY SameFiles DEF ItemsIn, PartsOf
  <2> QED
    BY <1>2, <2>1 DEF Clear
<1> QED
  BY <1>3, <1>4, <1>5 DEF Kept, Told

LEMMA NothingMeant == Kept(<< >>) /\ Told(<< >>)
BY DEF Kept, Told

LEMMA OwnKept ==
    ASSUME fs \in Schemas, NEW f \in DOMAIN fs
    PROVE  Kept(OwnDefs(f))
<1> DEFINE own == OwnDefs(f)
<1>1. /\ DOMAIN own = DOMAIN fs[f].defs
      /\ \A i \in DOMAIN own :
           /\ Sourced(own[i]) /\ own[i].path = <<f, i>> /\ own[i].imported = FALSE
           /\ \A j \in DOMAIN own[i].parts : \A k \in DOMAIN own[i].parts[j].fields :
                own[i].parts[j].fields[k] = Field(fs[f], fs[f].defs[i][j].fields[k])
  BY OwnFacts
<1> HIDE DEF own
<1>2. ASSUME NEW i \in DOMAIN own, NEW j \in DOMAIN own[i].parts, NEW k \in DOMAIN own[i].parts[j].fields
      PROVE  own[i].parts[j].fields[k].typ = PartsOf(own[i].path)[j].fields[k].typ
  <2>1. own[i].path = <<f, i>>
    BY <1>1
  <2>2. own[i].path[1] = f /\ own[i].path[2] = i
    BY <2>1
  <2>3. PartsOf(own[i].path) = fs[f].defs[i]
    BY <2>2 DEF PartsOf
  <2>4. own[i].parts[j].fields[k] = Field(fs[f], fs[f].defs[i][j].fields[k])
    BY <1>1
  <2>5. own[i].parts[j].fields[k].typ = fs[f].defs[i][j].fields[k].typ
    BY <2>4, FieldFacts
  <2> QED
    BY <2>3, <2>5
<1>3. \A i \in DOMAIN own : own[i].imported # TRUE
  BY <1>1
<1>4. Kept(own)
  BY <1>2, <1>3 DEF Kept, KeptIn
<1> QED
  BY <1>4 DEF own

\* What is written is a name or no index, and in a scope that is a sequence.
LEMMA WrittenTypes ==
    ASSUME fs \in Schemas, NEW d, Sourced(d), NEW j \in DOMAIN d.parts, NEW k \in DOMAIN d.parts[j].fields
    PROVE  /\ ~IsIndexed(PartsOf(d.path)[j].fields[k].typ)
           /\ d.path[1] \in DOMAIN fs
           /\ d.parts[j].name = PartsOf(d.path)[j].name
<1>1. d.path[1] \in DOMAIN fs /\ d.path[2] \in DOMAIN fs[d.path[1]].defs
  BY DEF Sourced, IsPath
<1>2. j \in DOMAIN PartsOf(d.path) /\ k \in DOMAIN PartsOf(d.path)[j].fields
      /\ d.parts[j].name = PartsOf(d.path)[j].name
  BY DEF Sourced, SamePart
<1>3. Written(fs[d.path[1]])
  BY <1>1, ResolverAssumption
<1>4. PartsOf(d.path) = fs[d.path[1]].defs[d.path[2]]
  BY DEF PartsOf
<1> QED
  BY <1>1, <1>2, <1>3, <1>4, WrittenFacts, SMTT(20)

\* One field, resolved in a list that has all that can be seen.
LEMMA FieldTold ==
    ASSUME fs \in Schemas, Clear, NEW f \in Reach(Root), NEW defs, IsSeq(defs), Whole(defs, f),
           Flagged(defs, f), HaveNoIndex(defs), Kept(defs), ~Unresolvable(defs),
           NEW i \in DOMAIN defs, NEW j \in DOMAIN defs[i].parts, NEW k \in DOMAIN defs[i].parts[j].fields,
           NEW was, was = PartsOf(defs[i].path)[j].fields[k].typ,
           NEW now, now = Resolve(defs, FullName(defs[i], j), defs[i].parts[j].fields[k].typ)
    PROVE  IF IsNamed(was)
           THEN IsIndexed(now) /\ ItemAt(defs, now.at) \in Meaning(defs[i].path, j, was)
           ELSE now = was
<1> DEFINE d == defs[i]
           typ == defs[i].parts[j].fields[k].typ
           scope == FullName(defs[i], j)
           names == test_names(scope, typ)
<1>1. Sourced(d) /\ Numbered(defs) /\ IsSeq(scope)
  BY SourcedNumbered DEF Whole, AllSourced
<1>2. f \in DOMAIN fs /\ Root \in DOMAIN fs
  BY ResolverAssumption DEF Reach
<1>3. d.path[1] \in DOMAIN fs /\ d.parts[j].name = PartsOf(d.path)[j].name /\ ~IsIndexed(was)
  BY <1>1, WrittenTypes
<1>4. scope = fs[d.path[1]].package \o PartsOf(d.path)[j].name
  BY <1>3 DEF FullName, Whole, Faithful
<1>5. IF IsNamed(was) /\ d.imported = TRUE
      THEN \E item \in Meaning(d.path, j, was) : typ = MessageOrEnum(FALSE, NameOf(item))
      ELSE typ = was
  BY DEF Kept, KeptIn
<1>6. CASE ~IsNamed(was)
  BY <1>5, <1>6 DEF Resolve
<1>7. ASSUME IsNamed(was)
      PROVE  /\ IsNamed(typ)
             /\ \E h \in DOMAIN names : \E kind \in {"Message", "Enum"} :
                   \E x \in Named(defs, kind, names[h]) : IsHit(defs, names, h) /\ now = Index(kind, x)
  <2>1. IsNamed(typ)
    <3>1. \A name : IsNamed(MessageOrEnum(FALSE, name))
      BY DEF IsNamed, MessageOrEnum
    <3> HIDE DEF typ
    <3> QED
      BY <1>5, <1>7, <3>1
  <2>2. \E h \in DOMAIN names : IsDefined(defs, names[h])
    BY <2>1, AllFound
  <2>3. now = Resolve(defs, scope, typ)
    OBVIOUS
  <2> HIDE DEF typ, scope
  <2> QED
    BY <1>1, <2>1, <2>2, <2>3, ResolvedTo
<1>8. \A kind \in {"Message", "Enum"} : \A x : IsIndexed(Index(kind, x)) /\ Index(kind, x).at = x
  BY DEF Index, IsIndexed
<1>9. CASE IsNamed(was) /\ d.imported # TRUE
  <2>1. d.path[1] = f
    BY <1>9 DEF Flagged
  <2>2. typ = was
    BY <1>5, <1>9
  <2>3. PICK h \in DOMAIN names : \E kind \in {"Message", "Enum"} :
            \E x \in Named(defs, kind, names[h]) : IsHit(defs, names, h) /\ now = Index(kind, x)
    BY <1>7, <1>9
  <2>4. PICK kind \in {"Message", "Enum"} :
            \E x \in Named(defs, kind, names[h]) : IsHit(defs, names, h) /\ now = Index(kind, x)
    BY <2>3
  <2>5. PICK x \in Named(defs, kind, names[h]) : IsHit(defs, names, h) /\ now = Index(kind, x)
    BY <2>4
  <2> DEFINE p == defs[i].path
  <2>6. p[1] \in DOMAIN fs /\ Whole(defs, p[1]) /\ scope = fs[p[1]].package \o PartsOf(p)[j].name
    BY <1>2, <1>4, <2>1
  <2> HIDE DEF typ, scope, p
  <2>7. ItemAt(defs, x) \in Meaning(p, j, typ)
    BY <1>1, <2>5, <2>6, OwnResolved
  <2> QED
    BY <1>8, <1>9, <2>2, <2>5, <2>7 DEF p
<1>10. CASE IsNamed(was) /\ d.imported = TRUE
  <2>1. PICK item \in Meaning(d.path, j, was) : typ = MessageOrEnum(FALSE, NameOf(item))
    BY <1>5, <1>10
  <2>2. item \in ItemsIn(PathsFrom(f))
    <3>1. item \in ItemsIn(PathsFrom(d.path[1]))
      BY <1>3, MeaningIsSeen
    <3>2. d.path \in PathsFrom(f)
      BY DEF Whole, PathSet
    <3>3. PathsFrom(d.path[1]) \subseteq PathsFrom(f)
      BY <1>2, <3>2, PathsAre, ReachThrough
    <3> QED
      BY <3>1, <3>3, ItemIs
  <2>3. PICK h \in DOMAIN names : \E kind \in {"Message", "Enum"} :
            \E x \in Named(defs, kind, names[h]) : IsHit(defs, names, h) /\ now = Index(kind, x)
    BY <1>7, <1>10
  <2>4. PICK kind \in {"Message", "Enum"} :
            \E x \in Named(defs, kind, names[h]) : IsHit(defs, names, h) /\ now = Index(kind, x)
    BY <2>3
  <2>5. PICK x \in Named(defs, kind, names[h]) : IsHit(defs, names, h) /\ now = Index(kind, x)
    BY <2>4
  <2>6. names = test_names(scope, MessageOrEnum(FALSE, NameOf(item)))
    BY <2>1
  <2> HIDE DEF typ, scope, names
  <2>7. ItemAt(defs, x) = item
    <3>1. LeadTo(defs, names, item)
      BY <1>1, <2>2, <2>6, ImportedResolved
    <3> QED
      BY <2>5, <3>1 DEF LeadTo
  <2> QED
    BY <1>8, <1>10, <2>1, <2>5, <2>7
<1> QED
  BY <1>6, <1>9, <1>10

\* A list that names can be looked up in, and what it resolves to.
LEMMA ResolvedTold ==
    ASSUME fs \in Schemas, Clear, NEW f \in Reach(Root), NEW defs, IsSeq(defs), Whole(defs, f),
           Flagged(defs, f), HaveNoIndex(defs), Kept(defs), ~Unresolvable(defs)
    PROVE  Told(Resolved(defs))
<1> DEFINE new == Resolved(defs)
<1>1. /\ DOMAIN new = DOMAIN defs
      /\ \A i \in DOMAIN defs : SameParts(new[i], defs[i]) /\ new[i].path = defs[i].path
      /\ \A i \in DOMAIN defs : \A j \in DOMAIN defs[i].parts : \A k \in DOMAIN defs[i].parts[j].fields :
            new[i].parts[j].fields[k] =
                resolve_field(defs, FullName(defs[i], j), defs[i].parts[j].fields[k])
  BY ResolvedFacts
<1> HIDE DEF new
<1>2. ASSUME NEW i \in DOMAIN new, NEW j \in DOMAIN new[i].parts, NEW k \in DOMAIN new[i].parts[j].fields,
             NEW was, was = PartsOf(new[i].path)[j].fields[k].typ,
             NEW now, now = new[i].parts[j].fields[k].typ
      PROVE  IF IsNamed(was)
             THEN IsIndexed(now) /\ ItemAt(new, now.at) \in Meaning(new[i].path, j, was)
             ELSE now = was
  <2>1. /\ i \in DOMAIN defs /\ j \in DOMAIN defs[i].parts /\ k \in DOMAIN defs[i].parts[j].fields
        /\ new[i].path = defs[i].path
    BY <1>1 DEF SameParts, SamePart
  <2>2. now = Resolve(defs, FullName(defs[i], j), defs[i].parts[j].fields[k].typ)
    BY <1>1, <1>2, <2>1, ResolvedField
  <2>3. was = PartsOf(defs[i].path)[j].fields[k].typ
    BY <1>2, <2>1
  <2>4. IF IsNamed(was)
        THEN IsIndexed(now) /\ ItemAt(defs, now.at) \in Meaning(defs[i].path, j, was)
        ELSE now = was
    BY <2>1, <2>2, <2>3, FieldTold
  <2>5. IsNamed(was) => ItemAt(new, now.at) = ItemAt(defs, now.at)
    <3> SUFFICES ASSUME IsNamed(was)
                 PROVE  ItemAt(new, now.at) = ItemAt(defs, now.at)
      OBVIOUS
    <3>1. Pointing(new) /\ IsIndexed(now)
      BY <2>4, ResolvedPointing DEF Whole, new
    <3>2. now.at \in Places(new)
      BY <1>2, <3>1 DEF Pointing, IsItem
    <3>3. now.at[1] \in DOMAIN new
      <4>1. PICK m \in DOMAIN new : \E n \in DOMAIN new[m].parts : now.at = <<m, n>>
        BY <3>2, PlaceIs
      <4>2. now.at[1] = m
        BY <4>1
      <4> QED
        BY <4>2
    <3> QED
      BY <1>1, <3>3 DEF ItemAt
  <2> QED
    BY <2>1, <2>4, <2>5
<1>3. Told(new)
  BY <1>2 DEF Told, ToldIn
<1> QED
  BY <1>3 DEF new

\* Indices turned into full names are the names of what they led to.
LEMMA ReceivedKept ==
    ASSUME fs \in Schemas, NEW defs, NEW f \in DOMAIN fs, Whole(defs, f), Pointing(defs), Told(defs),
           NEW i \in DOMAIN defs, NEW new, NEW package, ReceivedAs(new, defs, defs[i], package)
    PROVE  KeptIn(new)
<1>1. /\ SameParts(new, defs[i]) /\ new.path = defs[i].path /\ new.imported = TRUE
      /\ \A j \in DOMAIN defs[i].parts : \A k \in DOMAIN defs[i].parts[j].fields :
           new.parts[j].fields[k] =
               WithType(defs[i].parts[j].fields[k], AsName(defs, defs[i].parts[j].fields[k].typ))
  BY DEF ReceivedAs
<1>2. ASSUME NEW j \in DOMAIN new.parts, NEW k \in DOMAIN new.parts[j].fields
      PROVE  IF IsNamed(PartsOf(new.path)[j].fields[k].typ)
             THEN \E item \in Meaning(new.path, j, PartsOf(new.path)[j].fields[k].typ) :
                     new.parts[j].fields[k].typ = MessageOrEnum(FALSE, NameOf(item))
             ELSE new.parts[j].fields[k].typ = PartsOf(new.path)[j].fields[k].typ
  <2>0. PICK was : was = PartsOf(new.path)[j].fields[k].typ
    OBVIOUS
  <2> DEFINE now == new.parts[j].fields[k].typ
  <2>1. j \in DOMAIN defs[i].parts /\ k \in DOMAIN defs[i].parts[j].fields
    BY <1>1 DEF SameParts, SamePart
  <2> DEFINE typ == defs[i].parts[j].fields[k].typ
  <2>2. now = AsName(defs, typ)
    <3>1. new.parts[j].fields[k] = WithType(defs[i].parts[j].fields[k], AsName(defs, typ))
      BY <1>1, <2>1
    <3>2. \A field, t : WithType(field, t).typ = t
      BY DEF WithType
    <3> HIDE DEF typ
    <3> QED
      BY <2>0, <3>1, <3>2
  <2>3. IF IsNamed(was)
        THEN IsIndexed(typ) /\ ItemAt(defs, typ.at) \in Meaning(new.path, j, was)
        ELSE typ = was
    BY <1>1, <2>0, <2>1 DEF Told, ToldIn
  <2>4. IsIndexed(typ) => typ.at \in Places(defs)
    BY <2>1 DEF Pointing, IsItem
  <2> HIDE DEF now
  <2>5. ASSUME IsNamed(was)
        PROVE  \E item \in Meaning(new.path, j, was) : now = MessageOrEnum(FALSE, NameOf(item))
    <3>1. NameOf(ItemAt(defs, typ.at)) = FullName(defs[typ.at[1]], typ.at[2])
      BY <2>3, <2>4, <2>5, PlacesAreItems
    <3>2. now = MessageOrEnum(FALSE, NameOf(ItemAt(defs, typ.at)))
      BY <2>2, <2>3, <2>5, <3>1 DEF AsName
    <3> QED
      BY <2>3, <2>5, <3>2
  <2>6. ASSUME ~IsNamed(was)
        PROVE  now = was
    <3>1. Sourced(defs[i])
      BY DEF Whole, AllSourced
    <3>2. ~IsIndexed(was)
      BY <1>1, <2>0, <2>1, <3>1, WrittenTypes
    <3> QED
      BY <2>2, <2>3, <2>6, <3>2 DEF AsName
  <2> QED
    BY <2>0, <2>5, <2>6 DEF now
<1>3. new.imported = TRUE
  BY <1>1
<1> QED
  BY <1>2, <1>3 DEF KeptIn

LEMMA MeaningInit == Init => MeaningInv
<1> SUFFICES ASSUME Init
             PROVE  MeaningInv
  OBVIOUS
<1>1. fs \in Schemas /\ Root \in DOMAIN fs
  BY ResolverAssumption DEF Init
<1>2. stack = <<Call(Root)>> /\ desc.defs = << >> /\ incoming = << >>
  BY DEF Init, NoDesc
<1>3. DOMAIN stack = {1} /\ stack[1] = Call(Root)
  BY <1>2
<1>4. Call(Root).defs = OwnDefs(Root)
  BY <1>1, OwnSourced
<1>5. Kept(OwnDefs(Root))
  BY <1>1, OwnKept
<1> QED
  BY <1>2, <1>3, <1>4, <1>5, NothingMeant DEF MeaningInv

LEMMA MeaningOpen ==
    ASSUME IInv, MeaningInv, OpenImport
    PROVE  MeaningInv'
<1>1. /\ Running /\ UNCHANGED <<fs, incoming, desc, outcome>>
  BY OpenImportDoes
<1>2. PICK g \in Matches(Top.file, Import) :
        /\ g \in DOMAIN fs
        /\ IsSeq(stack') /\ Len(stack') = Len(stack) + 1
        /\ DOMAIN stack' = 1..(Len(stack) + 1)
        /\ \A n \in Below : stack'[n] = stack[n]
        /\ stack'[Len(stack)] = Frame(Top.file, Top.defs, Top.next + 1)
        /\ stack'[Len(stack) + 1] = Call(g)
  BY OpenImportDoes
<1>3. /\ Len(stack) \in Nat \ {0} /\ Len(stack) \in DOMAIN stack /\ Below \subseteq DOMAIN stack
      /\ Top = stack[Len(stack)]
  BY <1>1, TopThere
<1>4. Call(g).defs = OwnDefs(g) /\ Kept(OwnDefs(g))
  BY <1>2, OwnSourced, OwnKept DEF IInv
<1>5. ASSUME NEW n \in DOMAIN stack'
      PROVE  Kept(stack'[n].defs)
  <2>1. CASE n \in Below
    BY <1>2, <1>3, <2>1 DEF MeaningInv
  <2>2. CASE n = Len(stack)
    BY <1>2, <1>3, <2>2, FrameFacts DEF MeaningInv
  <2>3. CASE n = Len(stack) + 1
    BY <1>2, <1>4, <2>3
  <2> QED
    BY <1>2, <1>3, <2>1, <2>2, <2>3 DEF Below
<1> QED
  BY <1>1, <1>5, SameMeanings DEF MeaningInv

\* What a call has when it returns: all that its file leads to.
LEMMA ReturnsWhole ==
    ASSUME IInv, SourceInv, CoverInv, Return
    PROVE  /\ Whole(Top.defs, Top.file) /\ Top.file \in Reach(Root) /\ Top.file \in DOMAIN fs
           /\ IsSeq(Top.defs) /\ HaveNoIndex(Top.defs) /\ Flagged(Top.defs, Top.file)
           /\ ~Unresolvable(Top.defs)
<1>1. /\ Running /\ ~Unresolvable(Top.defs)
      /\ UNCHANGED <<fs, incoming>>
      /\ desc' = [defs |-> Resolved(Top.defs), file |-> Top.file]
  BY ReturnDoes
<1>2. /\ Len(stack) \in DOMAIN stack /\ Top = stack[Len(stack)]
  BY <1>1, TopThere
<1> DEFINE defs == Top.defs
           f == Top.file
<1>3. f \in Reach(Root) /\ f \in DOMAIN fs /\ IsSeq(defs) /\ HaveNoIndex(defs) /\ Flagged(defs, f)
  BY <1>2 DEF CoverInv, Held, IInv, Listed, Reach
<1>4. CoverInv'
  BY CoverReturn
<1>5. desc'.defs = Resolved(defs) /\ desc'.file = f /\ desc' # NoDesc
  <2>1. desc'.defs = Resolved(defs) /\ desc'.file = f
    BY <1>1
  <2>2. f # << >>
    BY <1>3, ResolverAssumption DEF IInv
  <2> QED
    BY <2>1, <2>2 DEF NoDesc
<1>6. PathSet(desc.defs)' = PathsFrom(desc.file)'
  BY <1>4, <1>5 DEF CoverInv
<1>7. PathSet(desc.defs)' = PathSet(Resolved(defs))
  BY <1>5 DEF PathSet
<1>8. PathsFrom(desc.file)' = PathsFrom(f)
  BY <1>1, <1>5, SameFiles
<1>9. PathSet(defs) = PathsFrom(f)
  BY <1>6, <1>7, <1>8, ResolvedPaths
<1>10. Faithful(defs) /\ AllSourced(defs)
  BY <1>2 DEF CoverInv, Held, SourceInv
<1> QED
  BY <1>1, <1>3, <1>9, <1>10 DEF Whole

LEMMA MeaningReturn ==
    ASSUME IInv, SourceInv, Clear, CoverInv, MeaningInv, Return
    PROVE  MeaningInv'
<1>1. /\ Running /\ incoming = << >> /\ desc = NoDesc /\ ~MoreImports /\ ~Unresolvable(Top.defs)
      /\ UNCHANGED <<fs, incoming>>
      /\ desc' = [defs |-> Resolved(Top.defs), file |-> Top.file]
      /\ DOMAIN stack' = Below /\ \A n \in Below : stack'[n] = stack[n]
  BY ReturnDoes
<1>2. /\ Len(stack) \in DOMAIN stack /\ Below \subseteq DOMAIN stack /\ Top = stack[Len(stack)]
  BY <1>1, TopThere
<1> DEFINE defs == Top.defs
           f == Top.file
<1>3. /\ Whole(defs, f) /\ f \in Reach(Root) /\ f \in DOMAIN fs
      /\ IsSeq(defs) /\ HaveNoIndex(defs) /\ Flagged(defs, f) /\ ~Unresolvable(defs)
  BY ReturnsWhole
<1>4. Kept(defs)
  BY <1>2 DEF MeaningInv
<1>5. desc'.defs = Resolved(defs)
  BY <1>1
<1> HIDE DEF defs, f
<1>6. Told(Resolved(defs))
  BY <1>3, <1>4, ResolvedTold DEF IInv
<1>7. \A n \in DOMAIN stack' : Kept(stack'[n].defs)
  BY <1>1, <1>2 DEF MeaningInv
<1> QED
  BY <1>1, <1>5, <1>6, <1>7, SameMeanings DEF MeaningInv

LEMMA MeaningReceive ==
    ASSUME IInv, SourceInv, CoverInv, MeaningInv, Receive
    PROVE  MeaningInv'
<1>1. /\ Running /\ desc # NoDesc /\ UNCHANGED <<fs, stack, outcome>> /\ desc' = NoDesc
      /\ DOMAIN incoming' = DOMAIN desc.defs
      /\ \A i \in DOMAIN desc.defs :
            incoming'[i] = Adopted(Unresolved(desc.defs)[i], fs[desc.file].package)
  BY ReceiveDoes
<1> DEFINE defs == desc.defs
           f == desc.file
           package == fs[f].package
<1>2. f \in DOMAIN fs /\ Whole(defs, f) /\ Pointing(defs) /\ Told(defs)
  BY <1>1 DEF CoverInv, SourceInv, MeaningInv, Whole
<1>3. ASSUME NEW i \in DOMAIN defs
      PROVE  KeptIn(incoming'[i])
  <2> PICK new : new = incoming'[i]
    OBVIOUS
  <2>1. new = Adopted(Unresolved(defs)[i], package)
    BY <1>1
  <2> HIDE DEF defs, f, package
  <2>2. ReceivedAs(new, defs, defs[i], package)
    BY <2>1, ReceivedFacts
  <2>3. KeptIn(new)
    BY <1>2, <2>2, ReceivedKept DEF IInv
  <2> QED
    BY <2>3
<1>4. Kept(incoming')
  BY <1>1, <1>3 DEF Kept
<1>5. desc'.defs = << >>
  BY <1>1 DEF NoDesc
<1> QED
  BY <1>1, <1>4, <1>5, SameMeanings, NothingMeant DEF MeaningInv

LEMMA MeaningMerge ==
    ASSUME IInv, MeaningInv, MergeNext
    PROVE  MeaningInv'
<1> DEFINE d == incoming[1]
           defs == Top.defs
           new == IF IsMerged(d, defs) THEN defs ELSE Append(defs, d)
<1>1. /\ Running /\ UNCHANGED <<fs, desc, outcome>>
      /\ DOMAIN stack' = DOMAIN stack /\ \A n \in Below : stack'[n] = stack[n]
      /\ stack'[Len(stack)].defs = new
      /\ 1 \in DOMAIN incoming
      /\ \A i \in DOMAIN incoming' : i + 1 \in DOMAIN incoming /\ incoming'[i] = incoming[i + 1]
  BY MergeNextDoes
<1>2. /\ Len(stack) \in DOMAIN stack /\ Below \subseteq DOMAIN stack /\ Top = stack[Len(stack)]
      /\ \A n \in DOMAIN stack : n \in Below \/ n = Len(stack)
  BY <1>1, TopThere
<1>3. KeptIn(d) /\ Kept(defs) /\ IsSeq(defs)
  BY <1>1, <1>2 DEF MeaningInv, Kept, IInv, Listed
<1> HIDE DEF d, defs
<1>4. Kept(Append(defs, d))
  <2>1. /\ DOMAIN Append(defs, d) = 1..(Len(defs) + 1)
        /\ \A i \in 1..Len(defs) : Append(defs, d)[i] = defs[i]
        /\ Append(defs, d)[Len(defs) + 1] = d
        /\ Len(defs) \in Nat /\ DOMAIN defs = 1..Len(defs)
    BY <1>3, AppendFacts, SeqFacts
  <2>2. \A i \in DOMAIN Append(defs, d) : i \in DOMAIN defs \/ i = Len(defs) + 1
    BY <2>1
  <2> QED
    BY <1>3, <2>1, <2>2 DEF Kept
<1>5. Kept(new)
  BY <1>3, <1>4
<1> HIDE DEF new
<1>6. \A n \in DOMAIN stack' : Kept(stack'[n].defs)
  BY <1>1, <1>2, <1>5 DEF MeaningInv
<1>7. Kept(incoming')
  BY <1>1 DEF MeaningInv, Kept
<1> QED
  BY <1>1, <1>6, <1>7, SameMeanings DEF MeaningInv

LEMMA MeaningStep == IInv /\ SourceInv /\ Clear /\ CoverInv /\ MeaningInv /\ [Next]_vars => MeaningInv'
<1> SUFFICES ASSUME IInv, SourceInv, Clear, CoverInv, MeaningInv, [Next]_vars
             PROVE  MeaningInv'
  OBVIOUS
<1>1. CASE Halts
  <2>1. UNCHANGED <<fs, stack, incoming, desc>>
    BY <1>1, HaltsKeeps
  <2> QED
    BY <2>1, SameMeanings DEF MeaningInv
<1> QED
  BY <1>1, Steps, MeaningOpen, MeaningReturn, MeaningReceive, MeaningMerge

\* Items of one package and name are one.
LEMMA ClearIsUnique == ASSUME fs \in Schemas PROVE Clear => UniqueUnits
<1> SUFFICES ASSUME Clear, NEW p \in PathsFrom(Root), NEW q \in PathsFrom(Root),
                    PartsOf(p)[1].name = PartsOf(q)[1].name,
                    fs[p[1]].package = fs[q[1]].package
             PROVE  p = q
  BY DEF UniqueUnits
<1>1. Root \in DOMAIN fs
  BY ResolverAssumption
<1>2. ASSUME NEW r \in PathsFrom(Root)
      PROVE  /\ r = <<r[1], r[2]>> /\ <<r[1], r[2], 1>> \in ItemsIn(PathsFrom(Root))
             /\ NameOf(<<r[1], r[2], 1>>) = fs[r[1]].package \o PartsOf(r)[1].name
  <2>1. IsPath(r)
    BY <1>1, PathsAre
  <2>2. r = <<r[1], r[2]>> /\ r[1] \in DOMAIN fs /\ r[2] \in DOMAIN fs[r[1]].defs
    BY <2>1 DEF IsPath
  <2>3. 1 \in DOMAIN fs[r[1]].defs[r[2]]
    BY <2>2, ResolverAssumption, WrittenFacts
  <2>4. 1 \in DOMAIN PartsOf(r)
    BY <2>3 DEF PartsOf
  <2> DEFINE x == <<r[1], r[2], 1>>
  <2>5. x[1] = r[1] /\ x[2] = r[2] /\ x[3] = 1
    OBVIOUS
  <2>6. x \in ItemsIn(PathsFrom(Root))
    BY <2>4, ItemIs
  <2> HIDE DEF x
  <2>7. NameOf(x) = fs[r[1]].package \o PartsOf(r)[1].name
    BY <2>5 DEF NameOf, PartsOf
  <2> QED
    BY <2>2, <2>6, <2>7 DEF x
<1> DEFINE x == <<p[1], p[2], 1>>
           y == <<q[1], q[2], 1>>
<1>3. x[1] = p[1] /\ x[2] = p[2] /\ y[1] = q[1] /\ y[2] = q[2]
  OBVIOUS
<1>4. x \in ItemsIn(PathsFrom(Root)) /\ y \in ItemsIn(PathsFrom(Root)) /\ NameOf(x) = NameOf(y)
  BY <1>2
<1> HIDE DEF x, y
<1>5. IsSuffix(NameOf(y), << >> \o NameOf(y)) /\ << >> \o NameOf(y) = NameOf(y)
  <2>1. IsSeq(NameOf(y))
    BY <1>1, <1>4, NamesAreSeqs
  <2> DEFINE N == NameOf(y)
             T == ToSet(N)
  <2>2. N \in Seq(T) /\ << >> \in Seq(T)
    BY <2>1 DEF IsSeq
  <2> HIDE DEF N, T
  <2>3. << >> \o N = N
    BY ONLY <2>2
  <2>4. IsSuffix(N, << >> \o N)
    BY <2>2, SuffixOfConcat
  <2> QED
    BY <2>3, <2>4 DEF N
<1>6. x = y
  BY <1>4, <1>5 DEF Clear
<1> QED
  BY <1>2, <1>3, <1>6

LEMMA Meanings == Spec => [](Packaged /\ Clear => CoverInv /\ MeaningInv)
<1> DEFINE Inv == Packaged /\ Clear => CoverInv /\ MeaningInv
<1>1. Init => Inv
  BY CoverInit, MeaningInit
<1>2. IInv /\ SourceInv /\ Inv /\ [Next]_vars => Inv'
  <2> SUFFICES ASSUME IInv, SourceInv, Inv, [Next]_vars, Packaged', Clear'
               PROVE  CoverInv' /\ MeaningInv'
    OBVIOUS
  <2>1. fs' = fs
    BY FilesStay
  <2>2. Packaged /\ Clear
    BY <2>1, SameFiles, SameMeanings
  <2>3. UniqueUnits
    BY <2>2, ClearIsUnique DEF IInv
  <2> QED
    BY <2>2, <2>3, CoverStep, MeaningStep
<1> QED
  BY <1>1, <1>2, ListsInOrder, AllFromFiles, PTL DEF Spec

\* If every item has a full name of its own and none has one that ends another's, the index of
\* every field of a descriptor leads to the item that the file of the field means, through any
\* number of merges (types.rs:554-609, 775-851).
THEOREM MeaningStays == Spec => [](Packaged /\ Clear => SameMeaning)
<1>1. IInv /\ SourceInv /\ MeaningInv => SameMeaning
  <2> SUFFICES ASSUME IInv, SourceInv, MeaningInv, NEW x \in Places(desc.defs),
                      NEW k \in DOMAIN desc.defs[x[1]].parts[x[2]].fields,
                      IsNamed(PartsOf(desc.defs[x[1]].path)[x[2]].fields[k].typ)
               PROVE  ItemAt(desc.defs, desc.defs[x[1]].parts[x[2]].fields[k].typ.at)
                          \in Meaning(desc.defs[x[1]].path, x[2],
                                      PartsOf(desc.defs[x[1]].path)[x[2]].fields[k].typ)
    BY DEF SameMeaning, ItemAt
  <2>1. x[1] \in DOMAIN desc.defs /\ x[2] \in DOMAIN desc.defs[x[1]].parts
    <3>1. Numbered(desc.defs)
      BY SourcedNumbered DEF IInv, SourceInv, Returned
    <3> QED
      BY <3>1, PlacesAre
  <2> QED
    BY <2>1 DEF MeaningInv, Told, ToldIn
<1> QED
  BY <1>1, ListsInOrder, AllFromFiles, Meanings, PTL

\* If packages tell definitions apart, what is generated is generated from all the root leads to
\* (types.rs:611-710).
THEOREM GeneratedComplete == GSpec => [](Packaged /\ UniqueUnits => Complete)
BY GeneratorReads, DescriptorComplete, PTL

\* If no full name ends another's, the code of a field mentions what the field means in its own
\* file (types.rs:554-609, 775-851).
THEOREM GeneratedMeaning == GSpec => [](Packaged /\ Clear => SameMeaning)
BY GeneratorReads, MeaningStays, PTL

-----------------------------------------------------------------------------
(* Identifiers. *)

\* What a message or an enum makes does not depend on where it is.
LEMMA MessageWherever ==
    ASSUME NEW x, NEW y, NEW word, NEW oneofs, NEW a \in write_message(x, word, oneofs)
    PROVE  /\ a = Item(x, a.oneof, a.ident)
           /\ Item(y, a.oneof, a.ident) \in write_message(y, word, oneofs)
<1>1. \A k, ident : Item(x, k, ident).oneof = k /\ Item(x, k, ident).ident = ident
  BY DEF Item
<1>2. \/ \E ident \in message_schema(word) : a = Item(x, 0, ident)
      \/ \E k \in DOMAIN oneofs : a = Item(x, k, marker_name(word, oneofs[k]))
  BY DEF write_message
<1>3. CASE \E ident \in message_schema(word) : a = Item(x, 0, ident)
  <2>1. PICK ident \in message_schema(word) : a = Item(x, 0, ident)
    BY <1>3
  <2>2. a.oneof = 0 /\ a.ident = ident
    BY <1>1, <2>1
  <2> QED
    BY <2>1, <2>2 DEF write_message
<1>4. CASE \E k \in DOMAIN oneofs : a = Item(x, k, marker_name(word, oneofs[k]))
  <2>1. PICK k \in DOMAIN oneofs : a = Item(x, k, marker_name(word, oneofs[k]))
    BY <1>4
  <2>2. a.oneof = k /\ a.ident = marker_name(word, oneofs[k])
    BY <1>1, <2>1
  <2> QED
    BY <2>1, <2>2 DEF write_message
<1> QED
  BY <1>2, <1>3, <1>4

LEMMA EnumWherever ==
    ASSUME NEW x, NEW y, NEW word, NEW a \in write_enum(x, word)
    PROVE  a = Item(x, a.oneof, a.ident) /\ Item(y, a.oneof, a.ident) \in write_enum(y, word)
<1>1. a = Item(x, 0, word)
  BY DEF write_enum
<1>2. a.oneof = 0 /\ a.ident = word
  BY <1>1 DEF Item
<1> QED
  BY <1>1, <1>2 DEF write_enum

\* The items a place's part makes are those its file's part makes.
LEMMA ItemsMove ==
    ASSUME NEW defs, NEW f \in DOMAIN fs, Whole(defs, f), NEW x \in Places(defs), NEW a
    PROVE  /\ a \in ItemsAt(defs, x) =>
                 /\ a = Item(x, a.oneof, a.ident)
                 /\ Item(ItemAt(defs, x), a.oneof, a.ident) \in ItemsOf(defs[x[1]].path, x[2])
           /\ a \in ItemsOf(defs[x[1]].path, x[2]) =>
                 /\ a = Item(ItemAt(defs, x), a.oneof, a.ident)
                 /\ Item(x, a.oneof, a.ident) \in ItemsAt(defs, x)
<1> DEFINE p == defs[x[1]].path
           part == defs[x[1]].parts[x[2]]
           y == ItemAt(defs, x)
           word == FlattenSeq(part.name)
<1>1. x[1] \in DOMAIN defs /\ x[2] \in DOMAIN defs[x[1]].parts
  BY PlaceIs
<1>2. SamePart(part, PartsOf(p)[x[2]])
  BY <1>1 DEF Whole, AllSourced, Sourced
<1>3. y = <<p[1], p[2], x[2]>>
  BY DEF ItemAt
<1>4. ItemsOf(p, x[2]) = IF part.kind = "Message" THEN write_message(y, word, part.oneofs)
                         ELSE write_enum(y, word)
  BY <1>2, <1>3 DEF ItemsOf, SamePart
<1>5. ItemsAt(defs, x) = IF part.kind = "Message" THEN write_message(x, word, part.oneofs)
                         ELSE write_enum(x, word)
  BY DEF ItemsAt, qualified_name
<1> HIDE DEF p, part, y, word
<1>6. /\ a \in ItemsAt(defs, x) =>
             a = Item(x, a.oneof, a.ident) /\ Item(y, a.oneof, a.ident) \in ItemsOf(p, x[2])
      /\ a \in ItemsOf(p, x[2]) =>
             a = Item(y, a.oneof, a.ident) /\ Item(x, a.oneof, a.ident) \in ItemsAt(defs, x)
  <2>1. CASE part.kind = "Message"
    <3> DEFINE oneofs == part.oneofs
    <3>1. /\ ItemsOf(p, x[2]) = write_message(y, word, oneofs)
          /\ ItemsAt(defs, x) = write_message(x, word, oneofs)
      BY <1>4, <1>5, <2>1
    <3> HIDE DEF oneofs
    <3>2. /\ a \in write_message(x, word, oneofs) =>
                /\ a = Item(x, a.oneof, a.ident)
                /\ Item(y, a.oneof, a.ident) \in write_message(y, word, oneofs)
          /\ a \in write_message(y, word, oneofs) =>
                /\ a = Item(y, a.oneof, a.ident)
                /\ Item(x, a.oneof, a.ident) \in write_message(x, word, oneofs)
      BY MessageWherever
    <3> QED
      BY ONLY <3>1, <3>2
  <2>2. CASE part.kind # "Message"
    <3>1. ItemsOf(p, x[2]) = write_enum(y, word) /\ ItemsAt(defs, x) = write_enum(x, word)
      BY <1>4, <1>5, <2>2
    <3> QED
      BY <3>1, EnumWherever
  <2> QED
    BY <2>1, <2>2
<1> QED
  BY <1>6 DEF p, y

LEMMA DeclaredItemIs ==
    ASSUME NEW a
    PROVE  a \in DeclaredItems <=> \E p \in PathsFrom(Root) : \E j \in DOMAIN PartsOf(p) : a \in ItemsOf(p, j)
BY DEF DeclaredItems

\* Two places that are one item are one place.
LEMMA PlaceOfItem ==
    ASSUME NEW defs, DistinctKeys(defs), NEW f \in DOMAIN fs, Whole(defs, f), HasItself(defs),
           NEW x \in Places(defs), NEW y \in Places(defs), ItemAt(defs, x) = ItemAt(defs, y)
    PROVE  x = y
<1>1. /\ x[1] \in DOMAIN defs /\ x[2] \in DOMAIN defs[x[1]].parts /\ x = <<x[1], x[2]>>
      /\ y[1] \in DOMAIN defs /\ y[2] \in DOMAIN defs[y[1]].parts /\ y = <<y[1], y[2]>>
  BY PlaceIs
<1>2. /\ defs[x[1]].path[1] = defs[y[1]].path[1] /\ defs[x[1]].path[2] = defs[y[1]].path[2]
      /\ x[2] = y[2]
  BY DEF ItemAt
<1>3. \A i \in DOMAIN defs :
        /\ defs[i].path = <<defs[i].path[1], defs[i].path[2]>>
        /\ defs[i].package = fs[defs[i].path[1]].package
        /\ defs[i].parts[1].kind = PartsOf(defs[i].path)[1].kind
        /\ defs[i].parts[1].name = PartsOf(defs[i].path)[1].name
  <2> TAKE i \in DOMAIN defs
  <2>1. Sourced(defs[i]) /\ 1 \in DOMAIN defs[i].parts
    BY DEF Whole, AllSourced, HasItself
  <2>2. SamePart(defs[i].parts[1], PartsOf(defs[i].path)[1]) /\ IsPath(defs[i].path)
    BY <2>1 DEF Sourced
  <2> QED
    BY <2>2 DEF SamePart, IsPath, Whole, Faithful
<1> DEFINE p == defs[x[1]].path
           q == defs[y[1]].path
<1>4. p = q
  BY <1>1, <1>2, <1>3
<1>5. Key(defs[x[1]]) = Key(defs[y[1]])
  BY <1>1, <1>3, <1>4 DEF Key
<1>6. x[1] = y[1]
  BY <1>1, <1>5 DEF DistinctKeys
<1> QED
  BY <1>1, <1>2, <1>6

\* An item of the generated module as its file declares it.
Origin(defs, a) == Item(ItemAt(defs, a.at), a.oneof, a.ident)

\* The module has the items that the files declare, each once.
LEMMA OriginIsOneToOne ==
    ASSUME fs \in Schemas, NEW defs, Whole(defs, Root), DistinctKeys(defs), HasItself(defs)
    PROVE  /\ \A a \in Items(defs) : Origin(defs, a) \in DeclaredItems
           /\ \A b \in DeclaredItems : \E a \in Items(defs) : Origin(defs, a) = b
           /\ \A a, b \in Items(defs) : Origin(defs, a) = Origin(defs, b) => a = b
<1>1. Root \in DOMAIN fs
  BY ResolverAssumption
<1>2. ASSUME NEW x \in Places(defs)
      PROVE  /\ x[1] \in DOMAIN defs /\ x[2] \in DOMAIN defs[x[1]].parts
             /\ defs[x[1]].path \in PathsFrom(Root)
             /\ DOMAIN defs[x[1]].parts = DOMAIN PartsOf(defs[x[1]].path)
             /\ defs[x[1]].parts[x[2]].kind \in {"Message", "Enum"}
  <2>1. x[1] \in DOMAIN defs /\ x[2] \in DOMAIN defs[x[1]].parts
    BY PlaceIs
  <2>2. /\ defs[x[1]].path \in PathsFrom(Root)
        /\ DOMAIN defs[x[1]].parts = DOMAIN PartsOf(defs[x[1]].path)
    BY <2>1 DEF Whole, PathSet, AllSourced, Sourced
  <2>3. defs[x[1]].parts[x[2]].kind \in {"Message", "Enum"}
    BY <1>1, PlacesAreItems, NamesAreSeqs
  <2> QED
    BY <2>1, <2>2, <2>3
<1>3. ASSUME NEW a \in Items(defs)
      PROVE  /\ a.at \in Places(defs) /\ a = Item(a.at, a.oneof, a.ident)
             /\ Origin(defs, a) \in DeclaredItems
  <2>1. PICK x \in Places(defs) : a \in ItemsAt(defs, x)
    BY ItemsAre
  <2>2. /\ a = Item(x, a.oneof, a.ident)
        /\ Item(ItemAt(defs, x), a.oneof, a.ident) \in ItemsOf(defs[x[1]].path, x[2])
    BY <1>1, <2>1, ItemsMove
  <2>3. a.at = x
    BY <2>2 DEF Item
  <2>4. Origin(defs, a) \in ItemsOf(defs[x[1]].path, x[2])
    BY <2>2, <2>3 DEF Origin
  <2> QED
    BY <1>2, <2>2, <2>3, <2>4, DeclaredItemIs
<1>4. ASSUME NEW b \in DeclaredItems
      PROVE  \E a \in Items(defs) : Origin(defs, a) = b
  <2>1. PICK p \in PathsFrom(Root) : \E j \in DOMAIN PartsOf(p) : b \in ItemsOf(p, j)
    BY DeclaredItemIs
  <2>2. PICK j \in DOMAIN PartsOf(p) : b \in ItemsOf(p, j)
    BY <2>1
  <2>3. PICK i \in DOMAIN defs : defs[i].path = p
    BY DEF Whole, PathSet
  <2>4. j \in DOMAIN defs[i].parts
    BY <2>2, <2>3 DEF Whole, AllSourced, Sourced
  <2>5. PICK x : x = <<i, j>>
    OBVIOUS
  <2>6. x \in Places(defs) /\ x[1] = i /\ x[2] = j
    BY <2>4, <2>5, PlaceIs
  <2>7. b \in ItemsOf(defs[x[1]].path, x[2])
    BY <2>2, <2>3, <2>6
  <2>8. PICK a : a = Item(x, b.oneof, b.ident)
    OBVIOUS
  <2>9. b = Item(ItemAt(defs, x), b.oneof, b.ident) /\ a \in ItemsAt(defs, x)
    BY <1>1, <2>6, <2>7, <2>8, ItemsMove
  <2>10. a \in Items(defs)
    BY <1>2, <2>6, <2>9, ItemsAre
  <2>11. a.at = x /\ a.oneof = b.oneof /\ a.ident = b.ident
    BY <2>8 DEF Item
  <2> QED
    BY <2>9, <2>10, <2>11 DEF Origin
<1>5. ASSUME NEW a \in Items(defs), NEW b \in Items(defs), Origin(defs, a) = Origin(defs, b)
      PROVE  a = b
  <2>1. ItemAt(defs, a.at) = ItemAt(defs, b.at) /\ a.oneof = b.oneof /\ a.ident = b.ident
    BY <1>5 DEF Origin, Item
  <2>2. a.at = b.at
    BY <1>1, <1>3, <2>1, PlaceOfItem
  <2> QED
    BY <1>3, <2>1, <2>2
<1> QED
  BY <1>3, <1>4, <1>5

\* If packages tell definitions apart, an identifier of the generated module is given to two items
\* exactly where the files declare two items that are called the same: whether the module compiles is
\* decided by the names in the files, not by the order or the number of times they are imported
\* (parser.rs:11-37, 299-310, 391-396, pb_rs types.rs:654-706).
THEOREM ClashesWhereDeclared == GSpec => [](Packaged /\ UniqueUnits => ClashesAsDeclared)
<1>1. /\ IInv /\ SourceInv /\ CodeInv /\ RootInv /\ (Packaged /\ UniqueUnits => CoverInv)
      => (Packaged /\ UniqueUnits => ClashesAsDeclared)
  <2> SUFFICES ASSUME IInv, SourceInv, CodeInv, RootInv, CoverInv, code.stage = "generated"
               PROVE  Clashing(code.items) = Clashing(DeclaredItems)
    BY DEF ClashesAsDeclared
  <2> DEFINE defs == desc.defs
             items == Items(defs)
  <2>1. outcome = "ok" /\ code = Module(desc.file, defs)
    <3>1. code # NoModule("none") /\ code # NoModule("panic")
      BY DEF NoModule
    <3> QED
      BY <3>1 DEF CodeInv
  <2>2. code.items = items
    BY <2>1 DEF Module
  <2>3. desc.file = Root /\ Root \in DOMAIN fs /\ Root # << >> /\ fs \in Schemas
    BY <2>1, ResolverAssumption DEF RootInv, IInv
  <2>4. desc # NoDesc
    BY <2>3 DEF NoDesc
  <2>5. Whole(defs, Root)
    BY <2>3, <2>4 DEF Whole, CoverInv, SourceInv
  <2>6. DistinctKeys(defs) /\ HasItself(defs)
    BY DEF IInv, Returned
  <2> HIDE DEF defs
  <2>7. /\ \A a \in items : Origin(defs, a) \in DeclaredItems
        /\ \A b \in DeclaredItems : \E a \in items : Origin(defs, a) = b
        /\ \A a, b \in items : Origin(defs, a) = Origin(defs, b) => a = b
    BY <2>3, <2>5, <2>6, OriginIsOneToOne
  <2>8. \A a : Origin(defs, a).ident = a.ident
    BY DEF Origin, Item
  <2> HIDE DEF items
  <2>9. ASSUME NEW ident
        PROVE  ident \in Clashing(items) <=> ident \in Clashing(DeclaredItems)
    <3>1. \A S : ident \in Clashing(S) <=>
                   \E a \in S : \E b \in S : a # b /\ a.ident = b.ident /\ a.ident = ident
      BY DEF Clashing
    <3>2. ASSUME NEW a \in items, NEW b \in items, a # b, a.ident = b.ident, a.ident = ident
          PROVE  ident \in Clashing(DeclaredItems)
      <4>1. /\ Origin(defs, a) \in DeclaredItems /\ Origin(defs, b) \in DeclaredItems
            /\ Origin(defs, a) # Origin(defs, b)
        BY <2>7, <3>2
      <4> QED
        BY <2>8, <3>1, <3>2, <4>1
    <3>3. ASSUME NEW c \in DeclaredItems, NEW d \in DeclaredItems, c # d, c.ident = d.ident, c.ident = ident
          PROVE  ident \in Clashing(items)
      <4>1. PICK a \in items : Origin(defs, a) = c
        BY <2>7
      <4>2. PICK b \in items : Origin(defs, b) = d
        BY <2>7
      <4>3. a # b /\ a.ident = ident /\ b.ident = ident
        BY <2>8, <3>3, <4>1, <4>2
      <4> QED
        BY <3>1, <4>3
    <3> QED
      BY <3>1, <3>2, <3>3
  <2> QED
    BY <2>2, <2>9
<1> QED
  BY <1>1, GeneratorReads, CodeIsOf, RootIsRead, Covers, PTL

-----------------------------------------------------------------------------
(* Labels. *)

\* A name means one item at most.
LEMMA MeaningIsOne ==
    ASSUME fs \in Schemas, Clear, NEW p, p[1] \in Reach(Root), NEW j, NEW typ,
           NEW y \in Meaning(p, j, typ), NEW z \in Meaning(p, j, typ)
    PROVE  y = z
<1> DEFINE visible == PathsFrom(p[1])
           scope == fs[p[1]].package \o PartsOf(p)[j].name
           Seen(k) == DeclaredAs(visible, SubSeq(scope, 1, k) \o typ.name)
           depths == {k \in 0..Len(scope) : Seen(k) # {}}
<1>1. Meaning(p, j, typ) = IF typ.abs THEN DeclaredAs(visible, typ.name)
                           ELSE IF depths = {} THEN {} ELSE Seen(Max(depths))
  BY DEF Meaning
<1> HIDE DEF depths
<1>2. \E name : Meaning(p, j, typ) = DeclaredAs(visible, name)
  BY <1>1
<1>3. PICK name : Meaning(p, j, typ) = DeclaredAs(visible, name)
  BY <1>2
<1>4. Root \in DOMAIN fs /\ p[1] \in DOMAIN fs
  BY ResolverAssumption DEF Reach
<1>5. \A q \in visible : IsPath(q)
  BY <1>4, PathsAre
<1>6. /\ y \in ItemsIn(visible) /\ NameOf(y) = name
      /\ z \in ItemsIn(visible) /\ NameOf(z) = name
  BY <1>3, <1>5, DeclaredIs
<1>7. visible \subseteq PathsFrom(Root)
  BY <1>4, ReachThrough
<1> HIDE DEF visible
<1>8. y \in ItemsIn(PathsFrom(Root)) /\ z \in ItemsIn(PathsFrom(Root))
  BY <1>6, <1>7, ItemIs
<1>9. IsSeq(name)
  BY <1>4, <1>6, <1>8, NamesAreSeqs
<1>10. IsSuffix(name, name)
  <2> DEFINE T == ToSet(name)
  <2>1. name \in Seq(T) /\ << >> \in Seq(T)
    BY <1>9 DEF IsSeq
  <2> HIDE DEF T
  <2>2. << >> \o name = name
    BY ONLY <2>1
  <2>3. IsSuffix(name, << >> \o name)
    BY <2>1, SuffixOfConcat
  <2> QED
    BY <2>2, <2>3
<1> QED
  BY <1>6, <1>8, <1>10 DEF Clear

\* The label the parser gives a field.
ParsedLabel(path, j, k) == Field(fs[path[1]], PartsOf(path)[j].fields[k]).frequency

\* Whether a field's values are numbers or of an enum, as the text has it.
MeantPrimitive(path, j, k) ==
    LET decl == PartsOf(path)[j].fields[k]
    IN  /\ ~decl.map
        /\ IF IsNamed(decl.typ)
           THEN \E item \in Meaning(path, j, decl.typ) : PartsOf(item)[item[3]].kind = "Enum"
           ELSE decl.typ.tag = "Number"

\* The label once the type is known.
SettledLabel(path, j, k) ==
    IF ParsedLabel(path, j, k) = "Packed" /\ ~MeantPrimitive(path, j, k) THEN "Repeated"
    ELSE ParsedLabel(path, j, k)

LabelKept(d) ==
    \A j \in DOMAIN d.parts : \A k \in DOMAIN d.parts[j].fields :
        d.parts[j].fields[k].frequency \in {ParsedLabel(d.path, j, k), SettledLabel(d.path, j, k)}

LabelSettled(d) ==
    \A j \in DOMAIN d.parts : \A k \in DOMAIN d.parts[j].fields :
        d.parts[j].fields[k].frequency = SettledLabel(d.path, j, k)

\* Definitions of f, and of files that have been parsed.
FromParsed(defs, f) == \A i \in DOMAIN defs : defs[i].path[1] = f \/ Parses(defs[i].path[1])

\* Labels are as parsed or settled, those of a descriptor are settled; and what came from imports
\* came from files that parse.
LabelInv ==
    /\ \A n \in DOMAIN stack :
          /\ \A i \in DOMAIN stack[n].defs : LabelKept(stack[n].defs[i])
          /\ FromParsed(stack[n].defs, stack[n].file)
    /\ \A i \in DOMAIN incoming : LabelKept(incoming[i]) /\ Parses(incoming[i].path[1])
    /\ \A i \in DOMAIN desc.defs : LabelSettled(desc.defs[i]) /\ Parses(desc.defs[i].path[1])

LEMMA SameLabels ==
    ASSUME fs' = fs
    PROVE  /\ \A d : (LabelKept(d)' <=> LabelKept(d)) /\ (LabelSettled(d)' <=> LabelSettled(d))
           /\ \A f : Parses(f)' <=> Parses(f)
           /\ \A defs, f : FromParsed(defs, f)' <=> FromParsed(defs, f)
<1>1. \A p, j, typ : Meaning(p, j, typ)' = Meaning(p, j, typ)
  BY DEF Meaning, DeclaredAs, PathsFrom, PathsOf, PartsOf, Reach, Imports, IsMatch, Exists
<1>2. \A p, j, k : ParsedLabel(p, j, k)' = ParsedLabel(p, j, k)
  BY DEF ParsedLabel, PartsOf
<1>3. \A p : PartsOf(p)' = PartsOf(p)
  BY DEF PartsOf
<1>4. \A p, j, k : MeantPrimitive(p, j, k)' <=> MeantPrimitive(p, j, k)
  BY <1>1, <1>3 DEF MeantPrimitive
<1>5. \A p, j, k : SettledLabel(p, j, k)' = SettledLabel(p, j, k)
  BY <1>2, <1>4 DEF SettledLabel
<1>6. \A f : Parses(f)' <=> Parses(f)
  BY DEF Parses, InTheGrammar, Crashes, Decls
<1>7. \A d : LabelKept(d)' <=> LabelKept(d)
  BY <1>2, <1>5 DEF LabelKept
<1>8. \A d : LabelSettled(d)' <=> LabelSettled(d)
  BY <1>5 DEF LabelSettled
<1>9. \A defs, f : FromParsed(defs, f)' <=> FromParsed(defs, f)
  BY <1>6 DEF FromParsed
<1> QED
  BY <1>6, <1>7, <1>8, <1>9

\* What a field has become tells whether it was meant to be packed.
LEMMA TellsPrimitive ==
    ASSUME fs \in Schemas, Clear, NEW f \in Reach(Root), NEW defs, Whole(defs, f), Told(defs),
           Pointing(defs), NEW i \in DOMAIN defs, NEW j \in DOMAIN defs[i].parts,
           NEW k \in DOMAIN defs[i].parts[j].fields
    PROVE  is_primitive(defs[i].parts[j].fields[k]) <=> MeantPrimitive(defs[i].path, j, k)
<1>0. PICK p : p = defs[i].path
  OBVIOUS
<1>1. PICK field : field = defs[i].parts[j].fields[k]
  OBVIOUS
<1>2. PICK decl : decl = PartsOf(p)[j].fields[k]
  OBVIOUS
<1>3. Sourced(defs[i]) /\ p \in PathsFrom(f)
  BY <1>0 DEF Whole, AllSourced, PathSet
<1>4. SamePart(defs[i].parts[j], PartsOf(p)[j])
  BY <1>0, <1>3 DEF Sourced
<1>5. field.map = decl.map
  BY <1>1, <1>2, <1>4 DEF SamePart
<1>6. ~IsIndexed(decl.typ)
  BY <1>0, <1>2, <1>3, WrittenTypes
<1>7. IF IsNamed(decl.typ)
      THEN IsIndexed(field.typ) /\ ItemAt(defs, field.typ.at) \in Meaning(p, j, decl.typ)
      ELSE field.typ = decl.typ
  BY <1>0, <1>1, <1>2 DEF Told, ToldIn
<1>8. IsIndexed(field.typ) => IsItem(defs, field.typ.tag, field.typ.at)
  BY <1>1 DEF Pointing
<1>9. f \in DOMAIN fs /\ Root \in DOMAIN fs /\ p[1] \in Reach(Root)
  <2>1. f \in DOMAIN fs /\ Root \in DOMAIN fs
    BY ResolverAssumption DEF Reach
  <2>2. p[1] \in Reach(f)
    BY <1>3, <2>1, PathsAre
  <2> QED
    BY <2>1, <2>2, ReachThrough
<1>10. CASE IsNamed(decl.typ)
  <2> DEFINE y == ItemAt(defs, field.typ.at)
  <2>1. y \in Meaning(p, j, decl.typ) /\ IsItem(defs, field.typ.tag, field.typ.at) /\ IsIndexed(field.typ)
    BY <1>7, <1>8, <1>10
  <2>2. PartsOf(y)[y[3]].kind = field.typ.tag
    BY <1>9, <2>1, PlacesAreItems DEF IsItem
  <2>3. field.typ.tag \in {"Message", "Enum"}
    BY <2>1 DEF IsIndexed
  <2> HIDE DEF y
  <2>4. \A z \in Meaning(p, j, decl.typ) : z = y
    BY <1>9, <2>1, MeaningIsOne
  <2>5. (\E z \in Meaning(p, j, decl.typ) : PartsOf(z)[z[3]].kind = "Enum") <=> field.typ.tag = "Enum"
    BY <2>1, <2>2, <2>4
  <2>6. is_primitive(field) <=> ~decl.map /\ field.typ.tag = "Enum"
    BY <1>5, <2>3 DEF is_primitive
  <2>7. MeantPrimitive(p, j, k) <=> ~decl.map /\ field.typ.tag = "Enum"
    BY <1>2, <1>10, <2>5 DEF MeantPrimitive
  <2> QED
    BY <1>0, <1>1, <2>6, <2>7
<1>11. CASE ~IsNamed(decl.typ)
  <2>1. is_primitive(field) <=> ~decl.map /\ decl.typ.tag = "Number"
    BY <1>5, <1>6, <1>7, <1>11 DEF is_primitive, IsIndexed
  <2>2. MeantPrimitive(p, j, k) <=> ~decl.map /\ decl.typ.tag = "Number"
    BY <1>2, <1>11 DEF MeantPrimitive
  <2> QED
    BY <1>0, <1>1, <2>1, <2>2
<1> QED
  BY <1>10, <1>11

\* Resolving settles every label, for good.
LEMMA ResolvedSettled ==
    ASSUME fs \in Schemas, Clear, NEW f \in Reach(Root), NEW defs, IsSeq(defs), Whole(defs, f),
           Flagged(defs, f), HaveNoIndex(defs), Kept(defs), ~Unresolvable(defs),
           \A i \in DOMAIN defs : LabelKept(defs[i])
    PROVE  \A i \in DOMAIN Resolved(defs) : LabelSettled(Resolved(defs)[i])
<1> DEFINE new == Resolved(defs)
<1>1. /\ DOMAIN new = DOMAIN defs
      /\ \A i \in DOMAIN defs : SameParts(new[i], defs[i]) /\ new[i].path = defs[i].path
                                /\ new[i].package = defs[i].package
      /\ \A i \in DOMAIN defs : \A j \in DOMAIN defs[i].parts : \A k \in DOMAIN defs[i].parts[j].fields :
            new[i].parts[j].fields[k] =
                resolve_field(defs, FullName(defs[i], j), defs[i].parts[j].fields[k])
  BY ResolvedFacts
<1>2. Told(new) /\ Pointing(new)
  BY ResolvedTold, ResolvedPointing DEF Whole
<1>3. Whole(new, f)
  <2>1. PathSet(new) = PathSet(defs) /\ Faithful(new)
    BY ResolvedPaths DEF Whole
  <2>2. ASSUME NEW i \in DOMAIN new
        PROVE  Sourced(new[i])
    <3>1. Sourced(defs[i]) /\ SameParts(new[i], defs[i]) /\ new[i].path = defs[i].path
          /\ new[i].package = defs[i].package
      BY <1>1 DEF Whole, AllSourced
    <3> HIDE DEF new
    <3> QED
      BY <3>1, KeepsSource
  <2>3. AllSourced(new)
    BY <2>2 DEF AllSourced
  <2> QED
    BY <2>1, <2>3 DEF Whole
<1> HIDE DEF new
<1>4. ASSUME NEW i \in DOMAIN new, NEW j \in DOMAIN new[i].parts, NEW k \in DOMAIN new[i].parts[j].fields
      PROVE  new[i].parts[j].fields[k].frequency = SettledLabel(new[i].path, j, k)
  <2>1. /\ i \in DOMAIN defs /\ j \in DOMAIN defs[i].parts /\ k \in DOMAIN defs[i].parts[j].fields
        /\ new[i].path = defs[i].path
    BY <1>1 DEF SameParts, SamePart
  <2>2. PICK field : field = defs[i].parts[j].fields[k]
    OBVIOUS
  <2>3. PICK now : now = new[i].parts[j].fields[k]
    OBVIOUS
  <2>4. PICK p : p = new[i].path
    OBVIOUS
  <2>5. now = resolve_field(defs, FullName(defs[i], j), field)
    BY <1>1, <2>1, <2>2, <2>3
  <2>6. PICK typ : typ = Resolve(defs, FullName(defs[i], j), field.typ)
    OBVIOUS
  <2>7. /\ now.typ = typ /\ now.map = field.map
        /\ now.frequency = Downgraded(field.frequency, WithType(field, typ))
    BY <2>5, <2>6, ResolvedField
  <2>8. is_primitive(WithType(field, typ)) <=> is_primitive(now)
    BY <2>7 DEF is_primitive, WithType
  <2>9. is_primitive(now) <=> MeantPrimitive(p, j, k)
    BY <1>2, <1>3, <2>3, <2>4, TellsPrimitive
  <2>10. field.frequency \in {ParsedLabel(p, j, k), SettledLabel(p, j, k)}
    BY <2>1, <2>2, <2>4 DEF LabelKept
  <2>11. now.frequency = SettledLabel(p, j, k)
    BY <2>7, <2>8, <2>9, <2>10 DEF Downgraded, SettledLabel
  <2> QED
    BY <2>3, <2>4, <2>11
<1>5. \A i \in DOMAIN new : LabelSettled(new[i])
  BY <1>4 DEF LabelSettled
<1> QED
  BY <1>5 DEF new

\* A file's own definitions have the labels the parser gave them.
LEMMA OwnLabels ==
    ASSUME fs \in Schemas, NEW f \in DOMAIN fs
    PROVE  /\ \A i \in DOMAIN OwnDefs(f) : LabelKept(OwnDefs(f)[i])
           /\ FromParsed(OwnDefs(f), f)
<1>1. ASSUME NEW i \in DOMAIN OwnDefs(f)
      PROVE  LabelKept(OwnDefs(f)[i]) /\ OwnDefs(f)[i].path[1] = f
  <2>1. OwnDefs(f)[i].path = <<f, i>>
    BY <1>1, OwnFacts
  <2>2. PartsOf(<<f, i>>) = fs[f].defs[i]
    BY DEF PartsOf
  <2>3. ASSUME NEW j \in DOMAIN OwnDefs(f)[i].parts, NEW k \in DOMAIN OwnDefs(f)[i].parts[j].fields
        PROVE  OwnDefs(f)[i].parts[j].fields[k].frequency = ParsedLabel(<<f, i>>, j, k)
    <3>1. OwnDefs(f)[i].parts[j].fields[k] = Field(fs[f], fs[f].defs[i][j].fields[k])
      BY OwnFacts
    <3>2. ParsedLabel(<<f, i>>, j, k) = Field(fs[f], fs[f].defs[i][j].fields[k]).frequency
      BY <2>2 DEF ParsedLabel
    <3> QED
      BY <3>1, <3>2
  <2> QED
    BY <2>1, <2>3 DEF LabelKept
<1> QED
  BY <1>1 DEF FromParsed

LEMMA NothingLabelled == DOMAIN << >> = {}
OBVIOUS

LEMMA LabelInit == Init => LabelInv
<1> SUFFICES ASSUME Init
             PROVE  LabelInv
  OBVIOUS
<1>1. fs \in Schemas /\ Root \in DOMAIN fs
  BY ResolverAssumption DEF Init
<1>2. stack = <<Call(Root)>> /\ desc.defs = << >> /\ incoming = << >>
  BY DEF Init, NoDesc
<1>3. DOMAIN stack = {1} /\ stack[1] = Call(Root)
  BY <1>2
<1>4. Call(Root).defs = OwnDefs(Root) /\ Call(Root).file = Root
  BY <1>1, OwnSourced
<1> QED
  BY <1>1, <1>2, <1>3, <1>4, OwnLabels, NothingLabelled DEF LabelInv

LEMMA LabelOpen ==
    ASSUME IInv, LabelInv, OpenImport
    PROVE  LabelInv'
<1>1. /\ Running /\ UNCHANGED <<fs, incoming, desc, outcome>>
  BY OpenImportDoes
<1>2. PICK g \in Matches(Top.file, Import) :
        /\ g \in DOMAIN fs
        /\ IsSeq(stack') /\ Len(stack') = Len(stack) + 1
        /\ DOMAIN stack' = 1..(Len(stack) + 1)
        /\ \A n \in Below : stack'[n] = stack[n]
        /\ stack'[Len(stack)] = Frame(Top.file, Top.defs, Top.next + 1)
        /\ stack'[Len(stack) + 1] = Call(g)
  BY OpenImportDoes
<1>3. /\ Len(stack) \in Nat \ {0} /\ Len(stack) \in DOMAIN stack /\ Below \subseteq DOMAIN stack
      /\ Top = stack[Len(stack)]
  BY <1>1, TopThere
<1>4. Call(g).defs = OwnDefs(g) /\ Call(g).file = g
  BY <1>2, OwnSourced DEF IInv
<1>5. (\A i \in DOMAIN OwnDefs(g) : LabelKept(OwnDefs(g)[i])) /\ FromParsed(OwnDefs(g), g)
  BY <1>2, OwnLabels DEF IInv
<1>6. ASSUME NEW n \in DOMAIN stack'
      PROVE  /\ \A i \in DOMAIN stack'[n].defs : LabelKept(stack'[n].defs[i])
             /\ FromParsed(stack'[n].defs, stack'[n].file)
  <2>1. CASE n \in Below
    BY <1>2, <1>3, <2>1 DEF LabelInv
  <2>2. CASE n = Len(stack)
    BY <1>2, <1>3, <2>2, FrameFacts DEF LabelInv
  <2>3. CASE n = Len(stack) + 1
    BY <1>2, <1>4, <1>5, <2>3
  <2> QED
    BY <1>2, <1>3, <2>1, <2>2, <2>3 DEF Below
<1> QED
  BY <1>1, <1>6, SameLabels DEF LabelInv

LEMMA LabelReturn ==
    ASSUME IInv, SourceInv, Clear, CoverInv, MeaningInv, LabelInv, Return
    PROVE  LabelInv'
<1>1. /\ Running /\ UNCHANGED <<fs, incoming>>
      /\ desc' = [defs |-> Resolved(Top.defs), file |-> Top.file]
      /\ DOMAIN stack' = Below /\ \A n \in Below : stack'[n] = stack[n]
  BY ReturnDoes
<1>2. /\ Len(stack) \in DOMAIN stack /\ Below \subseteq DOMAIN stack /\ Top = stack[Len(stack)]
  BY <1>1, TopThere
<1> DEFINE defs == Top.defs
           f == Top.file
<1>3. /\ Whole(defs, f) /\ f \in Reach(Root) /\ IsSeq(defs) /\ HaveNoIndex(defs)
      /\ Flagged(defs, f) /\ ~Unresolvable(defs)
  BY ReturnsWhole
<1>4. Kept(defs) /\ (\A i \in DOMAIN defs : LabelKept(defs[i])) /\ FromParsed(defs, f)
  BY <1>2 DEF MeaningInv, LabelInv
<1>5. Parses(f)
  BY DEF Return, Between
<1>6. desc'.defs = Resolved(defs)
  BY <1>1
<1> HIDE DEF defs, f
<1>7. \A i \in DOMAIN Resolved(defs) : LabelSettled(Resolved(defs)[i])
  BY <1>3, <1>4, ResolvedSettled DEF IInv
<1>8. \A i \in DOMAIN Resolved(defs) : Parses(Resolved(defs)[i].path[1])
  <2>1. DOMAIN Resolved(defs) = DOMAIN defs /\ \A i \in DOMAIN defs : Resolved(defs)[i].path = defs[i].path
    BY ResolvedFacts
  <2> QED
    BY <1>4, <1>5, <2>1 DEF FromParsed
<1>9. \A i \in DOMAIN desc'.defs : LabelSettled(desc'.defs[i]) /\ Parses(desc'.defs[i].path[1])
  BY <1>6, <1>7, <1>8
<1>10. \A n \in DOMAIN stack' : /\ \A i \in DOMAIN stack'[n].defs : LabelKept(stack'[n].defs[i])
                                /\ FromParsed(stack'[n].defs, stack'[n].file)
  BY <1>1, <1>2 DEF LabelInv
<1> QED
  BY <1>1, <1>9, <1>10, SameLabels DEF LabelInv

LEMMA LabelReceive ==
    ASSUME IInv, LabelInv, Receive
    PROVE  LabelInv'
<1>1. /\ Running /\ desc # NoDesc /\ UNCHANGED <<fs, stack, outcome>> /\ desc' = NoDesc
      /\ DOMAIN incoming' = DOMAIN desc.defs
      /\ \A i \in DOMAIN desc.defs :
            incoming'[i] = Adopted(Unresolved(desc.defs)[i], fs[desc.file].package)
  BY ReceiveDoes
<1> DEFINE defs == desc.defs
           package == fs[desc.file].package
<1>2. ASSUME NEW i \in DOMAIN defs
      PROVE  LabelKept(incoming'[i]) /\ Parses(incoming'[i].path[1])
  <2> PICK new : new = incoming'[i]
    OBVIOUS
  <2> PICK d : d = defs[i]
    OBVIOUS
  <2>1. new = Adopted(Unresolved(defs)[i], package)
    BY <1>1
  <2>2. LabelSettled(d) /\ Parses(d.path[1])
    BY DEF LabelInv
  <2> HIDE DEF defs, package
  <2>3. ReceivedAs(new, defs, d, package)
    BY <2>1, ReceivedFacts
  <2>4. /\ SameParts(new, d) /\ new.path = d.path
        /\ \A j \in DOMAIN d.parts : \A k \in DOMAIN d.parts[j].fields :
              new.parts[j].fields[k] = WithType(d.parts[j].fields[k], AsName(defs, d.parts[j].fields[k].typ))
    BY <2>3 DEF ReceivedAs
  <2>5. \A field, typ : WithType(field, typ).frequency = field.frequency
    BY DEF WithType
  <2>6. ASSUME NEW j \in DOMAIN new.parts, NEW k \in DOMAIN new.parts[j].fields
        PROVE  new.parts[j].fields[k].frequency = SettledLabel(new.path, j, k)
    <3>1. j \in DOMAIN d.parts /\ k \in DOMAIN d.parts[j].fields
      BY <2>4 DEF SameParts, SamePart
    <3>2. new.parts[j].fields[k].frequency = d.parts[j].fields[k].frequency
      BY <2>4, <2>5, <3>1
    <3> QED
      BY <2>2, <2>4, <3>1, <3>2 DEF LabelSettled
  <2>7. LabelKept(new)
    BY <2>6 DEF LabelKept
  <2> QED
    BY <2>2, <2>4, <2>7
<1>3. \A i \in DOMAIN incoming' : LabelKept(incoming'[i]) /\ Parses(incoming'[i].path[1])
  BY <1>1, <1>2
<1>4. DOMAIN desc'.defs = {}
  BY <1>1 DEF NoDesc
<1> QED
  BY <1>1, <1>3, <1>4, SameLabels DEF LabelInv

LEMMA LabelMerge ==
    ASSUME IInv, LabelInv, MergeNext
    PROVE  LabelInv'
<1> DEFINE d == incoming[1]
           defs == Top.defs
           f == Top.file
           new == IF IsMerged(d, defs) THEN defs ELSE Append(defs, d)
<1>1. /\ Running /\ UNCHANGED <<fs, desc, outcome>>
      /\ DOMAIN stack' = DOMAIN stack /\ \A n \in Below : stack'[n] = stack[n]
      /\ stack'[Len(stack)].defs = new /\ stack'[Len(stack)].file = f
      /\ 1 \in DOMAIN incoming
      /\ \A i \in DOMAIN incoming' : i + 1 \in DOMAIN incoming /\ incoming'[i] = incoming[i + 1]
  BY MergeNextDoes
<1>2. /\ Len(stack) \in DOMAIN stack /\ Below \subseteq DOMAIN stack /\ Top = stack[Len(stack)]
      /\ \A n \in DOMAIN stack : n \in Below \/ n = Len(stack)
  BY <1>1, TopThere
<1>3. /\ LabelKept(d) /\ Parses(d.path[1]) /\ IsSeq(defs)
      /\ (\A i \in DOMAIN defs : LabelKept(defs[i])) /\ FromParsed(defs, f)
  BY <1>1, <1>2 DEF LabelInv, IInv, Listed
<1> HIDE DEF d, defs, f
<1>4. \A i \in DOMAIN Append(defs, d) :
         \/ i \in DOMAIN defs /\ Append(defs, d)[i] = defs[i]
         \/ Append(defs, d)[i] = d
  <2>1. /\ DOMAIN Append(defs, d) = 1..(Len(defs) + 1)
        /\ \A i \in 1..Len(defs) : Append(defs, d)[i] = defs[i]
        /\ Append(defs, d)[Len(defs) + 1] = d
        /\ Len(defs) \in Nat /\ DOMAIN defs = 1..Len(defs)
    BY <1>3, AppendFacts, SeqFacts
  <2>2. \A i \in DOMAIN Append(defs, d) : i \in DOMAIN defs \/ i = Len(defs) + 1
    BY <2>1
  <2> QED
    BY <2>1, <2>2
<1>5. (\A i \in DOMAIN new : LabelKept(new[i])) /\ FromParsed(new, f)
  BY <1>3, <1>4 DEF FromParsed
<1> HIDE DEF new
<1>6. ASSUME NEW n \in DOMAIN stack'
      PROVE  /\ \A i \in DOMAIN stack'[n].defs : LabelKept(stack'[n].defs[i])
             /\ FromParsed(stack'[n].defs, stack'[n].file)
  <2>1. CASE n \in Below
    BY <1>1, <1>2, <2>1 DEF LabelInv
  <2>2. CASE n = Len(stack)
    BY <1>1, <1>5, <2>2
  <2> QED
    BY <1>1, <1>2, <2>1, <2>2
<1>7. \A i \in DOMAIN incoming' : LabelKept(incoming'[i]) /\ Parses(incoming'[i].path[1])
  BY <1>1 DEF LabelInv
<1> QED
  BY <1>1, <1>6, <1>7, SameLabels DEF LabelInv

LEMMA LabelStep ==
    IInv /\ SourceInv /\ Clear /\ CoverInv /\ MeaningInv /\ LabelInv /\ [Next]_vars => LabelInv'
<1> SUFFICES ASSUME IInv, SourceInv, Clear, CoverInv, MeaningInv, LabelInv, [Next]_vars
             PROVE  LabelInv'
  OBVIOUS
<1>1. CASE Halts
  <2>1. UNCHANGED <<fs, stack, incoming, desc>>
    BY <1>1, HaltsKeeps
  <2> QED
    BY <2>1, SameLabels DEF LabelInv
<1> QED
  BY <1>1, Steps, LabelOpen, LabelReturn, LabelReceive, LabelMerge

LEMMA Labelings == Spec => [](Packaged /\ Clear => CoverInv /\ MeaningInv /\ LabelInv)
<1> DEFINE Inv == Packaged /\ Clear => CoverInv /\ MeaningInv /\ LabelInv
<1>1. Init => Inv
  BY CoverInit, MeaningInit, LabelInit
<1>2. IInv /\ SourceInv /\ Inv /\ [Next]_vars => Inv'
  <2> SUFFICES ASSUME IInv, SourceInv, Inv, [Next]_vars, Packaged', Clear'
               PROVE  CoverInv' /\ MeaningInv' /\ LabelInv'
    OBVIOUS
  <2>1. fs' = fs
    BY FilesStay
  <2>2. Packaged /\ Clear
    BY <2>1, SameFiles, SameMeanings
  <2>3. UniqueUnits
    BY <2>2, ClearIsUnique DEF IInv
  <2> QED
    BY <2>2, <2>3, CoverStep, MeaningStep, LabelStep
<1> QED
  BY <1>1, <1>2, ListsInOrder, AllFromFiles, PTL DEF Spec

-----------------------------------------------------------------------------
(* The label of one field. *)

\* A file whose syntax the parser and the generator see as it is, or take for one that means the
\* same: it starts the file, and proto3 is not mixed with another syntax under a proto3 root.
UsualSyntax(root, file) ==
    /\ file.syntax \in Syntaxes
    /\ root.syntax = "Proto3" => file.syntax = "Proto3"
    /\ file.leading => file.syntax = "Proto2" \/ (file.syntax = "Proto3" /\ root.syntax = "Proto3")

\* A field as the language has them, with one option at most and that not packed = false in
\* proto3.
UsualField(file, decl) ==
    /\ decl.keyword \in Keywords
    /\ IsSeq(decl.options) /\ Len(decl.options) <= 1
    /\ decl.map => decl.keyword = "none"
    /\ decl.keyword = "none" => file.syntax # "Proto2" \/ decl.map \/ decl.oneof
    /\ file.syntax = "Proto3" => ~Says(decl, "packed", "false")
    /\ file.syntax = "Edition" /\ decl.keyword = "repeated" =>
          \A i \in DOMAIN decl.options : decl.options[i].key # "features.field_presence"

Usual ==
    \A f \in Reach(Root) :
        /\ UsualSyntax(fs[Root], fs[f])
        /\ \A decl \in Decls(f) : UsualField(fs[f], decl)

\* With one option at most, the parser finds what is said.
LEMMA ValueIsSaid ==
    ASSUME NEW decl, IsSeq(decl.options), Len(decl.options) <= 1
    PROVE  /\ key_vals(decl.options) = decl.options
           /\ \A key, value, default : value # default =>
                (Value(decl.options, key, default) = value <=> Says(decl, key, value))
           /\ \A key, default :
                (\A i \in DOMAIN decl.options : decl.options[i].key # key)
                => Value(decl.options, key, default) = default
<1> PICK o : o = decl.options
  OBVIOUS
<1>0. IsSeq(o) /\ Len(o) <= 1
  OBVIOUS
<1>1. Len(o) \in Nat /\ DOMAIN o = 1..Len(o)
  BY <1>0, SeqFacts
<1>2. CASE Len(o) = 0
  <2>1. DOMAIN o = {} /\ o = << >>
    BY <1>1, <1>2, SeqFacts
  <2> QED
    BY <1>2, <2>1 DEF key_vals, Value, Says
<1>3. CASE Len(o) = 1
  <2>1. DOMAIN o = {1} /\ o # << >>
    BY <1>1, <1>3
  <2>2. Head(o) = o[1]
    BY <2>1, <1>3 DEF IsSeq
  <2> HIDE DEF IsSeq
  <2> QED
    BY <1>3, <2>1, <2>2 DEF key_vals, Value, Says
<1>4. Len(o) = 0 \/ Len(o) = 1
  <2>1. \A n \in Nat : n <= 1 => n = 0 \/ n = 1
    OBVIOUS
  <2>2. Len(o) \in Nat /\ Len(o) <= 1
    BY <1>0, <1>1
  <2> QED
    BY ONLY <2>1, <2>2
<1> QED
  BY <1>2, <1>3, <1>4

\* What a label becomes that was raw in the parser, for values that are numbers or of an enum and
\* for others.
LEMMA Converted ==
    ASSUME NEW root, NEW now, NEW raw \in {"None", "Plain", "Optional", "Required", "Repeated", "Packed"},
           now.frequency = IF raw = "Packed" /\ ~is_primitive(now) THEN "Repeated" ELSE raw
    PROVE  /\ raw = "None" => convert_field(root, now) = "Plain"
           /\ raw \in {"Plain", "Optional", "Required"} => convert_field(root, now) = raw
           /\ raw = "Packed" => convert_field(root, now) = IF is_packable_scalar(now) THEN "Packed" ELSE "Repeated"
           /\ raw = "Repeated" => convert_field(root, now) =
                IF is_packable_scalar(now) /\ root.syntax = "Proto3" THEN "Packed" ELSE "Repeated"
<1>1. is_primitive(now) <=> is_packable_scalar(now)
  BY DEF is_primitive, is_packable_scalar
<1> QED
  BY <1>1 DEF convert_field, from

\* The parser's label, by the syntax it works with.
LEMMA RawLabel ==
    ASSUME NEW file, NEW decl, file.syntax \in Syntaxes, UsualField(file, decl), InGrammar(file, decl),
           NEW s, s = scan_syntax(file), NEW raw, raw = Field(file, decl).frequency
    PROVE  /\ decl.oneof => raw \in {"Plain", "Optional"}
           /\ ~decl.oneof /\ decl.map => raw \in {"None", "Plain", "Optional", "Required"}
           /\ ~decl.oneof /\ ~decl.map =>
                /\ decl.keyword = "required" => raw = "Required"
                /\ decl.keyword = "optional" => raw = "Optional"
                /\ decl.keyword = "repeated" =>
                    /\ s = "Proto2" => raw = IF Says(decl, "packed", "true") THEN "Packed" ELSE "Repeated"
                    /\ s = "Proto3" => raw = "Packed"
                    /\ s = "Edition" /\ file.syntax = "Edition" =>
                        raw = IF Says(decl, "features.repeated_field_encoding", "EXPANDED")
                              THEN "Repeated" ELSE "Packed"
                /\ decl.keyword = "none" =>
                    /\ s = "Proto2" => raw = "None"
                    /\ s = "Proto3" => raw = "Plain"
                    /\ s = "Edition" =>
                        raw = IF Says(decl, "features.field_presence", "IMPLICIT") THEN "Plain"
                              ELSE IF Says(decl, "features.field_presence", "LEGACY_REQUIRED") THEN "Required"
                              ELSE "Optional"
<1>1. s \in Syntaxes /\ (s # "Proto2" => s = file.syntax)
  BY DEF scan_syntax, Syntaxes
<1> PICK o : o = decl.options
  OBVIOUS
<1>a. IsSeq(decl.options) /\ Len(decl.options) <= 1
  BY DEF UsualField
<1>2. /\ key_vals(o) = o
      /\ \A key, value, default : value # default =>
            (Value(o, key, default) = value <=> Says(decl, key, value))
      /\ \A key, default :
            (\A i \in DOMAIN o : o[i].key # key) => Value(o, key, default) = default
  BY <1>a, ValueIsSaid
<1>3. raw = IF decl.oneof THEN one_of(s) ELSE field_generic(s, decl, o)
  BY <1>2 DEF Field
<1>4. CASE decl.oneof
  <2>1. raw = one_of(s)
    BY <1>3, <1>4
  <2> QED
    BY <1>4, <2>1 DEF one_of
<1>5. CASE ~decl.oneof
  <2> PICK plain : plain = frequencies(s, decl, Value(o, "packed", "false") = "true")
    OBVIOUS
  <2>1. raw = IF s # "Edition" THEN plain
              ELSE repeated_field_encoding(o, decl.keyword, field_presence(o, plain))
    BY <1>3, <1>5 DEF field_generic
  <2>2. Value(o, "packed", "false") = "true" <=> Says(decl, "packed", "true")
    BY <1>2
  <2>3. /\ Value(o, "features.field_presence", "") = "IMPLICIT" <=> Says(decl, "features.field_presence", "IMPLICIT")
        /\ Value(o, "features.field_presence", "") = "LEGACY_REQUIRED" <=> Says(decl, "features.field_presence", "LEGACY_REQUIRED")
        /\ Value(o, "features.repeated_field_encoding", "") = "EXPANDED"
                <=> Says(decl, "features.repeated_field_encoding", "EXPANDED")
    BY <1>2
  <2>4. CASE decl.map
    <3>1. plain = "None" /\ decl.keyword = "none"
      BY <2>4 DEF frequencies, UsualField
    <3>2. field_presence(o, plain) \in {"None", "Plain", "Optional", "Required"}
      BY <3>1 DEF field_presence
    <3>3. repeated_field_encoding(o, decl.keyword, field_presence(o, plain)) = field_presence(o, plain)
      BY <3>1 DEF repeated_field_encoding
    <3> QED
      BY <1>5, <2>1, <2>4, <3>1, <3>2, <3>3
  <2>5. CASE ~decl.map
    <3>1. CASE decl.keyword = "required"
      <4>1. plain = "Required" /\ s # "Edition"
        BY <2>5, <3>1 DEF frequencies, InGrammar
      <4> QED
        BY <1>5, <2>1, <2>5, <3>1, <4>1
    <3>2. CASE decl.keyword = "optional"
      <4>1. plain = "Optional" /\ s # "Edition"
        BY <2>5, <3>2 DEF frequencies, InGrammar
      <4> QED
        BY <1>5, <2>1, <2>5, <3>2, <4>1
    <3>3. CASE decl.keyword = "repeated"
      <4>1. plain = IF s # "Proto2" \/ Says(decl, "packed", "true") THEN "Packed" ELSE "Repeated"
        BY <2>2, <2>5, <3>3 DEF frequencies
      <4>2. CASE s = "Edition" /\ file.syntax = "Edition"
        <5>1. Value(o, "features.field_presence", "") = ""
          BY <1>2, <3>3, <4>2 DEF UsualField
        <5>2. field_presence(o, plain) = "Packed"
          BY <4>1, <4>2, <5>1 DEF field_presence
        <5>3. repeated_field_encoding(o, decl.keyword, "Packed") =
                IF Says(decl, "features.repeated_field_encoding", "EXPANDED") THEN "Repeated" ELSE "Packed"
          BY <2>3, <3>3 DEF repeated_field_encoding
        <5> QED
          BY <1>5, <2>1, <2>5, <3>3, <4>2, <5>2, <5>3
      <4>3. CASE s # "Edition"
        BY <1>5, <2>1, <2>5, <3>3, <4>1, <4>3
      <4> QED
        BY <1>1, <4>2, <4>3
    <3>4. CASE decl.keyword = "none"
      <4>1. plain = [Proto2 |-> "None", Proto3 |-> "Plain", Edition |-> "Optional"][s]
        BY <2>5, <3>4 DEF frequencies
      <4>2. /\ s = "Proto2" => plain = "None"
            /\ s = "Proto3" => plain = "Plain"
            /\ s = "Edition" => plain = "Optional"
        BY <4>1
      <4>3. repeated_field_encoding(o, decl.keyword, field_presence(o, plain)) = field_presence(o, plain)
        BY <3>4 DEF repeated_field_encoding
      <4>4. s = "Edition" => field_presence(o, plain) =
                IF Says(decl, "features.field_presence", "IMPLICIT") THEN "Plain"
                ELSE IF Says(decl, "features.field_presence", "LEGACY_REQUIRED") THEN "Required"
                ELSE "Optional"
        BY <2>3, <4>2 DEF field_presence
      <4> QED
        BY <1>5, <2>1, <2>5, <3>4, <4>2, <4>3, <4>4
    <3> QED
      BY <3>1, <3>2, <3>3, <3>4 DEF UsualField, Keywords
  <2> QED
    BY <2>4, <2>5
<1> QED
  BY <1>4, <1>5

\* A label as the file of the field means it.
Right(root, file, decl, now) ==
    IF decl.oneof \/ decl.map THEN convert_field(root, now) \notin {"Packed", "Repeated"}
    ELSE convert_field(root, now) = Meant(file.syntax, decl, is_packable_scalar(now))

LEMMA LabelMeant ==
    ASSUME NEW root, NEW file, NEW decl, UsualSyntax(root, file), UsualField(file, decl),
           InGrammar(file, decl), ~Panics(file, decl), NEW now, NEW raw, raw = Field(file, decl).frequency,
           now.frequency = IF raw = "Packed" /\ ~is_primitive(now) THEN "Repeated" ELSE raw
    PROVE  Right(root, file, decl, now)
<1> PICK s : s = scan_syntax(file)
  OBVIOUS
<1>1. s = IF file.leading THEN "Proto2" ELSE file.syntax
  BY DEF scan_syntax
<1>2. file.syntax \in Syntaxes
  BY DEF UsualSyntax
<1> DEFINE Raw ==
           /\ decl.oneof => raw \in {"Plain", "Optional"}
           /\ ~decl.oneof /\ decl.map => raw \in {"None", "Plain", "Optional", "Required"}
           /\ ~decl.oneof /\ ~decl.map =>
                /\ decl.keyword = "required" => raw = "Required"
                /\ decl.keyword = "optional" => raw = "Optional"
                /\ decl.keyword = "repeated" =>
                    /\ s = "Proto2" => raw = IF Says(decl, "packed", "true") THEN "Packed" ELSE "Repeated"
                    /\ s = "Proto3" => raw = "Packed"
                    /\ s = "Edition" /\ file.syntax = "Edition" =>
                        raw = IF Says(decl, "features.repeated_field_encoding", "EXPANDED")
                              THEN "Repeated" ELSE "Packed"
                /\ decl.keyword = "none" =>
                    /\ s = "Proto2" => raw = "None"
                    /\ s = "Proto3" => raw = "Plain"
                    /\ s = "Edition" =>
                        raw = IF Says(decl, "features.field_presence", "IMPLICIT") THEN "Plain"
                              ELSE IF Says(decl, "features.field_presence", "LEGACY_REQUIRED") THEN "Required"
                              ELSE "Optional"
<1>3. Raw
  BY <1>2, RawLabel
<1>4. raw \in {"None", "Plain", "Optional", "Required", "Repeated", "Packed"}
  BY <1>1, <1>2, <1>3 DEF UsualField, Keywords, Syntaxes
<1> DEFINE label == convert_field(root, now)
           packable == is_packable_scalar(now)
<1>5. /\ raw = "None" => label = "Plain"
      /\ raw \in {"Plain", "Optional", "Required"} => label = raw
      /\ raw = "Packed" => label = IF packable THEN "Packed" ELSE "Repeated"
      /\ raw = "Repeated" => label = IF packable /\ root.syntax = "Proto3" THEN "Packed" ELSE "Repeated"
  BY <1>4, Converted
<1> HIDE DEF label, packable
<1>6. CASE decl.oneof \/ decl.map
  <2>1. label \notin {"Packed", "Repeated"}
    BY <1>3, <1>5, <1>6
  <2> QED
    BY <1>6, <2>1 DEF Right, label
<1>7. CASE ~(decl.oneof \/ decl.map)
  <2>1. label = Meant(file.syntax, decl, packable)
    <3>1. CASE decl.keyword = "required" \/ decl.keyword = "optional"
      BY <1>3, <1>5, <1>7, <3>1 DEF Meant
    <3>2. CASE decl.keyword = "repeated"
      <4>1. Meant(file.syntax, decl, packable) =
                IF packable /\ WantsPacked(file.syntax, decl) THEN "Packed" ELSE "Repeated"
        BY <3>2 DEF Meant
      <4>2. CASE file.syntax = "Proto2"
        <5>1. s = "Proto2" /\ root.syntax # "Proto3"
          BY <1>1, <4>2 DEF UsualSyntax
        <5>2. WantsPacked(file.syntax, decl) <=> Says(decl, "packed", "true")
          BY <4>2 DEF WantsPacked
        <5> QED
          BY <1>3, <1>5, <1>7, <3>2, <4>1, <5>1, <5>2
      <4>3. CASE file.syntax = "Proto3"
        <5>1. WantsPacked(file.syntax, decl)
          BY <4>3 DEF WantsPacked, UsualField
        <5>2. CASE file.leading
          <6>1. s = "Proto2" /\ root.syntax = "Proto3"
            BY <1>1, <4>3, <5>2 DEF UsualSyntax
          <6> QED
            BY <1>3, <1>5, <1>7, <3>2, <4>1, <5>1, <6>1
        <5>3. CASE ~file.leading
          <6>1. s = "Proto3"
            BY <1>1, <4>3, <5>3
          <6> QED
            BY <1>3, <1>5, <1>7, <3>2, <4>1, <5>1, <6>1
        <5> QED
          BY <5>2, <5>3
      <4>4. CASE file.syntax = "Edition"
        <5>1. s = "Edition" /\ root.syntax # "Proto3"
          BY <1>1, <4>4 DEF UsualSyntax
        <5>2. WantsPacked(file.syntax, decl) <=> ~Says(decl, "features.repeated_field_encoding", "EXPANDED")
          BY <4>4 DEF WantsPacked
        <5> QED
          BY <1>3, <1>5, <1>7, <3>2, <4>1, <4>4, <5>1, <5>2
      <4> QED
        BY <1>2, <4>2, <4>3, <4>4 DEF Syntaxes
    <3>3. CASE decl.keyword = "none"
      <4>1. Meant(file.syntax, decl, packable) =
                IF file.syntax = "Proto3" \/ Says(decl, "features.field_presence", "IMPLICIT") THEN "Plain"
                ELSE IF Says(decl, "features.field_presence", "LEGACY_REQUIRED") THEN "Required"
                ELSE "Optional"
        BY <3>3 DEF Meant
      <4>2. file.syntax # "Proto2"
        BY <1>7, <3>3 DEF UsualField
      <4>3. CASE file.syntax = "Proto3"
        <5>1. s = "Proto2" \/ s = "Proto3"
          BY <1>1, <4>3
        <5> QED
          BY <1>3, <1>5, <1>7, <3>3, <4>1, <4>3, <5>1
      <4>4. CASE file.syntax = "Edition"
        <5>1. s = "Edition"
          BY <1>1, <4>4 DEF UsualSyntax
        <5> QED
          BY <1>3, <1>5, <1>7, <3>3, <4>1, <4>4, <5>1
      <4> QED
        BY <1>2, <4>2, <4>3, <4>4 DEF Syntaxes
    <3> QED
      BY <3>1, <3>2, <3>3 DEF UsualField, Keywords
  <2> QED
    BY <1>7, <2>1 DEF Right, label, packable
<1> QED
  BY <1>6, <1>7

\* If no full name ends another's, and the fields and syntaxes are usual ones, every field is
\* generated with the label that its own file gives it, although the parser labels it before its
\* type is known and maybe for another syntax, the resolver settles the label once in every list
\* the field gets into, and the generator looks at the syntax of the root (pb_rs
\* parser.rs:309-411, types.rs:828-839, tacky-build parser.rs:241-269).
THEOREM LabelsWritten == GSpec => [](Packaged /\ Clear /\ Usual => LabelAsWritten)
<1>1. /\ IInv /\ SourceInv /\ CodeInv /\ RootInv
      /\ (Packaged /\ Clear => CoverInv /\ MeaningInv /\ LabelInv)
      => (Packaged /\ Clear /\ Usual => LabelAsWritten)
  <2> SUFFICES ASSUME IInv, SourceInv, CodeInv, RootInv, CoverInv, MeaningInv, LabelInv,
                      Packaged, Clear, Usual
               PROVE  LabelAsWritten
    OBVIOUS
  <2>1. CASE code = NoModule("none") \/ code = NoModule("panic")
    <3>1. code.labels = << >>
      BY <2>1 DEF NoModule
    <3>2. DOMAIN code.labels = {}
      BY <3>1
    <3> QED
      BY <3>2 DEF LabelAsWritten
  <2>2. CASE outcome = "ok" /\ fs[desc.file].package # << >> /\ code = Module(desc.file, desc.defs)
    <3>1. desc.file = Root /\ Root \in DOMAIN fs /\ fs \in Schemas
      BY <2>2, ResolverAssumption DEF RootInv, IInv
    <3>2. Root # << >> /\ desc # NoDesc
      BY <3>1, ResolverAssumption DEF NoDesc
    <3>3. code.labels = [s \in Slots(desc.defs) |-> convert_field(fs[Root], FieldAt(desc.defs, s))]
      BY <2>2, <3>1 DEF Module, Labels
    <3>at. /\ DOMAIN code.labels = Slots(desc.defs)
          /\ \A s \in Slots(desc.defs) : code.labels[s] = convert_field(fs[Root], FieldAt(desc.defs, s))
      BY <3>3
    <3> SUFFICES ASSUME NEW s \in Slots(desc.defs)
                 PROVE  Right(fs[Root], fs[desc.defs[s[1]].path[1]],
                              PartsOf(desc.defs[s[1]].path)[s[2]].fields[s[3]], FieldAt(desc.defs, s))
      <4>1. SUFFICES ASSUME NEW s \in DOMAIN code.labels
                   PROVE  LET d == desc.defs[s[1]]
                              decl == PartsOf(d.path)[s[2]].fields[s[3]]
                              field == FieldAt(desc.defs, s)
                          IN  IF decl.oneof \/ decl.map THEN code.labels[s] \notin {"Packed", "Repeated"}
                              ELSE code.labels[s] = Meant(fs[d.path[1]].syntax, decl, is_packable_scalar(field))
        BY DEF LabelAsWritten
      <4>2. s \in Slots(desc.defs) /\ code.labels[s] = convert_field(fs[Root], FieldAt(desc.defs, s))
        BY <3>at
      <4> QED
        BY ONLY <4>2, \A s_ \in Slots(desc.defs) : Right(fs[Root], fs[desc.defs[s_[1]].path[1]],
                              PartsOf(desc.defs[s_[1]].path)[s_[2]].fields[s_[3]], FieldAt(desc.defs, s_)) DEF Right
    <3>4. PICK defs : defs = desc.defs
      OBVIOUS
    <3>5. PICK i \in DOMAIN defs : \E j \in DOMAIN defs[i].parts : \E k \in DOMAIN defs[i].parts[j].fields :
              s = <<i, j, k>>
      <4>1. PICK x \in Places(defs) : \E k \in DOMAIN defs[x[1]].parts[x[2]].fields : s = <<x[1], x[2], k>>
        BY <3>4 DEF Slots
      <4>2. x[1] \in DOMAIN defs /\ x[2] \in DOMAIN defs[x[1]].parts
        BY PlaceIs
      <4> QED
        BY <4>1, <4>2
    <3>6. PICK j \in DOMAIN defs[i].parts : \E k \in DOMAIN defs[i].parts[j].fields : s = <<i, j, k>>
      BY <3>5
    <3>7. PICK k \in DOMAIN defs[i].parts[j].fields : s = <<i, j, k>>
      BY <3>6
    <3>8. s[1] = i /\ s[2] = j /\ s[3] = k
      BY <3>7
    <3>9. PICK p : p = defs[i].path
      OBVIOUS
    <3>10. PICK now : now = defs[i].parts[j].fields[k]
      OBVIOUS
    <3>11. PICK decl : decl = PartsOf(p)[j].fields[k]
      OBVIOUS
    <3>12. FieldAt(desc.defs, s) = now
      BY <3>4, <3>8, <3>10 DEF FieldAt
    <3>13. /\ Whole(defs, Root) /\ Told(defs) /\ Pointing(defs)
           /\ now.frequency = SettledLabel(p, j, k) /\ Parses(p[1])
      <4>1. Told(defs) /\ Pointing(defs) /\ AllSourced(defs)
        BY <3>4 DEF MeaningInv, SourceInv
      <4>2. Faithful(defs) /\ PathSet(defs) = PathsFrom(Root)
        BY <3>1, <3>2, <3>4 DEF CoverInv
      <4>3. LabelSettled(defs[i]) /\ Parses(p[1])
        BY <3>4, <3>9 DEF LabelInv
      <4> QED
        BY <3>9, <3>10, <4>1, <4>2, <4>3 DEF Whole, LabelSettled
    <3>14. Root \in Reach(Root)
      BY <3>1 DEF Reach
    <3>15. is_primitive(now) <=> MeantPrimitive(p, j, k)
      BY <3>1, <3>9, <3>10, <3>13, <3>14, TellsPrimitive
    <3>16. p \in PathsFrom(Root) /\ Sourced(defs[i])
      BY <3>9, <3>13 DEF Whole, AllSourced, PathSet
    <3>17. p[1] \in Reach(Root) /\ IsPath(p)
      BY <3>1, <3>16, PathsAre
    <3>18. decl \in Decls(p[1])
      <4>1. p[1] \in DOMAIN fs /\ p[2] \in DOMAIN fs[p[1]].defs
        BY <3>17 DEF IsPath
      <4>2. SamePart(defs[i].parts[j], PartsOf(p)[j]) /\ j \in DOMAIN PartsOf(p)
        BY <3>9, <3>16 DEF Sourced
      <4>3. k \in DOMAIN PartsOf(p)[j].fields
        BY <4>2 DEF SamePart
      <4>4. PartsOf(p) \in ToSet(fs[p[1]].defs)
        BY <4>1 DEF PartsOf, ToSet
      <4>5. PartsOf(p)[j] \in ToSet(PartsOf(p))
        BY <4>2 DEF ToSet
      <4>6. decl \in ToSet(PartsOf(p)[j].fields)
        BY <3>11, <4>3 DEF ToSet
      <4> QED
        BY <4>4, <4>5, <4>6 DEF Decls
    <3>19. UsualSyntax(fs[Root], fs[p[1]]) /\ UsualField(fs[p[1]], decl)
      BY <3>17, <3>18 DEF Usual
    <3>20. InGrammar(fs[p[1]], decl) /\ ~Panics(fs[p[1]], decl)
      BY <3>13, <3>18 DEF Parses, InTheGrammar, Crashes
    <3>21. PICK raw : raw = Field(fs[p[1]], decl).frequency
      OBVIOUS
    <3>22. now.frequency = IF raw = "Packed" /\ ~is_primitive(now) THEN "Repeated" ELSE raw
      BY <3>11, <3>13, <3>15, <3>21 DEF SettledLabel, ParsedLabel
    <3>23. Right(fs[Root], fs[p[1]], decl, now)
      BY <3>19, <3>20, <3>21, <3>22, LabelMeant
    <3> QED
      BY <3>4, <3>8, <3>9, <3>11, <3>12, <3>23
  <2> QED
    BY <2>1, <2>2 DEF CodeInv
<1> QED
  BY <1>1, GeneratorReads, CodeIsOf, Labelings, RootIsRead, PTL

-----------------------------------------------------------------------------
(* Which files can be read. *)

\* A file in order that leads to files in order, and to no imports that go round.
Fine(f) ==
    /\ \A g \in Reach(f) : InOrder(g)
    /\ \A S \in SUBSET Reach(f) : S # {} => \E g \in S : Imports(g) \cap S = {}

LEMMA FineRoot == Fine(Root) <=> ~Cyclic /\ \A f \in Reach(Root) : InOrder(f)
<1> PICK files : files = Reach(Root)
  OBVIOUS
<1>1. Cyclic <=> \E S \in SUBSET files : S # {} /\ \A f \in S : Imports(f) \cap S # {}
  BY DEF Cyclic
<1> QED
  BY <1>1 DEF Fine

\* A file is fine if it is in order and its imports are fine.
LEMMA FineIs ==
    ASSUME NEW f \in DOMAIN fs, InOrder(f), \A g \in Imports(f) : Fine(g)
    PROVE  Fine(f)
<1>1. Imports(f) \subseteq DOMAIN fs
  BY ImportsAre
<1>2. \A g : g \in Reach(f) <=> g = f \/ \E h \in Imports(f) : g \in Reach(h)
  BY ReachIs
<1>3. \A g \in Reach(f) : InOrder(g)
  BY <1>2 DEF Fine
<1>4. ASSUME NEW S \in SUBSET Reach(f), S # {}, \A g \in S : Imports(g) \cap S # {}
      PROVE  FALSE
  <2>1. ASSUME NEW h \in Imports(f), NEW s \in S, s \in Reach(h)
        PROVE  FALSE
    <3> DEFINE T == S \cap Reach(h)
    <3>1. T \in SUBSET Reach(h) /\ T # {}
      BY <2>1
    <3>2. PICK g \in T : Imports(g) \cap T = {}
      BY <3>1 DEF Fine
    <3>3. Imports(g) \subseteq Reach(h)
      BY <1>1, ReachThrough
    <3> QED
      BY <1>4, <3>2, <3>3
  <2>2. PICK s \in S : TRUE
    BY <1>4
  <2>3. \A t \in S : t = f
    BY <1>2, <2>1
  <2>4. f \in S /\ f \in Imports(f)
    BY <1>4, <2>2, <2>3
  <2>5. f \in Reach(f)
    BY ReachLeast
  <2> QED
    BY <2>1, <2>4, <2>5
<1> QED
  BY <1>3, <1>4 DEF Fine

\* What a fine file leads to is in order; a file that is not spoils those that lead to it.
LEMMA NotFine ==
    ASSUME NEW f \in Reach(Root), ~InOrder(f)
    PROVE  ~Fine(Root)
BY DEF Fine

\* A path of imports with more files than there are goes round.
LEMMA GoesRound ==
    ASSUME IsFiniteSet(Reach(Root)), NEW n \in Nat, Cardinality(Reach(Root)) <= n,
           NEW path \in [1..(n + 1) -> Reach(Root)],
           \A m \in 1..n : path[m + 1] \in Imports(path[m])
    PROVE  ~Fine(Root)
<1>1. PICK a \in 1..(n + 1), b \in 1..(n + 1) : a < b /\ path[a] = path[b]
  <2>1. IsFiniteSet(1..(n + 1)) /\ Cardinality(1..(n + 1)) = n + 1
    <3>1. IsFiniteSet(1..(n + 1)) /\ Cardinality(1..(n + 1)) = (IF 1 > n + 1 THEN 0 ELSE (n + 1) - 1 + 1)
      BY FS_Interval
    <3> QED
      BY <3>1
  <2>2. Cardinality(Reach(Root)) \in Nat
    BY FS_CardinalityType
  <2>3. Cardinality(Reach(Root)) < Cardinality(1..(n + 1))
    BY <2>1, <2>2
  <2>4. \E x, y \in 1..(n + 1) : x # y /\ path[x] = path[y]
    BY <2>1, <2>3, FS_PigeonHole
  <2>5. PICK x \in 1..(n + 1), y \in 1..(n + 1) : x # y /\ path[x] = path[y]
    BY <2>4
  <2>6. x < y \/ y < x
    BY <2>5
  <2> QED
    BY <2>5, <2>6
<1> DEFINE S == {path[m] : m \in a..(b - 1)}
<1>2. /\ a \in a..(b - 1) /\ a..(b - 1) \subseteq 1..n
      /\ \A m \in a..(b - 1) : m + 1 \in a..(b - 1) \/ m + 1 = b
  BY <1>1
<1>3. S \in SUBSET Reach(Root) /\ S # {}
  <2>1. 1..n \subseteq 1..(n + 1)
    OBVIOUS
  <2> QED
    BY <1>2, <2>1
<1>4. ASSUME NEW g \in S
      PROVE  Imports(g) \cap S # {}
  <2>1. PICK m \in a..(b - 1) : g = path[m]
    OBVIOUS
  <2>2. path[m + 1] \in Imports(g)
    BY <1>2, <2>1
  <2>3. path[m + 1] \in S
    BY <1>1, <1>2
  <2> QED
    BY <2>2, <2>3
<1> QED
  BY <1>3, <1>4 DEF Fine

-----------------------------------------------------------------------------
(* Which fields parse. *)

\* A field of which the parser sees what it says: one option at most, and a keyword of another
\* syntax only where the syntax is known.
ShownField(file, decl) ==
    /\ decl.keyword \in Keywords
    /\ IsSeq(decl.options) /\ Len(decl.options) <= 1
    /\ decl.map => decl.keyword = "none"
    /\ file.leading => Fits(file.syntax, decl)

Shown ==
    \A f \in Reach(Root) :
        /\ fs[f].syntax \in Syntaxes
        /\ \A decl \in Decls(f) : ShownField(fs[f], decl)

\* A value that should be a bool and is none is found in the one option there is.
LEMMA BadBoolIs ==
    ASSUME NEW decl, IsSeq(decl.options), Len(decl.options) <= 1
    PROVE  BadBool(key_vals(decl.options)) <=>
               \E i \in DOMAIN decl.options :
                   /\ decl.options[i].key \in {"packed", "deprecated"}
                   /\ decl.options[i].value \notin {"true", "false"}
<1> PICK o : o = decl.options
  OBVIOUS
<1>0. IsSeq(o) /\ Len(o) <= 1
  OBVIOUS
<1>1. Len(o) \in Nat /\ DOMAIN o = 1..Len(o) /\ key_vals(o) = o
  BY <1>0, SeqFacts DEF key_vals
<1>2. CASE Len(o) = 0
  <2>1. DOMAIN o = {} /\ o = << >>
    BY <1>0, <1>1, <1>2, SeqFacts
  <2> QED
    BY <1>1, <2>1 DEF BadBool, Value
<1>3. CASE Len(o) = 1
  <2>1. DOMAIN o = {1} /\ o # << >>
    BY <1>1, <1>3
  <2>2. Head(o) = o[1]
    BY <1>0, <1>3 DEF IsSeq
  <2>3. BadBool(o) <=> \E key \in {"packed", "deprecated"} : o[1].key = key /\ o[1].value \notin {"true", "false"}
    BY <2>1, <2>2 DEF BadBool, Value
  <2> QED
    BY <1>1, <2>1, <2>3
<1>4. Len(o) = 0 \/ Len(o) = 1
  <2>1. \A n \in Nat : n <= 1 => n = 0 \/ n = 1
    OBVIOUS
  <2>2. Len(o) \in Nat /\ Len(o) <= 1
    BY <1>0, <1>1
  <2> QED
    BY ONLY <2>1, <2>2
<1> QED
  BY <1>2, <1>3, <1>4

LEMMA FieldParses ==
    ASSUME NEW file, file.syntax \in Syntaxes, NEW decl, ShownField(file, decl)
    PROVE  InGrammar(file, decl) /\ ~Panics(file, decl) <=> Fits(file.syntax, decl)
<1> PICK s : s = scan_syntax(file)
  OBVIOUS
<1> PICK bad : bad = BadBool(key_vals(decl.options))
  OBVIOUS
<1>1. bad <=> \E i \in DOMAIN decl.options :
                   /\ decl.options[i].key \in {"packed", "deprecated"}
                   /\ decl.options[i].value \notin {"true", "false"}
  BY BadBoolIs DEF ShownField
<1>2. Fits(file.syntax, decl) <=>
        /\ decl.keyword = "required" => file.syntax = "Proto2"
        /\ decl.keyword = "optional" => file.syntax # "Edition"
        /\ ~bad
  BY <1>1 DEF Fits
<1>3. InGrammar(file, decl) <=> (s = "Edition" => decl.keyword \in {"none", "repeated"})
  BY DEF InGrammar
<1>4. Panics(file, decl) <=> bad \/ (~decl.map /\ decl.keyword = "required" /\ s = "Proto3")
  BY DEF Panics
<1>5. CASE file.leading
  <2>1. s = "Proto2" /\ Fits(file.syntax, decl)
    BY <1>5 DEF scan_syntax, ShownField
  <2> QED
    BY <1>2, <1>3, <1>4, <2>1
<1>6. CASE ~file.leading
  <2>1. s = file.syntax
    BY <1>6 DEF scan_syntax
  <2>2. decl.keyword \in {"none", "optional", "repeated", "required"} /\ (decl.map => decl.keyword = "none")
        /\ s \in {"Proto2", "Proto3", "Edition"}
    BY <2>1 DEF ShownField, Keywords, Syntaxes
  <2> QED
    BY <1>2, <1>3, <1>4, <2>1, <2>2
<1> QED
  BY <1>5, <1>6

\* A file parses if it is of the grammar and its fields are of its syntax.
LEMMA ParsesIs ==
    ASSUME Shown, NEW f \in Reach(Root)
    PROVE  Parses(f) <=> fs[f].grammatical /\ \A decl \in Decls(f) : Fits(fs[f].syntax, decl)
<1>1. \A decl \in Decls(f) :
          InGrammar(fs[f], decl) /\ ~Panics(fs[f], decl) <=> Fits(fs[f].syntax, decl)
  BY FieldParses DEF Shown
<1> QED
  BY <1>1 DEF Parses, InTheGrammar, Crashes

-----------------------------------------------------------------------------
(* What is checked of a message stays as it was written. *)

\* What sanity_checks looks at in a message.
SameGuards(p, q) ==
    /\ p.reserved = q.reserved /\ DOMAIN p.fields = DOMAIN q.fields
    /\ \A k \in DOMAIN p.fields :
          p.fields[k].number = q.fields[k].number /\ p.fields[k].default = q.fields[k].default

Guarded(d) == SameGuards(d.parts[1], message(fs[d.path[1]], PartsOf(d.path)[1]))

GuardInv ==
    /\ \A n \in DOMAIN stack : \A i \in DOMAIN stack[n].defs : Guarded(stack[n].defs[i])
    /\ \A i \in DOMAIN incoming : Guarded(incoming[i])
    /\ \A i \in DOMAIN desc.defs : Guarded(desc.defs[i])

LEMMA SameGuarded ==
    ASSUME fs' = fs
    PROVE  \A d : Guarded(d)' <=> Guarded(d)
BY DEF Guarded, PartsOf

LEMMA GuardsOf ==
    ASSUME NEW p, NEW q, SameGuards(p, q)
    PROVE  /\ \A k : k \in DOMAIN p.fields <=> k \in DOMAIN q.fields
           /\ \A k \in DOMAIN p.fields :
                Conflicts(p, p.fields[k]) \/ p.fields[k].default
                <=> Conflicts(q, q.fields[k]) \/ q.fields[k].default
BY DEF SameGuards, Conflicts

\* A definition keeps its guards if its first part does.
LEMMA GuardsKept ==
    ASSUME NEW new, NEW d, Guarded(d), new.path = d.path, SameGuards(new.parts[1], d.parts[1])
    PROVE  Guarded(new)
<1> PICK m : m = message(fs[d.path[1]], PartsOf(d.path)[1])
  OBVIOUS
<1> PICK p : p = new.parts[1]
  OBVIOUS
<1> PICK q : q = d.parts[1]
  OBVIOUS
<1>1. SameGuards(q, m) /\ SameGuards(p, q)
  BY DEF Guarded
<1>2. SameGuards(p, m)
  BY <1>1 DEF SameGuards
<1> QED
  BY <1>2 DEF Guarded

LEMMA OwnGuarded ==
    ASSUME fs \in Schemas, NEW f \in DOMAIN fs
    PROVE  \A i \in DOMAIN OwnDefs(f) : Guarded(OwnDefs(f)[i]) /\ OwnDefs(f)[i].parts[1] = message(fs[f], fs[f].defs[i][1])
<1> DEFINE own == OwnDefs(f)
<1>1. ASSUME NEW i \in DOMAIN own
      PROVE  Guarded(own[i]) /\ own[i].parts[1] = message(fs[f], fs[f].defs[i][1])
  <2>1. i \in DOMAIN fs[f].defs /\ own[i].path = <<f, i>>
    BY OwnFacts
  <2>2. own[i].parts = [j \in DOMAIN fs[f].defs[i] |-> message(fs[f], fs[f].defs[i][j])]
    BY <2>1 DEF OwnDefs
  <2>3. 1 \in DOMAIN fs[f].defs[i]
    BY <2>1, ResolverAssumption, WrittenFacts
  <2>4. own[i].parts[1] = message(fs[f], fs[f].defs[i][1])
    BY <2>2, <2>3
  <2>5. PartsOf(own[i].path) = fs[f].defs[i] /\ own[i].path[1] = f
    BY <2>1 DEF PartsOf
  <2> HIDE DEF own
  <2>6. \A m : SameGuards(m, m)
    BY DEF SameGuards
  <2> QED
    BY <2>4, <2>5, <2>6 DEF Guarded
<1> QED
  BY <1>1

\* Fields of a part, replaced by fields of the same number and default.
LEMMA WithFieldsGuarded ==
    ASSUME NEW d, 1 \in DOMAIN d.parts, NEW fields, DOMAIN fields[1] = DOMAIN d.parts[1].fields,
           \A k \in DOMAIN fields[1] : /\ fields[1][k].number = d.parts[1].fields[k].number
                                       /\ fields[1][k].default = d.parts[1].fields[k].default
    PROVE  SameGuards(WithFields(d, fields).parts[1], d.parts[1])
<1> DEFINE part(j) == [kind |-> d.parts[j].kind, name |-> d.parts[j].name,
                       oneofs |-> d.parts[j].oneofs, reserved |-> d.parts[j].reserved, fields |-> fields[j]]
<1>1. WithFields(d, fields).parts = [j \in DOMAIN d.parts |-> part(j)]
  BY DEF WithFields
<1> HIDE DEF part
<1>2. WithFields(d, fields).parts[1] = part(1)
  BY <1>1
<1>3. part(1).reserved = d.parts[1].reserved /\ part(1).fields = fields[1]
  BY DEF part
<1> QED
  BY <1>2, <1>3 DEF SameGuards

LEMMA ResolvedGuarded ==
    ASSUME NEW defs, NEW i \in DOMAIN defs, 1 \in DOMAIN defs[i].parts, Guarded(defs[i])
    PROVE  Guarded(Resolved(defs)[i])
<1> DEFINE fields == [j \in DOMAIN defs[i].parts |->
                        [k \in DOMAIN defs[i].parts[j].fields |->
                            resolve_field(defs, FullName(defs[i], j), defs[i].parts[j].fields[k])]]
<1>1. Resolved(defs)[i] = WithFields(defs[i], fields)
  BY DEF Resolved
<1>2. DOMAIN fields[1] = DOMAIN defs[i].parts[1].fields
      /\ \A k \in DOMAIN fields[1] : fields[1][k] = resolve_field(defs, FullName(defs[i], 1), defs[i].parts[1].fields[k])
  OBVIOUS
<1>3. \A scope, f : resolve_field(defs, scope, f).number = f.number
                    /\ resolve_field(defs, scope, f).default = f.default
  BY DEF resolve_field, WithType
<1> HIDE DEF fields
<1>4. SameGuards(WithFields(defs[i], fields).parts[1], defs[i].parts[1])
  BY <1>2, <1>3, WithFieldsGuarded
<1>5. Resolved(defs)[i].path = defs[i].path
  BY ResolvedFacts
<1> QED
  BY <1>1, <1>4, <1>5, GuardsKept

LEMMA ReceivedGuarded ==
    ASSUME NEW defs, NEW i \in DOMAIN defs, 1 \in DOMAIN defs[i].parts, Guarded(defs[i]), NEW package
    PROVE  Guarded(Adopted(Unresolved(defs)[i], package))
<1> DEFINE fields == [j \in DOMAIN defs[i].parts |->
                        [k \in DOMAIN defs[i].parts[j].fields |->
                            WithType(defs[i].parts[j].fields[k],
                                     AsName(defs, defs[i].parts[j].fields[k].typ))]]
<1>1. Unresolved(defs)[i] = WithFields(defs[i], fields)
  BY DEF Unresolved
<1>2. DOMAIN fields[1] = DOMAIN defs[i].parts[1].fields
      /\ \A k \in DOMAIN fields[1] : fields[1][k] = WithType(defs[i].parts[1].fields[k],
                                                             AsName(defs, defs[i].parts[1].fields[k].typ))
  OBVIOUS
<1>3. \A f, typ : WithType(f, typ).number = f.number /\ WithType(f, typ).default = f.default
  BY DEF WithType
<1> HIDE DEF fields
<1>4. SameGuards(WithFields(defs[i], fields).parts[1], defs[i].parts[1])
  BY <1>2, <1>3, WithFieldsGuarded
<1>5. Adopted(Unresolved(defs)[i], package).path = defs[i].path
      /\ Adopted(Unresolved(defs)[i], package).parts = WithFields(defs[i], fields).parts
  BY <1>1, WithFieldsFacts DEF Adopted, WithFields
<1> QED
  BY <1>4, <1>5, GuardsKept

LEMMA GuardStep == IInv /\ SourceInv /\ GuardInv /\ [Next]_vars => GuardInv'
<1> SUFFICES ASSUME IInv, SourceInv, GuardInv, [Next]_vars
             PROVE  GuardInv'
  OBVIOUS
<1>0. fs' = fs
  BY FilesStay
<1>1. CASE Halts
  <2>1. UNCHANGED <<fs, stack, incoming, desc>>
    BY <1>1, HaltsKeeps
  <2> QED
    BY <2>1, SameGuarded DEF GuardInv
<1>2. CASE OpenImport
  <2>1. /\ Running /\ UNCHANGED <<fs, incoming, desc, outcome>>
    BY <1>2, OpenImportDoes
  <2>2. PICK g \in Matches(Top.file, Import) :
          /\ g \in DOMAIN fs
          /\ DOMAIN stack' = 1..(Len(stack) + 1)
          /\ \A n \in Below : stack'[n] = stack[n]
          /\ stack'[Len(stack)] = Frame(Top.file, Top.defs, Top.next + 1)
          /\ stack'[Len(stack) + 1] = Call(g)
    BY <1>2, OpenImportDoes
  <2>3. /\ Len(stack) \in Nat \ {0} /\ Len(stack) \in DOMAIN stack /\ Below \subseteq DOMAIN stack
        /\ Top = stack[Len(stack)]
    BY <2>1, TopThere
  <2>4. Call(g).defs = OwnDefs(g) /\ \A i \in DOMAIN OwnDefs(g) : Guarded(OwnDefs(g)[i])
    BY <2>2, OwnSourced, OwnGuarded DEF IInv
  <2>5. ASSUME NEW n \in DOMAIN stack'
        PROVE  \A i \in DOMAIN stack'[n].defs : Guarded(stack'[n].defs[i])
    <3>1. CASE n \in Below
      BY <2>2, <2>3, <3>1 DEF GuardInv
    <3>2. CASE n = Len(stack)
      BY <2>2, <2>3, <3>2, FrameFacts DEF GuardInv
    <3>3. CASE n = Len(stack) + 1
      BY <2>2, <2>4, <3>3
    <3> QED
      BY <2>2, <2>3, <3>1, <3>2, <3>3 DEF Below
  <2> QED
    BY <2>1, <2>5, SameGuarded DEF GuardInv
<1>3. CASE Return
  <2>1. /\ Running /\ UNCHANGED <<fs, incoming>>
        /\ desc' = [defs |-> Resolved(Top.defs), file |-> Top.file]
        /\ DOMAIN stack' = Below /\ \A n \in Below : stack'[n] = stack[n]
    BY <1>3, ReturnDoes
  <2>2. /\ Len(stack) \in DOMAIN stack /\ Below \subseteq DOMAIN stack /\ Top = stack[Len(stack)]
    BY <2>1, TopThere
  <2> DEFINE defs == Top.defs
  <2>3. HasItself(defs) /\ \A i \in DOMAIN defs : Guarded(defs[i])
    BY <2>2 DEF IInv, Listed, GuardInv
  <2>4. desc'.defs = Resolved(defs)
    BY <2>1
  <2> HIDE DEF defs
  <2>5. DOMAIN Resolved(defs) = DOMAIN defs
    BY ResolvedFacts
  <2>6. \A i \in DOMAIN desc'.defs : Guarded(desc'.defs[i])
    BY <2>3, <2>4, <2>5, ResolvedGuarded DEF HasItself
  <2>7. \A n \in DOMAIN stack' : \A i \in DOMAIN stack'[n].defs : Guarded(stack'[n].defs[i])
    BY <2>1, <2>2 DEF GuardInv
  <2> QED
    BY <2>1, <2>6, <2>7, SameGuarded DEF GuardInv
<1>4. CASE Receive
  <2>1. /\ UNCHANGED <<fs, stack, outcome>> /\ desc' = NoDesc
        /\ DOMAIN incoming' = DOMAIN desc.defs
        /\ \A i \in DOMAIN desc.defs :
              incoming'[i] = Adopted(Unresolved(desc.defs)[i], fs[desc.file].package)
    BY <1>4, ReceiveDoes
  <2>2. HasItself(desc.defs) /\ \A i \in DOMAIN desc.defs : Guarded(desc.defs[i])
    BY DEF IInv, Returned, GuardInv
  <2>3. \A i \in DOMAIN incoming' : Guarded(incoming'[i])
    BY <2>1, <2>2, ReceivedGuarded DEF HasItself
  <2>4. DOMAIN desc'.defs = {}
    BY <2>1 DEF NoDesc
  <2> QED
    BY <2>1, <2>3, <2>4, SameGuarded DEF GuardInv
<1>5. CASE MergeNext
  <2> DEFINE d == incoming[1]
             defs == Top.defs
             new == IF IsMerged(d, defs) THEN defs ELSE Append(defs, d)
  <2>1. /\ Running /\ UNCHANGED <<fs, desc, outcome>>
        /\ DOMAIN stack' = DOMAIN stack /\ (\A n \in Below : stack'[n] = stack[n])
        /\ stack'[Len(stack)].defs = new
        /\ 1 \in DOMAIN incoming
        /\ \A i \in DOMAIN incoming' : i + 1 \in DOMAIN incoming /\ incoming'[i] = incoming[i + 1]
    BY <1>5, MergeNextDoes
  <2>2. /\ Len(stack) \in DOMAIN stack /\ Below \subseteq DOMAIN stack /\ Top = stack[Len(stack)]
        /\ \A n \in DOMAIN stack : n \in Below \/ n = Len(stack)
    BY <2>1, TopThere
  <2>3. Guarded(d) /\ IsSeq(defs) /\ \A i \in DOMAIN defs : Guarded(defs[i])
    BY <2>1, <2>2 DEF GuardInv, IInv, Listed
  <2> HIDE DEF d, defs
  <2>4. \A i \in DOMAIN Append(defs, d) :
           \/ i \in DOMAIN defs /\ Append(defs, d)[i] = defs[i]
           \/ Append(defs, d)[i] = d
    <3>1. /\ DOMAIN Append(defs, d) = 1..(Len(defs) + 1)
          /\ \A i \in 1..Len(defs) : Append(defs, d)[i] = defs[i]
          /\ Append(defs, d)[Len(defs) + 1] = d
          /\ Len(defs) \in Nat /\ DOMAIN defs = 1..Len(defs)
      BY <2>3, AppendFacts, SeqFacts
    <3>2. \A i \in DOMAIN Append(defs, d) : i \in DOMAIN defs \/ i = Len(defs) + 1
      BY <3>1
    <3> QED
      BY <3>1, <3>2
  <2>5. \A i \in DOMAIN new : Guarded(new[i])
    BY <2>3, <2>4
  <2> HIDE DEF new
  <2>6. \A n \in DOMAIN stack' : \A i \in DOMAIN stack'[n].defs : Guarded(stack'[n].defs[i])
    BY <2>1, <2>2, <2>5 DEF GuardInv
  <2>7. \A i \in DOMAIN incoming' : Guarded(incoming'[i])
    BY <2>1 DEF GuardInv
  <2> QED
    BY <2>1, <2>6, <2>7, SameGuarded DEF GuardInv
<1> QED
  BY <1>1, <1>2, <1>3, <1>4, <1>5, Steps

LEMMA GuardsStay == Spec => []GuardInv
<1>1. Init => GuardInv
  <2> SUFFICES ASSUME Init
               PROVE  GuardInv
    OBVIOUS
  <2>1. fs \in Schemas /\ Root \in DOMAIN fs
    BY ResolverAssumption DEF Init
  <2>2. stack = <<Call(Root)>> /\ desc.defs = << >> /\ incoming = << >>
    BY DEF Init, NoDesc
  <2>3. DOMAIN stack = {1} /\ stack[1] = Call(Root) /\ DOMAIN desc.defs = {} /\ DOMAIN incoming = {}
    BY <2>2
  <2>4. Call(Root).defs = OwnDefs(Root)
    BY <2>1, OwnSourced
  <2> QED
    BY <2>1, <2>3, <2>4, OwnGuarded DEF GuardInv
<1> QED
  BY <1>1, GuardStep, ListsInOrder, AllFromFiles, PTL DEF Spec

\* A field that sanity_checks does not let pass.
Odd(part, k) == Conflicts(part, part.fields[k]) \/ part.fields[k].default

LEMMA InsaneIs ==
    ASSUME NEW defs
    PROVE  Insane(defs) # {} <=>
               \E i \in DOMAIN defs : \E k \in DOMAIN defs[i].parts[1].fields : Odd(defs[i].parts[1], k)
<1> DEFINE pairs == UNION {{<<i, k>> : k \in DOMAIN defs[i].parts[1].fields} : i \in DOMAIN defs}
<1>1. \A i, k : <<i, k>> \in pairs <=> i \in DOMAIN defs /\ k \in DOMAIN defs[i].parts[1].fields
  OBVIOUS
<1>2. \A x \in pairs : x = <<x[1], x[2]>>
  OBVIOUS
<1>3. Insane(defs) = {x \in pairs : Odd(defs[x[1]].parts[1], x[2])}
  BY DEF Insane, Odd
<1> HIDE DEF pairs
<1>4. ASSUME NEW x \in pairs, Odd(defs[x[1]].parts[1], x[2])
      PROVE  \E i \in DOMAIN defs : \E k \in DOMAIN defs[i].parts[1].fields : Odd(defs[i].parts[1], k)
  BY <1>1, <1>2, <1>4
<1>5. ASSUME NEW i \in DOMAIN defs, NEW k \in DOMAIN defs[i].parts[1].fields, Odd(defs[i].parts[1], k)
      PROVE  \E x \in pairs : Odd(defs[x[1]].parts[1], x[2])
  <2> DEFINE x == <<i, k>>
  <2>1. x \in pairs /\ x[1] = i /\ x[2] = k
    BY <1>1
  <2> HIDE DEF x
  <2> QED
    BY <1>5, <2>1
<1> QED
  BY <1>3, <1>4, <1>5

\* What is odd in a list is odd in the file it is from.
LEMMA InsaneSomewhere ==
    ASSUME fs \in Schemas, NEW f \in DOMAIN fs, NEW defs, Whole(defs, f),
           \A i \in DOMAIN defs : Guarded(defs[i])
    PROVE  Insane(defs) # {} <=> \E g \in Reach(f) : Insane(OwnDefs(g)) # {}
<1>1. ASSUME NEW i \in DOMAIN defs
      PROVE  /\ defs[i].path \in PathsFrom(f)
             /\ \A k : k \in DOMAIN defs[i].parts[1].fields /\ Odd(defs[i].parts[1], k) <=>
                       k \in DOMAIN message(fs[defs[i].path[1]], PartsOf(defs[i].path)[1]).fields
                       /\ Odd(message(fs[defs[i].path[1]], PartsOf(defs[i].path)[1]), k)
  <2> PICK m : m = message(fs[defs[i].path[1]], PartsOf(defs[i].path)[1])
    OBVIOUS
  <2> PICK p : p = defs[i].parts[1]
    OBVIOUS
  <2>1. SameGuards(p, m)
    BY DEF Guarded
  <2>2. \A k : k \in DOMAIN p.fields /\ Odd(p, k) <=> k \in DOMAIN m.fields /\ Odd(m, k)
    BY <2>1, GuardsOf DEF Odd
  <2>3. defs[i].path \in PathsFrom(f)
    BY DEF Whole, PathSet
  <2> QED
    BY <2>2, <2>3
<1>2. ASSUME NEW g \in DOMAIN fs
      PROVE  /\ DOMAIN OwnDefs(g) = DOMAIN fs[g].defs
             /\ \A i \in DOMAIN fs[g].defs :
                   OwnDefs(g)[i].parts[1] = message(fs[g], fs[g].defs[i][1])
  BY OwnFacts, OwnGuarded
<1>3. \A p \in PathsFrom(f) : /\ p[1] \in Reach(f) /\ p[1] \in DOMAIN fs /\ p[2] \in DOMAIN fs[p[1]].defs
                              /\ PartsOf(p)[1] = fs[p[1]].defs[p[2]][1]
  BY PathsAre DEF IsPath, PartsOf
<1>4. Reach(f) \subseteq DOMAIN fs
  BY DEF Reach
<1>5. ASSUME NEW i \in DOMAIN defs, NEW k \in DOMAIN defs[i].parts[1].fields, Odd(defs[i].parts[1], k)
      PROVE  \E g \in Reach(f) : Insane(OwnDefs(g)) # {}
  <2> PICK g : g = defs[i].path[1]
    OBVIOUS
  <2> PICK n : n = defs[i].path[2]
    OBVIOUS
  <2>1. g \in Reach(f) /\ g \in DOMAIN fs /\ n \in DOMAIN fs[g].defs
        /\ PartsOf(defs[i].path)[1] = fs[g].defs[n][1]
    BY <1>1, <1>3
  <2> PICK m : m = message(fs[g], fs[g].defs[n][1])
    OBVIOUS
  <2>2. k \in DOMAIN m.fields /\ Odd(m, k)
    BY <1>1, <1>5, <2>1
  <2>3. n \in DOMAIN OwnDefs(g) /\ OwnDefs(g)[n].parts[1] = m
    BY <1>2, <2>1
  <2>4. Insane(OwnDefs(g)) # {}
    BY <2>2, <2>3, InsaneIs
  <2> QED
    BY <2>1, <2>4
<1>6. ASSUME NEW g \in Reach(f), Insane(OwnDefs(g)) # {}
      PROVE  \E i \in DOMAIN defs : \E k \in DOMAIN defs[i].parts[1].fields : Odd(defs[i].parts[1], k)
  <2>1. PICK n \in DOMAIN OwnDefs(g) : \E k \in DOMAIN OwnDefs(g)[n].parts[1].fields : Odd(OwnDefs(g)[n].parts[1], k)
    BY <1>6, InsaneIs
  <2>2. PICK k \in DOMAIN OwnDefs(g)[n].parts[1].fields : Odd(OwnDefs(g)[n].parts[1], k)
    BY <2>1
  <2> DEFINE p == <<g, n>>
  <2>3. g \in DOMAIN fs /\ n \in DOMAIN fs[g].defs /\ OwnDefs(g)[n].parts[1] = message(fs[g], fs[g].defs[n][1])
    BY <1>2, <1>4
  <2>4. p \in PathsFrom(f) /\ p[1] = g /\ p[2] = n
    BY <2>3 DEF PathsFrom, PathsOf
  <2> HIDE DEF p
  <2>5. PICK i \in DOMAIN defs : defs[i].path = p
    BY <2>4 DEF Whole, PathSet
  <2> PICK m : m = message(fs[g], fs[g].defs[n][1])
    OBVIOUS
  <2>6. k \in DOMAIN m.fields /\ Odd(m, k)
    BY <2>2, <2>3
  <2>7. m = message(fs[defs[i].path[1]], PartsOf(defs[i].path)[1])
    BY <1>3, <2>4, <2>5
  <2>8. k \in DOMAIN defs[i].parts[1].fields /\ Odd(defs[i].parts[1], k)
    BY <1>1, <2>6, <2>7
  <2> QED
    BY <2>8
<1> QED
  BY <1>5, <1>6, InsaneIs

LEMMA DepthOf ==
    ASSUME NEW n \in Nat, NEW m \in 0..n
    PROVE  n + 1 - m \in 1..(n + 1) /\ n + 1 - (n + 1 - m) = m
OBVIOUS

\* A name of the file itself that is found nowhere means nothing.
LEMMA Meaningless ==
    ASSUME fs \in Schemas, NEW p, p[1] \in DOMAIN fs, NEW defs, Whole(defs, p[1]),
           NEW j, NEW typ, NEW scope, scope = fs[p[1]].package \o PartsOf(p)[j].name, IsSeq(scope),
           \A h \in DOMAIN test_names(scope, typ) : ~IsDefined(defs, test_names(scope, typ)[h])
    PROVE  Meaning(p, j, typ) = {}
<1> DEFINE visible == PathsFrom(p[1])
           Seen(m) == DeclaredAs(visible, SubSeq(scope, 1, m) \o typ.name)
           depths == {m \in 0..Len(scope) : Seen(m) # {}}
           names == test_names(scope, typ)
<1>1. Meaning(p, j, typ) = IF typ.abs THEN DeclaredAs(visible, typ.name)
                           ELSE IF depths = {} THEN {} ELSE Seen(Max(depths))
  BY DEF Meaning
<1>2. \A name : IsDefined(defs, name) <=> DeclaredAs(visible, name) # {}
  BY DefinedIsDeclared
<1>3. CASE typ.abs
  <2>1. names = <<typ.name>>
    BY <1>3 DEF test_names
  <2>2. 1 \in DOMAIN names /\ names[1] = typ.name
    BY <2>1
  <2>3. ~IsDefined(defs, typ.name)
    BY <2>2
  <2> QED
    BY <1>1, <1>2, <1>3, <2>3
<1>4. CASE ~typ.abs
  <2>1. Len(scope) \in Nat
    BY SeqFacts
  <2>2. names = [h \in 1 .. Len(scope) + 1 |-> SubSeq(scope, 1, Len(scope) + 1 - h) \o typ.name]
    BY <1>4 DEF test_names
  <2>3. DOMAIN names = 1..(Len(scope) + 1)
        /\ \A h \in 1..(Len(scope) + 1) : names[h] = SubSeq(scope, 1, Len(scope) + 1 - h) \o typ.name
    BY <2>2
  <2>4. ASSUME NEW m \in 0..Len(scope)
        PROVE  Seen(m) = {}
    <3> DEFINE h == Len(scope) + 1 - m
    <3>1. h \in 1..(Len(scope) + 1) /\ Len(scope) + 1 - h = m
      BY ONLY <2>1, <2>4, DepthOf
    <3>2. names[h] = SubSeq(scope, 1, m) \o typ.name
      BY <2>3, <3>1
    <3>3. ~IsDefined(defs, names[h])
      BY <2>3, <3>1
    <3> HIDE DEF h, names
    <3> QED
      BY <1>2, <3>2, <3>3
  <2>5. depths = {}
    BY <2>4
  <2> QED
    BY <1>1, <1>4, <2>5
<1> QED
  BY <1>3, <1>4

\* One of the names a type may stand for is there.
IsFound(defs, scope, typ) ==
    \E h \in DOMAIN test_names(scope, typ) : IsDefined(defs, test_names(scope, typ)[h])

\* A full name is found, whatever scope it is looked up from.
LEMMA FullNameFound ==
    ASSUME fs \in Schemas, NEW f \in DOMAIN fs, NEW defs, Whole(defs, f),
           NEW item \in ItemsIn(PathsFrom(f)), NEW scope, IsSeq(scope)
    PROVE  IsFound(defs, scope, MessageOrEnum(FALSE, NameOf(item)))
<1> DEFINE typ == MessageOrEnum(FALSE, NameOf(item))
           names == test_names(scope, typ)
           N == NameOf(item)
           last == Len(scope) + 1
<1>1. typ.abs = FALSE /\ typ.name = N
  BY DEF MessageOrEnum
<1>2. Len(scope) \in Nat
  BY SeqFacts
<1>3. names = [h \in 1..last |-> SubSeq(scope, 1, Len(scope) + 1 - h) \o N]
  BY <1>1 DEF test_names
<1>4. IsSeq(N)
  BY NamesAreSeqs
<1>5. last \in 1..last /\ Len(scope) + 1 - last = 0
  BY <1>2
<1>6. last \in DOMAIN names /\ names[last] = SubSeq(scope, 1, 0) \o N
  <2> HIDE DEF last, N
  <2> QED
    BY <1>3, <1>5
<1>7. SubSeq(scope, 1, 0) \o N = N
  <2>1. SubSeq(scope, 1, 0) = << >>
    BY <1>2
  <2> HIDE DEF N
  <2>2. Len(N) \in Nat /\ DOMAIN N = 1..Len(N) /\ N \in Seq(ToSet(N))
    <3>1. Len(N) \in Nat /\ DOMAIN N = 1..Len(N) /\ N = [i \in 1..Len(N) |-> N[i]]
      BY <1>4, SeqFacts
    <3>2. \A i \in 1..Len(N) : N[i] \in ToSet(N)
      BY <3>1 DEF ToSet
    <3>3. N \in [1..Len(N) -> ToSet(N)]
      BY <3>1, <3>2
    <3> QED
      BY <3>1, <3>3
  <2>3. << >> \o N = N
    BY <2>2
  <2> QED
    BY <2>1, <2>3
<1>8. DeclaredAs(PathsFrom(f), N) # {}
  <2>1. \A p \in PathsFrom(f) : IsPath(p)
    BY PathsAre
  <2>2. item \in DeclaredAs(PathsFrom(f), N)
    BY <2>1, DeclaredIs
  <2> QED
    BY <2>2
<1>9. IsDefined(defs, N)
  BY <1>8, DefinedIsDeclared
<1>10. IsFound(defs, scope, typ)
  <2>1. \E h \in DOMAIN names : IsDefined(defs, names[h])
    <3> HIDE DEF names, N, last
    <3> QED
      BY <1>6, <1>7, <1>9
  <2> HIDE DEF typ, N
  <2> QED
    BY <2>1 DEF IsFound
<1> QED
  BY <1>10

\* The names in a file mean something.
AllMean(f) ==
    \A p \in PathsOf(f) : \A j \in DOMAIN PartsOf(p) : \A k \in DOMAIN PartsOf(p)[j].fields :
        IsNamed(PartsOf(p)[j].fields[k].typ) => Meaning(p, j, PartsOf(p)[j].fields[k].typ) # {}

\* A list whose names are all found is of a file whose names mean something ...
LEMMA FoundMean ==
    ASSUME fs \in Schemas, Clear, NEW f \in Reach(Root), NEW defs, IsSeq(defs), Whole(defs, f),
           Flagged(defs, f), HaveNoIndex(defs), Kept(defs), ~Unresolvable(defs)
    PROVE  AllMean(f)
<1> SUFFICES ASSUME NEW p \in PathsOf(f), NEW j \in DOMAIN PartsOf(p), NEW k \in DOMAIN PartsOf(p)[j].fields,
                    IsNamed(PartsOf(p)[j].fields[k].typ)
             PROVE  Meaning(p, j, PartsOf(p)[j].fields[k].typ) # {}
  BY DEF AllMean
<1>1. f \in DOMAIN fs /\ f \in Reach(f)
  BY ReachLeast DEF Reach
<1>2. p \in PathsFrom(f)
  BY <1>1 DEF PathsFrom
<1>3. PICK i \in DOMAIN defs : defs[i].path = p
  BY <1>2 DEF Whole, PathSet
<1>4. Sourced(defs[i])
  BY DEF Whole, AllSourced
<1>5. j \in DOMAIN defs[i].parts /\ k \in DOMAIN defs[i].parts[j].fields
  BY <1>3, <1>4 DEF Sourced, SamePart
<1> PICK was : was = PartsOf(defs[i].path)[j].fields[k].typ
  OBVIOUS
<1> PICK now : now = Resolve(defs, FullName(defs[i], j), defs[i].parts[j].fields[k].typ)
  OBVIOUS
<1>6. IF IsNamed(was)
      THEN IsIndexed(now) /\ ItemAt(defs, now.at) \in Meaning(defs[i].path, j, was)
      ELSE now = was
  BY <1>5, FieldTold
<1> QED
  BY <1>3, <1>6

\* ... and one with a name that is not is of a file with a name that means nothing: the names
\* of imported definitions are full ones, which are found.
LEMMA NotFoundMeans ==
    ASSUME fs \in Schemas, NEW f \in Reach(Root), NEW defs, IsSeq(defs), Whole(defs, f),
           Flagged(defs, f), Kept(defs), Unresolvable(defs)
    PROVE  ~AllMean(f)
<1>1. PICK x \in Places(defs) : \E k \in DOMAIN defs[x[1]].parts[x[2]].fields :
          LET typ == defs[x[1]].parts[x[2]].fields[k].typ
              names == test_names(FullName(defs[x[1]], x[2]), typ)
          IN  IsNamed(typ) /\ \A h \in DOMAIN names : ~ IsDefined(defs, names[h])
  BY DEF Unresolvable
<1> PICK i : i = x[1]
  OBVIOUS
<1> PICK j : j = x[2]
  OBVIOUS
<1>2. i \in DOMAIN defs /\ j \in DOMAIN defs[i].parts
  <2>1. PICK m \in DOMAIN defs : \E n \in DOMAIN defs[m].parts : x = <<m, n>>
    BY PlaceIs
  <2>2. PICK n \in DOMAIN defs[m].parts : x = <<m, n>>
    BY <2>1
  <2>3. i = m /\ j = n
    BY <2>2
  <2> QED
    BY <2>3
<1>3. PICK k \in DOMAIN defs[i].parts[j].fields :
          /\ IsNamed(defs[i].parts[j].fields[k].typ)
          /\ \A h \in DOMAIN test_names(FullName(defs[i], j), defs[i].parts[j].fields[k].typ) :
                ~ IsDefined(defs, test_names(FullName(defs[i], j), defs[i].parts[j].fields[k].typ)[h])
  BY <1>1
<1> PICK typ : typ = defs[i].parts[j].fields[k].typ
  OBVIOUS
<1> PICK p : p = defs[i].path
  OBVIOUS
<1> PICK was : was = PartsOf(p)[j].fields[k].typ
  OBVIOUS
<1> PICK scope : scope = FullName(defs[i], j)
  OBVIOUS
<1>4. /\ Sourced(defs[i]) /\ IsSeq(scope)
      /\ p \in PathsFrom(f) /\ defs[i].package = fs[p[1]].package
  BY <1>2, SourcedNumbered DEF Whole, AllSourced, PathSet, Faithful
<1>5. f \in DOMAIN fs /\ Root \in DOMAIN fs
  BY ResolverAssumption DEF Reach
<1>6. p[1] \in DOMAIN fs /\ defs[i].parts[j].name = PartsOf(p)[j].name
      /\ j \in DOMAIN PartsOf(p) /\ k \in DOMAIN PartsOf(p)[j].fields
  BY <1>2, <1>3, <1>4, WrittenTypes DEF Sourced, SamePart
<1>7. scope = fs[p[1]].package \o PartsOf(p)[j].name
  BY <1>4, <1>6 DEF FullName
<1>8. IF IsNamed(was) /\ defs[i].imported = TRUE
      THEN \E item \in Meaning(p, j, was) : typ = MessageOrEnum(FALSE, NameOf(item))
      ELSE typ = was
  BY <1>2, <1>3 DEF Kept, KeptIn
<1>9. IsNamed(typ) /\ \A h \in DOMAIN test_names(scope, typ) : ~ IsDefined(defs, test_names(scope, typ)[h])
  BY <1>3
<1>10. CASE IsNamed(was) /\ defs[i].imported = TRUE
  <2>1. PICK item \in Meaning(p, j, was) : typ = MessageOrEnum(FALSE, NameOf(item))
    BY <1>8, <1>10
  <2>2. item \in ItemsIn(PathsFrom(p[1]))
    BY <1>6, MeaningIsSeen
  <2>3. PathsFrom(p[1]) \subseteq PathsFrom(f)
    BY <1>4, <1>5, PathsAre, ReachThrough
  <2>4. item \in ItemsIn(PathsFrom(f))
    BY <2>2, <2>3, ItemIs
  <2>5. IsFound(defs, scope, typ)
    BY <1>4, <1>5, <2>1, <2>4, FullNameFound
  <2> QED
    BY <1>9, <2>5 DEF IsFound
<1>11. CASE ~(IsNamed(was) /\ defs[i].imported = TRUE)
  <2>1. typ = was /\ IsNamed(was)
    BY <1>8, <1>9, <1>11
  <2>2. p[1] = f
    BY <1>2, <1>11, <2>1 DEF Flagged
  <2>3. Meaning(p, j, was) = {}
    <3>1. Whole(defs, p[1])
      BY <2>2
    <3> QED
      BY <1>4, <1>6, <1>7, <1>9, <2>1, <3>1, Meaningless
  <2>4. p \in PathsOf(f)
    BY <1>4, <1>5, <2>2, PathsAre
  <2> QED
    BY <1>6, <2>1, <2>3, <2>4 DEF AllMean
<1> QED
  BY <1>10, <1>11

\* An import that is found is found in one file.
LEMMA FoundMatches ==
    ASSUME NEW f, NEW import
    PROVE  /\ Matches(f, import) # {} <=> Found(f, import)
           /\ \A g, h \in Matches(f, import) : g = h
<1> DEFINE path == import_search_path
           there == {i \in DOMAIN path : Exists(f, i, import)}
<1>1. ASSUME Found(f, import)
      PROVE  Matches(f, import) # {}
  <2>1. there # {}
    BY <1>1 DEF Found
  <2>2. DOMAIN path = 1..Len(path) /\ DOMAIN path \subseteq Nat
    <3>1. IsSeq(Includes)
      BY ResolverAssumption DEF IsSequence, IsSeq
    <3>2. IsSeq(path)
      BY <3>1, AppendFacts DEF import_search_path
    <3> HIDE DEF path
    <3> QED
      BY <3>2, SeqFacts
  <2> HIDE DEF path
  <2>3. PICK i \in there : \A k \in there : i <= k
    <3>1. there \subseteq Nat
      BY <2>2
    <3> HIDE DEF there
    <3> QED
      BY <2>1, <3>1, LeastNat
  <2>4. ASSUME NEW h \in 1..(i - 1)
        PROVE  ~Exists(f, h, import)
    <3>1. i \in 1..Len(path)
      BY <2>2
    <3>2. h \in DOMAIN path /\ ~(i <= h)
      BY <2>2, <3>1
    <3> QED
      BY <2>3, <3>2
  <2>5. i \in DOMAIN path /\ IsMatch(f, i, import)
    BY <2>4 DEF IsMatch
  <2> QED
    BY <2>5 DEF Matches, path
<1>2. ASSUME Matches(f, import) # {}
      PROVE  Found(f, import)
  BY <1>2 DEF Matches, IsMatch, Found
<1> QED
  BY <1>1, <1>2, OneMatch

-----------------------------------------------------------------------------
(* Whether a file is read.                                                   *)

\* There are no more files than the stack has room for calls.
Deep == IsFiniteSet(Reach(Root)) /\ Cardinality(Reach(Root)) <= MaxDepth

\* The imports of a file before the n-th are there and fine.
Done(f, n) ==
    \A k \in 1..(n - 1) : /\ Found(f, fs[f].imports[k])
                          /\ \A g \in Matches(f, fs[f].imports[k]) : Fine(g)

\* What has returned is fine, and only what is not fine has ended reading with an error.
OrderInv ==
    /\ \A n \in DOMAIN stack : Done(stack[n].file, stack[n].next - 1)
    /\ desc # NoDesc => Fine(desc.file)
    /\ stack # << >> /\ desc = NoDesc => Done(Top.file, Top.next)
    /\ outcome = "ok" => Fine(Root)
    /\ outcome \notin {"running", "ok"} => ~Fine(Root)

LEMMA SameFine ==
    ASSUME fs' = fs
    PROVE  /\ \A f : Fine(f)' <=> Fine(f)
           /\ \A f, n : Done(f, n)' <=> Done(f, n)
           /\ Deep' <=> Deep
           /\ Shown' <=> Shown
<1>1. \A p, j, typ : Meaning(p, j, typ)' = Meaning(p, j, typ)
  BY DEF Meaning, DeclaredAs, PathsFrom, PathsOf, PartsOf, Reach, Imports, IsMatch, Exists
<1>2. /\ \A p : PartsOf(p)' = PartsOf(p)
      /\ \A f : Decls(f)' = Decls(f)
      /\ \A f : PathsOf(f)' = PathsOf(f)
      /\ \A f : OwnDefs(f)' = OwnDefs(f)
      /\ \A f, import : Found(f, import)' <=> Found(f, import)
  BY DEF PartsOf, Decls, PathsOf, OwnDefs, Found, Exists
<1>3. \A f : (Insane(OwnDefs(f)) = {})' <=> Insane(OwnDefs(f)) = {}
  BY <1>2 DEF Insane
<1>4. \A f : InOrder(f)' <=> InOrder(f)
  BY <1>1, <1>2, <1>3 DEF InOrder
<1>5. \A f : Fine(f)' <=> Fine(f)
  BY <1>4, SameFiles DEF Fine
<1>6. \A f, n : Done(f, n)' <=> Done(f, n)
  BY <1>2, <1>5, SameFiles DEF Done
<1>7. (Deep' <=> Deep) /\ (Shown' <=> Shown)
  BY <1>2, SameFiles DEF Deep, Shown
<1> QED
  BY <1>5, <1>6, <1>7

\* The innermost call, and the file it reads.
LEMMA TopIs ==
    ASSUME IInv, CoverInv, Running
    PROVE  /\ Len(stack) \in Nat \ {0} /\ Len(stack) \in DOMAIN stack /\ DOMAIN stack = 1..Len(stack)
           /\ Top = stack[Len(stack)] /\ stack # << >>
           /\ Top.file \in Reach(Root) /\ Top.file \in DOMAIN fs /\ Root \in DOMAIN fs
           /\ IsSeq(fs[Top.file].imports) /\ Len(fs[Top.file].imports) \in Nat
           /\ DOMAIN fs[Top.file].imports = 1..Len(fs[Top.file].imports)
           /\ Top.next \in 1..(Len(fs[Top.file].imports) + 1)
           /\ (desc = NoDesc => Merges(Top))
           /\ (desc # NoDesc => Waits(Top, desc.file))
<1>1. /\ Len(stack) \in Nat \ {0} /\ Len(stack) \in DOMAIN stack /\ DOMAIN stack = 1..Len(stack)
      /\ Top = stack[Len(stack)] /\ stack # << >>
  BY TopThere DEF IInv
<1>2. Held(Top) /\ (desc = NoDesc => Merges(Top)) /\ (desc # NoDesc => Waits(Top, desc.file))
  BY <1>1 DEF CoverInv
<1>3. Top.file \in Reach(Root) /\ Root \in DOMAIN fs /\ Top.file \in DOMAIN fs
  BY <1>2, ResolverAssumption DEF Held, Reach, IInv
<1>4. IsSeq(fs[Top.file].imports)
  BY <1>3, ResolverAssumption, WrittenFacts DEF IInv
<1>5. Len(fs[Top.file].imports) \in Nat /\ DOMAIN fs[Top.file].imports = 1..Len(fs[Top.file].imports)
  BY <1>4, SeqFacts
<1> QED
  BY <1>1, <1>2, <1>3, <1>4, <1>5 DEF Held

\* A call between two imports that has none left has all that its file leads to.
LEMMA HasAll ==
    ASSUME IInv, SourceInv, CoverInv, Between, ~MoreImports
    PROVE  /\ Whole(Top.defs, Top.file)
           /\ IsSeq(Top.defs) /\ HaveNoIndex(Top.defs) /\ Flagged(Top.defs, Top.file)
<1>1. Running /\ incoming = << >> /\ desc = NoDesc
  BY DEF Between
<1>2. /\ Len(stack) \in DOMAIN stack /\ Top = stack[Len(stack)]
      /\ Top.file \in DOMAIN fs /\ Merges(Top)
      /\ Len(fs[Top.file].imports) \in Nat /\ Top.next \in 1..(Len(fs[Top.file].imports) + 1)
  BY <1>1, TopIs
<1>3. Top.next > Len(fs[Top.file].imports)
  BY <1>2 DEF MoreImports
<1>4. PathSet(Top.defs) = PathsFrom(Top.file)
  BY <1>1, <1>2, <1>3, EmptyPaths, BeforeAll DEF Merges, IInv
<1>5. IsSeq(Top.defs) /\ HaveNoIndex(Top.defs) /\ Flagged(Top.defs, Top.file) /\ Faithful(Top.defs)
      /\ AllSourced(Top.defs)
  BY <1>2 DEF CoverInv, Held, IInv, Listed, SourceInv
<1> QED
  BY <1>4, <1>5 DEF Whole

LEMMA OrderInit == Init => OrderInv
<1> SUFFICES ASSUME Init
             PROVE  OrderInv
  OBVIOUS
<1>1. fs \in Schemas /\ Root \in DOMAIN fs
  BY ResolverAssumption DEF Init
<1>2. stack = <<Call(Root)>> /\ desc = NoDesc /\ outcome = "running"
  BY DEF Init
<1>3. DOMAIN stack = {1} /\ stack[1] = Call(Root) /\ Top = Call(Root) /\ Call(Root).next = 1
  BY <1>1, <1>2, OwnSourced DEF Top
<1>4. \A f : Done(f, 0) /\ Done(f, 1)
  BY DEF Done
<1> QED
  BY <1>2, <1>3, <1>4 DEF OrderInv

LEMMA OrderOpen ==
    ASSUME IInv, CoverInv, OrderInv, OpenImport
    PROVE  OrderInv'
<1>1. /\ Running /\ desc = NoDesc /\ UNCHANGED <<fs, incoming, desc, outcome>>
  BY OpenImportDoes
<1>2. PICK g \in Matches(Top.file, Import) :
        /\ g \in DOMAIN fs
        /\ IsSeq(stack') /\ Len(stack') = Len(stack) + 1
        /\ DOMAIN stack' = 1..(Len(stack) + 1)
        /\ \A n \in Below : stack'[n] = stack[n]
        /\ stack'[Len(stack)] = Frame(Top.file, Top.defs, Top.next + 1)
        /\ stack'[Len(stack) + 1] = Call(g)
  BY OpenImportDoes
<1>3. /\ Len(stack) \in Nat \ {0} /\ Below \subseteq DOMAIN stack /\ Below = 1..(Len(stack) - 1)
      /\ stack # << >>
  BY <1>1, TopThere DEF Below, IInv
<1>4. \A f : Done(f, 0) /\ Done(f, 1)
  BY DEF Done
<1>5. Call(g).file = g /\ Call(g).next = 1
  BY <1>2, OwnSourced DEF IInv
<1>6. Done(Top.file, Top.next)
  BY <1>1, <1>3 DEF OrderInv
<1>7. ASSUME NEW n \in DOMAIN stack'
      PROVE  Done(stack'[n].file, stack'[n].next - 1)
  <2>1. CASE n \in Below
    BY <1>2, <1>3, <2>1 DEF OrderInv
  <2>2. CASE n = Len(stack)
    <3>1. stack'[n].file = Top.file /\ stack'[n].next = Top.next + 1
      BY <1>2, <2>2, FrameFacts
    <3>2. stack'[n].next - 1 = Top.next
      <4>1. Top.next \in 1..(Len(fs[Top.file].imports) + 1)
        BY <1>1, TopIs
      <4> QED
        BY <3>1, <4>1
    <3> QED
      BY <1>6, <3>1, <3>2
  <2>3. CASE n = Len(stack) + 1
    BY <1>2, <1>4, <1>5, <2>3
  <2> QED
    BY <1>2, <1>3, <2>1, <2>2, <2>3
<1>8. Top' = Call(g)
  BY <1>2 DEF Top
<1>9. (\A n \in DOMAIN stack : Done(stack[n].file, stack[n].next - 1))'
  BY <1>1, <1>7, SameFine
<1>10. Done(Top.file, Top.next)'
  BY <1>1, <1>4, <1>5, <1>8, SameFine
<1> QED
  BY <1>1, <1>9, <1>10, SameFine DEF OrderInv

\* A file that returns is fine.
LEMMA ReturnsFine ==
    ASSUME IInv, SourceInv, GuardInv, Clear, Shown, CoverInv, MeaningInv, OrderInv, Return
    PROVE  Fine(Top.file)
<1> DEFINE f == Top.file
           imports == fs[f].imports
<1>1. Running /\ desc = NoDesc /\ Between /\ ~MoreImports /\ ~Unresolvable(Top.defs)
      /\ Insane(Top.defs) = {} /\ Parses(f)
  BY DEF Return, Between
<1>2. /\ Len(stack) \in DOMAIN stack /\ Top = stack[Len(stack)] /\ stack # << >>
      /\ f \in Reach(Root) /\ f \in DOMAIN fs
      /\ Len(imports) \in Nat /\ DOMAIN imports = 1..Len(imports)
      /\ Top.next \in 1..(Len(imports) + 1)
  BY <1>1, TopIs
<1>3. Done(f, Top.next)
  BY <1>1, <1>2 DEF OrderInv
<1>4. ASSUME NEW import \in ToSet(imports)
      PROVE  Found(f, import) /\ \A g \in Matches(f, import) : Fine(g)
  <2>1. PICK k \in DOMAIN imports : import = imports[k]
    BY DEF ToSet
  <2>2. Top.next > Len(imports)
    BY <1>1, <1>2 DEF MoreImports
  <2>3. k \in 1..(Top.next - 1)
    <3> HIDE DEF imports
    <3> QED
      BY <1>2, <2>2
  <2> QED
    BY <1>3, <2>1, <2>3 DEF Done
<1>5. \A g \in Imports(f) : Fine(g)
  BY <1>4, ImportsAre
<1>6. fs[f].grammatical /\ \A decl \in Decls(f) : Fits(fs[f].syntax, decl)
  BY <1>1, <1>2, ParsesIs
<1>7. /\ Whole(Top.defs, f) /\ IsSeq(Top.defs) /\ HaveNoIndex(Top.defs) /\ Flagged(Top.defs, f)
      /\ Kept(Top.defs) /\ \A i \in DOMAIN Top.defs : Guarded(Top.defs[i])
  BY <1>1, <1>2, HasAll DEF MeaningInv, GuardInv
<1>8. AllMean(f)
  BY <1>1, <1>2, <1>7, FoundMean DEF IInv
<1>9. Insane(OwnDefs(f)) = {}
  BY <1>1, <1>2, <1>7, InsaneSomewhere, ReachLeast DEF IInv
<1>10. InOrder(f)
  BY <1>4, <1>6, <1>8, <1>9 DEF InOrder, AllMean
<1> QED
  BY <1>2, <1>5, <1>10, FineIs

LEMMA OrderReturn ==
    ASSUME IInv, SourceInv, RootInv, GuardInv, Clear, Shown, CoverInv, MeaningInv, OrderInv, Return
    PROVE  OrderInv'
<1>1. /\ Running /\ UNCHANGED fs
      /\ desc' = [defs |-> Resolved(Top.defs), file |-> Top.file]
      /\ DOMAIN stack' = Below /\ \A n \in Below : stack'[n] = stack[n]
      /\ outcome' = IF Len(stack) = 1 THEN "ok" ELSE outcome
  BY ReturnDoes
<1>2. /\ Len(stack) \in DOMAIN stack /\ Below \subseteq DOMAIN stack /\ Top = stack[Len(stack)]
      /\ Top.file \in DOMAIN fs
  BY <1>1, TopThere, TopIs
<1>3. Fine(Top.file)
  BY ReturnsFine
<1>4. desc'.file = Top.file /\ desc' # NoDesc
  <2>1. Top.file # << >>
    BY <1>2, ResolverAssumption DEF IInv
  <2>2. desc'.file = Top.file
    BY <1>1
  <2> QED
    BY <2>1, <2>2 DEF NoDesc
<1>5. \A n \in DOMAIN stack' : Done(stack'[n].file, stack'[n].next - 1)
  BY <1>1, <1>2 DEF OrderInv
<1>6. (\A n \in DOMAIN stack : Done(stack[n].file, stack[n].next - 1))'
  BY <1>1, <1>5, SameFine
<1>7. outcome' = "ok" => Fine(Root)
  BY <1>1, <1>2, <1>3 DEF RootInv, Running
<1>8. outcome' \in {"running", "ok"}
  BY <1>1 DEF Running
<1> QED
  BY <1>1, <1>3, <1>4, <1>6, <1>7, <1>8, SameFine DEF OrderInv

LEMMA OrderReceive ==
    ASSUME IInv, CoverInv, OrderInv, Receive
    PROVE  OrderInv'
<1>1. /\ Running /\ desc # NoDesc /\ UNCHANGED <<fs, stack, outcome>> /\ desc' = NoDesc
  BY ReceiveDoes
<1>2. /\ Len(stack) \in DOMAIN stack /\ Top = stack[Len(stack)]
      /\ Top.next \in Nat
      /\ Waits(Top, desc.file)
  BY <1>1, TopIs
<1>3. Done(Top.file, Top.next - 1) /\ Fine(desc.file)
  BY <1>1, <1>2 DEF OrderInv
<1>4. ASSUME NEW k \in 1..(Top.next - 1)
      PROVE  /\ Found(Top.file, fs[Top.file].imports[k])
             /\ \A g \in Matches(Top.file, fs[Top.file].imports[k]) : Fine(g)
  <2>1. CASE k = Top.next - 1
    <3>1. desc.file \in Matches(Top.file, fs[Top.file].imports[k])
      BY <1>2, <2>1 DEF Waits
    <3> QED
      BY <1>3, <3>1, FoundMatches
  <2>2. CASE k # Top.next - 1
    <3>1. k \in 1..(Top.next - 1 - 1)
      BY <1>2, <2>2
    <3> QED
      BY <1>3, <3>1 DEF Done
  <2> QED
    BY <2>1, <2>2
<1>5. Done(Top.file, Top.next)
  BY <1>4 DEF Done
<1>6. Done(Top.file, Top.next)'
  <2>1. Top' = Top
    BY <1>1 DEF Top
  <2> QED
    BY <1>1, <1>5, <2>1, SameFine
<1> QED
  BY <1>1, <1>6, SameFine DEF OrderInv

LEMMA OrderMerge ==
    ASSUME IInv, OrderInv, MergeNext
    PROVE  OrderInv'
<1>1. /\ Running /\ UNCHANGED <<fs, desc, outcome>>
      /\ DOMAIN stack' = DOMAIN stack /\ Len(stack') = Len(stack)
      /\ \A n \in Below : stack'[n] = stack[n]
      /\ stack'[Len(stack)].file = Top.file /\ stack'[Len(stack)].next = Top.next
  BY MergeNextDoes
<1>2. /\ Len(stack) \in DOMAIN stack /\ Top = stack[Len(stack)] /\ stack # << >>
      /\ \A n \in DOMAIN stack : n \in Below \/ n = Len(stack)
  BY <1>1, TopThere DEF IInv
<1>3. \A n \in DOMAIN stack' : stack'[n].file = stack[n].file /\ stack'[n].next = stack[n].next
  BY <1>1, <1>2
<1>4. Top'.file = Top.file /\ Top'.next = Top.next
  BY <1>1 DEF Top
<1>5. (\A n \in DOMAIN stack : Done(stack[n].file, stack[n].next - 1))'
  BY <1>1, <1>3, SameFine DEF OrderInv
<1>6. desc = NoDesc => Done(Top.file, Top.next)'
  BY <1>1, <1>2, <1>4, SameFine DEF OrderInv
<1> QED
  BY <1>1, <1>5, <1>6, SameFine DEF OrderInv

\* What a call waits for, its file imports.
LEMMA WaitsForImport ==
    ASSUME fs \in Schemas, NEW frame, Held(frame), NEW g, Waits(frame, g)
    PROVE  g \in Imports(frame.file)
<1> DEFINE imports == fs[frame.file].imports
<1>1. frame.file \in DOMAIN fs
  BY DEF Held, Reach
<1>2. IsSeq(imports)
  BY <1>1, ResolverAssumption, WrittenFacts
<1>3. Len(imports) \in Nat /\ DOMAIN imports = 1..Len(imports)
  BY <1>2, SeqFacts
<1>4. frame.next \in 1..(Len(imports) + 1) /\ frame.next - 1 \in Nat \ {0}
  BY DEF Held, Waits
<1>5. frame.next - 1 \in DOMAIN imports
  <2> HIDE DEF imports
  <2> QED
    BY <1>3, <1>4
<1>6. imports[frame.next - 1] \in ToSet(imports) /\ g \in Matches(frame.file, imports[frame.next - 1])
  BY <1>5 DEF ToSet, Waits
<1> QED
  BY <1>6, ImportsAre

\* As many calls as there are files, and one more to come: the imports go round.
LEMMA OverflowNotFine ==
    ASSUME IInv, CoverInv, Deep, StackOverflow
    PROVE  ~Fine(Root)
<1>1. Running /\ desc = NoDesc /\ MoreImports /\ Found(Top.file, Import) /\ Len(stack) = MaxDepth
  BY DEF StackOverflow, Between
<1>2. /\ Len(stack) \in Nat \ {0} /\ Len(stack) \in DOMAIN stack /\ DOMAIN stack = 1..Len(stack)
      /\ Top = stack[Len(stack)] /\ Top.file \in Reach(Root) /\ Root \in DOMAIN fs
      /\ Len(fs[Top.file].imports) \in Nat
      /\ DOMAIN fs[Top.file].imports = 1..Len(fs[Top.file].imports)
      /\ Top.next \in 1..(Len(fs[Top.file].imports) + 1)
  BY <1>1, TopIs
<1>3. PICK g : g \in Matches(Top.file, Import)
  BY <1>1, FoundMatches
<1>4. g \in Imports(Top.file)
  <2>1. Top.next \in DOMAIN fs[Top.file].imports
    BY <1>1, <1>2 DEF MoreImports
  <2>2. Import \in ToSet(fs[Top.file].imports)
    BY <2>1 DEF Import, ToSet
  <2> QED
    BY <1>3, <2>2, ImportsAre
<1>5. g \in Reach(Root)
  BY <1>2, <1>4, ReachThrough
<1> DEFINE n == Len(stack)
           path == [m \in 1..(n + 1) |-> IF m = n + 1 THEN g ELSE stack[m].file]
<1>6. /\ n \in Nat /\ n \in 1..(n + 1) /\ n + 1 \in 1..(n + 1) /\ n # n + 1
      /\ \A m \in 1..(n + 1) : m = n + 1 \/ m \in DOMAIN stack
      /\ \A m \in 1..n : m \in 1..(n + 1) /\ m # n + 1 /\ m + 1 \in 1..(n + 1) /\ m \in DOMAIN stack
      /\ \A m \in 1..n : m # n => m \in 1..(n - 1) /\ m + 1 # n + 1 /\ m + 1 \in DOMAIN stack
  <2> PICK top : top = n
    OBVIOUS
  <2>1. top \in Nat \ {0} /\ DOMAIN stack = 1..top
    BY <1>2
  <2> HIDE DEF n
  <2> QED
    BY <2>1
<1>7. path \in [1..(n + 1) -> Reach(Root)]
  <2>1. \A m \in DOMAIN stack : stack[m].file \in Reach(Root)
    BY DEF CoverInv, Held
  <2> HIDE DEF n
  <2> QED
    BY <1>5, <1>6, <2>1
<1>8. ASSUME NEW m \in 1..n
      PROVE  path[m + 1] \in Imports(path[m])
  <2>1. path[m] = stack[m].file
    BY <1>6
  <2>2. CASE m = n
    <3>1. path[m + 1] = g
      BY <1>6, <2>2
    <3> QED
      BY <1>2, <1>4, <2>1, <2>2, <3>1
  <2>3. CASE m # n
    <3>1. m \in Below /\ m \in DOMAIN stack /\ path[m + 1] = stack[m + 1].file
      BY <1>6, <2>3 DEF Below
    <3>2. Held(stack[m]) /\ Waits(stack[m], stack[m + 1].file)
      BY <3>1 DEF CoverInv
    <3>3. stack[m + 1].file \in Imports(stack[m].file)
      BY <3>2, WaitsForImport DEF IInv
    <3> QED
      BY <2>1, <3>1, <3>3
  <2> QED
    BY <2>2, <2>3
<1>9. IsFiniteSet(Reach(Root)) /\ Cardinality(Reach(Root)) <= n
  BY <1>1 DEF Deep
<1> HIDE DEF n, path
<1> QED
  BY <1>6, <1>7, <1>8, <1>9, GoesRound

\* Reading fails only at a file that is not in order, or for imports that go round.
LEMMA FailsNotFine ==
    ASSUME IInv, SourceInv, GuardInv, Shown, Deep, CoverInv, MeaningInv, Halts
    PROVE  UNCHANGED vars \/ (outcome' \notin {"running", "ok"} /\ ~Fine(Root))
<1> DEFINE f == Top.file
           imports == fs[f].imports
<1>1. ASSUME Running, desc = NoDesc
      PROVE  /\ Len(stack) \in DOMAIN stack /\ Top = stack[Len(stack)]
             /\ f \in Reach(Root) /\ f \in DOMAIN fs
             /\ Len(imports) \in Nat /\ DOMAIN imports = 1..Len(imports)
             /\ Top.next \in 1..(Len(imports) + 1)
  BY <1>1, TopIs
<1>2. CASE Unreadable \/ ParsePanics
  <2>1. Running /\ desc = NoDesc /\ ~Parses(f) /\ outcome' \in {"TrailingGarbage", "panic"}
    BY <1>2 DEF Unreadable, ParsePanics, Opened, Fail, Parses
  <2>2. ~InOrder(f)
    BY <1>1, <2>1, ParsesIs DEF InOrder
  <2> QED
    BY <1>1, <2>1, <2>2, NotFine
<1>3. CASE StackOverflow
  <2>1. outcome' = "overflow"
    BY <1>3 DEF StackOverflow, Fail
  <2> QED
    BY <1>3, <2>1, OverflowNotFine
<1>4. CASE ImportMissing
  <2>1. Running /\ desc = NoDesc /\ MoreImports /\ ~Found(f, Import) /\ outcome' = "InvalidImport"
    BY <1>4 DEF ImportMissing, Between, Fail
  <2>2. Top.next \in DOMAIN imports
    <3>1. Top.next <= Len(imports)
      BY <2>1 DEF MoreImports
    <3> HIDE DEF imports
    <3> QED
      BY <1>1, <2>1, <3>1
  <2>3. Import \in ToSet(imports)
    BY <2>2 DEF Import, ToSet
  <2>4. ~InOrder(f)
    BY <2>1, <2>3 DEF InOrder
  <2> QED
    BY <1>1, <2>1, <2>4, NotFine
<1>5. CASE NameMissing \/ Refuse
  <2>1. Running /\ desc = NoDesc /\ Between /\ ~MoreImports
        /\ (Unresolvable(Top.defs) \/ Insane(Top.defs) # {})
    BY <1>5 DEF NameMissing, Refuse, Between
  <2>2. outcome' \notin {"running", "ok"}
    BY <1>5 DEF NameMissing, Refuse, Fail, SanityError
  <2>3. /\ Whole(Top.defs, f) /\ IsSeq(Top.defs) /\ Flagged(Top.defs, f)
        /\ Kept(Top.defs) /\ \A i \in DOMAIN Top.defs : Guarded(Top.defs[i])
    BY <1>1, <2>1, HasAll DEF MeaningInv, GuardInv
  <2>4. CASE Unresolvable(Top.defs)
    <3>1. ~AllMean(f)
      BY <1>1, <2>1, <2>3, <2>4, NotFoundMeans DEF IInv
    <3>2. ~InOrder(f)
      BY <3>1 DEF InOrder, AllMean
    <3> QED
      BY <1>1, <2>1, <2>2, <3>2, NotFine
  <2>5. CASE Insane(Top.defs) # {}
    <3>1. PICK g \in Reach(f) : Insane(OwnDefs(g)) # {}
      BY <1>1, <2>1, <2>3, <2>5, InsaneSomewhere DEF IInv
    <3>2. g \in Reach(Root)
      BY <1>1, <2>1, ReachThrough, ResolverAssumption DEF IInv
    <3>3. ~InOrder(g)
      BY <3>1 DEF InOrder
    <3> QED
      BY <2>2, <3>2, <3>3, NotFine
  <2> QED
    BY <2>1, <2>4, <2>5
<1> QED
  BY <1>2, <1>3, <1>4, <1>5 DEF Halts

LEMMA OrderHalts ==
    ASSUME IInv, SourceInv, GuardInv, Shown, Deep, CoverInv, MeaningInv, OrderInv, Halts
    PROVE  OrderInv'
<1>1. UNCHANGED <<fs, stack, incoming, desc>> /\ Top' = Top
  BY HaltsKeeps DEF Top
<1>2. (\A n \in DOMAIN stack : Done(stack[n].file, stack[n].next - 1))'
      /\ (desc # NoDesc => Fine(desc.file))'
      /\ (stack # << >> /\ desc = NoDesc => Done(Top.file, Top.next))'
  BY <1>1, SameFine DEF OrderInv
<1>3. (outcome = "ok" => Fine(Root))' /\ (outcome \notin {"running", "ok"} => ~Fine(Root))'
  <2>1. CASE UNCHANGED vars
    BY <1>1, <2>1, SameFine DEF OrderInv, vars
  <2>2. CASE outcome' \notin {"running", "ok"} /\ ~Fine(Root)
    BY <1>1, <2>2, SameFine
  <2> QED
    BY <2>1, <2>2, FailsNotFine
<1> QED
  BY <1>2, <1>3 DEF OrderInv

LEMMA OrderStep ==
    /\ IInv /\ SourceInv /\ RootInv /\ GuardInv /\ Clear /\ Shown /\ Deep
    /\ CoverInv /\ MeaningInv /\ OrderInv /\ [Next]_vars
    => OrderInv'
BY Steps, OrderOpen, OrderReturn, OrderReceive, OrderMerge, OrderHalts

LEMMA Orders == Spec => [](Packaged /\ Clear /\ Shown /\ Deep => CoverInv /\ MeaningInv /\ OrderInv)
<1> DEFINE Inv == Packaged /\ Clear /\ Shown /\ Deep => CoverInv /\ MeaningInv /\ OrderInv
<1>1. Init => Inv
  BY CoverInit, MeaningInit, OrderInit
<1>2. IInv /\ SourceInv /\ RootInv /\ GuardInv /\ Inv /\ [Next]_vars => Inv'
  <2> SUFFICES ASSUME IInv, SourceInv, RootInv, GuardInv, Inv, [Next]_vars,
                      Packaged', Clear', Shown', Deep'
               PROVE  CoverInv' /\ MeaningInv' /\ OrderInv'
    OBVIOUS
  <2>1. fs' = fs
    BY FilesStay
  <2>2. Packaged /\ Clear /\ Shown /\ Deep
    BY <2>1, SameFiles, SameMeanings, SameFine
  <2>3. UniqueUnits
    BY <2>2, ClearIsUnique DEF IInv
  <2> QED
    BY <2>2, <2>3, CoverStep, MeaningStep, OrderStep
<1> QED
  BY <1>1, <1>2, ListsInOrder, AllFromFiles, RootIsRead, GuardsStay, PTL DEF Spec

\* A file is read exactly if it and all that it imports are in order by themselves, and no
\* imports go round: merging the definitions of imports neither breaks a good file nor hides what is
\* wrong with one (types.rs:516-552).  For names without doubt, fields the parser sees as they are
\* written, and a stack with room for a call of every file.
THEOREM VerdictHolds == GSpec => [](Packaged /\ Clear /\ Shown /\ Deep => Verdict)
<1>1. OrderInv => Verdict
  BY FineRoot DEF OrderInv, Verdict, Running
<1> QED
  BY <1>1, Orders, GeneratorReads, PTL
=============================================================================
