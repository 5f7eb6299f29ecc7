------------------------------ MODULE Compile ------------------------------
(***************************************************************************)
(* One reflow.compile call: compile_lua of src/compile.c, its handlers,    *)
(* the event parser of src/html_lexbor.c (html_token_done and below) that  *)
(* drives them and the representation of src/ir.c that they build.  The    *)
(* tokenizer is Lexbor's: it delivers any sequence of tokens.  Every       *)
(* allocation may fail, and a failure anywhere ends the call.              *)
(***************************************************************************)
EXTENDS IR

CONSTANTS
    Tags,       \* lxb_tag_id_t of the elements
    VoidTags,   \* those without content
    NoTag,
    MaxTokens,  \* bound: tokens of a template
    MaxAttrs    \* bound: attributes of an element

ASSUME CompileAssumption ==
    /\ VoidTags \subseteq Tags /\ NoTag \notin Tags
    /\ MaxTokens \in Nat /\ MaxAttrs \in Nat

VARIABLES
    pc,                 \* where the call is
    nodes,              \* the nodes made in this call, the root first
    blocks,             \* pool blocks of the representation, values excluded
    stuck,              \* further ones, which the pool did not take back
    current_parent,     \* compile_ctx_t
    pending_element,    \* compile_ctx_t
    structured_failure, \* compile_ctx_t
    open_element,       \* tags of the open elements, the innermost last
    pending_text,       \* first and last token of the text not yet reported
    closing,            \* open elements the end tag at hand still closes
    tokens,             \* the tokens so far (ghost, but for their number)
    failure,            \* what ended tokenization: see Failures
    result              \* what compile_lua returned: see Results

handlerVars == <<current_parent, pending_element>>
parserVars == <<open_element, pending_text, closing>>
vars == <<pc, nodes, blocks, stuck, handlerVars, structured_failure, parserVars,
          tokens, failure, result>>

NoText == <<0, 0>>
Kinds == {"text", "dropped", "comment", "other", "open", "close"}
Tokens == [kind : Kinds, tag : Tags \cup {NoTag}]

\* A handler raised its error object, or an error of Lua's (out of memory while
\* that object was built), or the tokenizer stopped with a bad status.
Failures == {"none", "object", "lua_error", "status"}

\* compile_lua returned the representation, nil and an error value, where
\* "value" is not an error object, or raised an error itself.
Results == {"none", "ir", "error_object", "error_value", "raised"}

TypeOK ==
    /\ pc \in {"call", "token", "attrs", "push", "closing", "return", "done"}
    /\ nodes \in Seq(Node(Tags \cup {NoTag}))
    /\ blocks \in Nat /\ stuck \in Nat
    /\ current_parent \in 0..Len(nodes)
    /\ pending_element \in 0..Len(nodes)
    /\ structured_failure \in BOOLEAN
    /\ open_element \in Seq(Tags)
    /\ pending_text \in (0..MaxTokens) \X (0..MaxTokens)
    /\ closing \in 0..Len(open_element)
    /\ tokens \in Seq(Tokens)
    /\ failure \in Failures
    /\ result \in Results

Init ==
    /\ pc = "call"
    /\ nodes = <<>> /\ blocks = 0 /\ stuck = 0
    /\ current_parent = NoNode /\ pending_element = NoNode
    /\ structured_failure = FALSE
    /\ open_element = <<>> /\ pending_text = NoText /\ closing = 0
    /\ tokens = <<>>
    /\ failure = "none" /\ result = "none"

-----------------------------------------------------------------------------
(* Failing *)

Raise_FlagFirst ==
    /\ pc' = "return"
    /\ failure' \in {"object", "lua_error"}
    /\ structured_failure' = TRUE

\* compile_raise, compile_raise_directive_error: structured_failure is set once
\* the error object exists, and building it may raise.
Raise ==
    /\ pc' = "return"
    /\ failure' \in {"object", "lua_error"}
    /\ structured_failure' = (failure' = "object")

\* html_abort, and the tokenizer's own failures.
Abort ==
    /\ pc' = "return"
    /\ failure' = "status"
    /\ UNCHANGED <<stuck, structured_failure>>

Continue(point) == pc' = point /\ UNCHANGED <<stuck, failure, structured_failure>>

\* A constructor fails, with so many blocks in use before it.
Lose(f, before) == blocks' = before + f.left /\ stuck' = stuck + f.stuck

\* A handler's constructor fails: the handler raises, unless Lua has already.
BuildFails(c, before) ==
    \E f \in FailuresOf(c) :
        /\ Lose(f, before)
        /\ Raise
        /\ f.raised => failure' = "lua_error"

\* return_compile_error; its error object may not fit into memory either.
ReturnError == pc' = "done" /\ result' \in {"error_object", "raised"}

-----------------------------------------------------------------------------
(* compile_lua up to reflow_html_parse *)

PrepareFails(c, before) ==
    \E f \in FailuresOf(c) :
        /\ Lose(f, before)
        /\ ReturnError
        /\ f.raised => result' = "raised"

\* A bad argument, or ir_new, ir_set_source or ir_new_root fails.
Prepare ==
    /\ pc = "call"
    /\ \/ /\ \/ ReturnError /\ UNCHANGED <<blocks, stuck>>
             \/ PrepareFails(SetSource, 0)
             \/ PrepareFails(NewRoot, SourceBlocks)
          /\ UNCHANGED <<nodes, handlerVars, failure, structured_failure>>
       \/ /\ nodes' = <<InitNode("root", NoTag, 0, 0)>>
          /\ blocks' = SourceBlocks + 1
          /\ current_parent' = 1
          /\ Continue("token")
          /\ UNCHANGED <<pending_element, result>>
    /\ UNCHANGED <<parserVars, tokens>>

-----------------------------------------------------------------------------
(* Text *)

Here == Len(tokens) + 1
Read(kind, tag) ==
    /\ pc = "token"
    /\ Len(tokens) < MaxTokens
    /\ tokens' = Append(tokens, [kind |-> kind, tag |-> tag])
    /\ UNCHANGED result

\* html_flush_text and on_text: the tree with the pending text in it.
Flushed ==
    IF pending_text = NoText THEN nodes
    ELSE AppendNew(nodes, current_parent,
                   InitNode("text", NoTag, pending_text[1], pending_text[2]))
FlushedBlocks == IF pending_text = NoText THEN blocks ELSE blocks + 2
FlushFails ==
    /\ pending_text # NoText
    /\ BuildFails(NewText, blocks)
    /\ UNCHANGED <<nodes, handlerVars, parserVars>>

Text_NotFlushed ==
    /\ Read("text", NoTag)
    /\ pending_text' = IF pending_text[2] = Here - 1 /\ pending_text # NoText
                       THEN <<pending_text[1], Here>> ELSE <<Here, Here>>
    /\ Continue("token")
    /\ UNCHANGED <<nodes, blocks, handlerVars, open_element, closing>>

\* html_accumulate_text: a text that does not continue the pending one, because
\* the tokenizer dropped what lies between them, is a text of its own.
Text ==
    /\ Read("text", NoTag)
    /\ LET continues == pending_text # NoText /\ pending_text[2] = Here - 1
       IN  \/ /\ continues
              /\ pending_text' = <<pending_text[1], Here>>
              /\ Continue("token")
              /\ UNCHANGED <<nodes, blocks, handlerVars, open_element, closing>>
           \/ /\ ~continues
              /\ nodes' = Flushed /\ blocks' = FlushedBlocks
              /\ pending_text' = <<Here, Here>>
              /\ Continue("token")
              /\ UNCHANGED <<handlerVars, open_element, closing>>
           \/ ~continues /\ FlushFails

\* Source text that yields no token, such as </>.
Dropped ==
    /\ Read("dropped", NoTag)
    /\ Continue("token")
    /\ UNCHANGED <<nodes, blocks, handlerVars, parserVars>>

-----------------------------------------------------------------------------
(* Comments and the tokens that only flush the text *)

Comment ==
    /\ Read("comment", NoTag)
    /\ \/ FlushFails
       \/ /\ nodes' = AppendNew(Flushed, current_parent,
                                InitNode("comment", NoTag, Here, Here))
          /\ blocks' = FlushedBlocks + 2
          /\ pending_text' = NoText
          /\ Continue("token")
          /\ UNCHANGED <<handlerVars, open_element, closing>>
       \/ /\ nodes' = Flushed
          /\ BuildFails(NewComment, FlushedBlocks)
          /\ pending_text' = NoText
          /\ UNCHANGED <<handlerVars, open_element, closing>>

\* A document type, and an end tag that matches no open element.
FlushOnly ==
    \/ FlushFails
    \/ /\ nodes' = Flushed /\ blocks' = FlushedBlocks
       /\ pending_text' = NoText
       /\ Continue("token")
       /\ UNCHANGED <<handlerVars, open_element, closing>>

Other == Read("other", NoTag) /\ FlushOnly

-----------------------------------------------------------------------------
(* End tags: html_close_elements, on_element_end *)

Matches(tag) == {i \in 1..Len(open_element) : open_element[i] = tag}

InnermostMatch_Outermost(tag) == CHOOSE i \in Matches(tag) : \A j \in Matches(tag) : i <= j
InnermostMatch_Previous(tag) == (CHOOSE i \in Matches(tag) : \A j \in Matches(tag) : j <= i) - 1
InnermostMatch(tag) == CHOOSE i \in Matches(tag) : \A j \in Matches(tag) : j <= i

\* An end tag closes everything from the innermost open element down to its
\* match, if it has one.
Close(tag) ==
    /\ Read("close", tag)
    /\ \/ Matches(tag) = {} /\ FlushOnly
       \/ Matches(tag) # {} /\ FlushFails
       \/ /\ Matches(tag) # {}
          /\ nodes' = Flushed /\ blocks' = FlushedBlocks
          /\ pending_text' = NoText
          /\ closing' = Len(open_element) - InnermostMatch(tag) + 1
          /\ Continue("closing")
          /\ UNCHANGED <<handlerVars, open_element>>

\* on_element_end's tests; where one fails the handler raises.
CanEnd ==
    /\ nodes[current_parent].type = "element"
    /\ nodes[current_parent].parent # NoNode

\* One element: on_element_end, then the entry of the stack is freed.
CloseOne ==
    /\ pc = "closing"
    /\ UNCHANGED <<nodes, blocks, pending_element, pending_text, tokens, result>>
    /\ \/ /\ CanEnd
          /\ current_parent' = nodes[current_parent].parent
          /\ open_element' = SubSeq(open_element, 1, Len(open_element) - 1)
          /\ closing' = closing - 1
          /\ \/ Continue(IF closing = 1 THEN "token" ELSE "closing")
             \/ Abort                               \* pool_free fails
       \/ ~CanEnd /\ Raise /\ UNCHANGED <<stuck, current_parent, open_element, closing>>

-----------------------------------------------------------------------------
(* Start tags: html_open_element and its handlers *)

\* on_element_begin, after the flush; it raises where an element is pending.
Open(tag) ==
    /\ Read("open", tag)
    /\ \/ FlushFails
       \/ /\ pending_element = NoNode
          /\ nodes' = Append(Flushed, InitNode("element", tag, Here, Here))
          /\ blocks' = FlushedBlocks + 2
          /\ pending_text' = NoText
          /\ pending_element' = Len(nodes')
          /\ Continue("attrs")
          /\ UNCHANGED <<current_parent, open_element, closing>>
       \/ /\ nodes' = Flushed
          /\ BuildFails(NewElement, FlushedBlocks)
          /\ pending_text' = NoText
          /\ UNCHANGED <<handlerVars, open_element, closing>>

\* on_attribute without the prefix: ir_append_attr.
PlainAttribute ==
    /\ pc = "attrs"
    /\ nodes[pending_element].attrs < MaxAttrs
    /\ \/ /\ nodes' = [nodes EXCEPT ![pending_element].attrs = @ + 1]
          /\ blocks' = blocks + 3
          /\ Continue("attrs")
       \/ BuildFails(AppendAttr, blocks) /\ UNCHANGED nodes
    /\ UNCHANGED <<handlerVars, parserVars, tokens, result>>

\* on_attribute with the prefix: the first x-data of an element is parsed and
\* set (ir_set_data); a second one, a value that is not JSON5, an unknown name
\* and every failed allocation raise.
Directive ==
    /\ pc = "attrs"
    /\ \/ /\ ~nodes[pending_element].directives
          /\ nodes' = [nodes EXCEPT ![pending_element].directives = TRUE]
          /\ blocks' = blocks + 1
          /\ Continue("attrs")
       \/ BuildFails(SetData, blocks) /\ UNCHANGED nodes
       \/ Raise /\ UNCHANGED <<nodes, blocks, stuck>>
    /\ UNCHANGED <<handlerVars, parserVars, tokens, result>>

StartTagEnd_VoidDescends ==
    /\ pc = "attrs"
    /\ nodes' = AppendChild(nodes, current_parent, pending_element)
    /\ pending_element' = NoNode
    /\ current_parent' = pending_element
    /\ Continue(IF nodes[pending_element].tag \in VoidTags THEN "token" ELSE "push")
    /\ UNCHANGED <<blocks, parserVars, tokens, result>>
\* on_start_tag_end; it raises where ir_append_child refuses.
StartTagEnd ==
    /\ pc = "attrs"
    /\ \/ /\ CanAppend(nodes, current_parent, pending_element)
          /\ nodes' = AppendChild(nodes, current_parent, pending_element)
          /\ pending_element' = NoNode
          /\ LET void == nodes[pending_element].tag \in VoidTags
             IN  /\ current_parent' = IF void THEN current_parent ELSE pending_element
                 /\ Continue(IF void THEN "token" ELSE "push")
       \/ /\ ~CanAppend(nodes, current_parent, pending_element)
          /\ Raise
          /\ UNCHANGED <<nodes, stuck, handlerVars>>
    /\ UNCHANGED <<blocks, parserVars, tokens, result>>

\* The entry of an element with content on the parser's own stack.
PushOpen ==
    /\ pc = "push"
    /\ \/ /\ open_element' = Append(open_element, nodes[current_parent].tag)
          /\ Continue("token")
       \/ Abort /\ UNCHANGED open_element
    /\ UNCHANGED <<nodes, blocks, handlerVars, pending_text, closing, tokens, result>>

-----------------------------------------------------------------------------
(* The end of the call *)

\* The last token flushes; elements still open are not closed.
EndOfInput ==
    /\ pc = "token"
    /\ UNCHANGED <<tokens, result>>
    /\ \/ FlushFails
       \/ /\ nodes' = Flushed /\ blocks' = FlushedBlocks
          /\ pending_text' = NoText
          /\ Continue("return")
          /\ UNCHANGED <<handlerVars, open_element, closing>>

\* Lexbor runs out of memory, or a token's span cannot be used, which is also
\* found after the text before it was flushed.
TokenizerFails ==
    /\ pc \in {"token", "attrs"}
    /\ Abort
    /\ \/ UNCHANGED <<nodes, blocks, pending_text>>
       \/ pc = "token" /\ nodes' = Flushed /\ blocks' = FlushedBlocks /\ pending_text' = NoText
    /\ UNCHANGED <<handlerVars, open_element, closing, tokens, result>>

\* compile_lua after reflow_html_parse, whose cleanup may raise on old Lua.
Return ==
    /\ pc = "return"
    /\ \/ /\ structured_failure
          /\ pc' = "done"
          /\ result' = IF failure = "object" THEN "error_object" ELSE "error_value"
       \/ /\ ~structured_failure
          /\ failure # "none" \/ pending_element # NoNode
          /\ ReturnError
       \/ /\ failure = "none" /\ pending_element = NoNode
          /\ pc' = "done" /\ result' = "ir"
       \/ CallsRaise /\ pc' = "done" /\ result' = "raised"
    /\ UNCHANGED <<nodes, blocks, stuck, handlerVars, structured_failure, parserVars,
                   tokens, failure>>

Returned == pc = "done" /\ UNCHANGED vars

Next ==
    \/ Prepare
    \/ Text
    \/ Dropped
    \/ Comment
    \/ Other
    \/ \E tag \in Tags : Close(tag)
    \/ CloseOne
    \/ \E tag \in Tags : Open(tag)
    \/ PlainAttribute
    \/ Directive
    \/ StartTagEnd
    \/ PushOpen
    \/ EndOfInput
    \/ TokenizerFails
    \/ Return
    \/ Returned

Spec == Init /\ [][Next]_vars
-----------------------------------------------------------------------------
(* Properties *)

\* What html.h promises of the elements, from the tokens alone: the start tags
\* open after the first n tokens.  An end tag closes the last open start tag of
\* its name and all that are inside it; void elements are never open.
StillOpen[n \in 0..MaxTokens] ==
    IF n = 0 \/ n > Len(tokens) THEN {}
    ELSE LET before == StillOpen[n - 1]
             token  == tokens[n]
             named  == {i \in before : tokens[i].tag = token.tag}
         IN  CASE token.kind = "open" /\ token.tag \notin VoidTags -> before \cup {n}
               [] token.kind = "close" /\ named # {} ->
                    {i \in before : \E j \in named : i < j /\ \A k \in named : k <= j}
               [] OTHER -> before
Enclosing(n) ==
    LET S == StillOpen[n - 1]
    IN  IF S = {} THEN 0 ELSE CHOOSE i \in S : \A j \in S : j <= i

\* The tree is the template's: each node is a child of the node of the start
\* tag its token is in, whatever end tags are missing, superfluous or crossed.
TreeMatchesTokens ==
    \A c \in DOMAIN nodes : nodes[c].type # "root" /\ nodes[c].linked =>
        nodes[nodes[c].parent].start = Enclosing(nodes[c].start)

\* No token is lost or reported twice: each text, comment and start tag is in
\* one node, or in the pending text, and a text node holds nothing but text
\* without interruption.
Covers(a, b, i) == a <= i /\ i <= b
EveryTokenKept ==
    failure = "none" =>
        /\ \A i \in 1..Len(tokens) :
            LET ofNodes == {c \in DOMAIN nodes : Covers(nodes[c].start, nodes[c].end, i)}
                pending == Covers(pending_text[1], pending_text[2], i)
            IN  IF tokens[i].kind \in {"text", "comment", "open"}
                THEN Cardinality(ofNodes) + (IF pending THEN 1 ELSE 0) = 1
                ELSE ofNodes = {} /\ ~pending
        /\ \A a \in DOMAIN nodes : \A b \in DOMAIN nodes :
            a < b => nodes[a].end < nodes[b].start

\* The parser's stack and the handler's parent chain are kept apart by
\* different code, and between two tokens they name the same elements.
PathTo[n \in 0..Len(nodes)] ==
    IF n = NoNode \/ nodes[n].type = "root" THEN <<>>
    ELSE Append(PathTo[nodes[n].parent], nodes[n].tag)
StackMatchesTree ==
    pc \in {"token", "closing"} => open_element = PathTo[current_parent]

\* The checks of the handlers that cannot fail when the parser keeps its side:
\* no start tag while one is pending, no end tag at the root, and a node is
\* added where ir_append_child accepts it.
HandlersAgree ==
    /\ pc \in {"token", "push", "closing"} => pending_element = NoNode
    /\ pc = "closing" => CanEnd
    /\ pc = "attrs" => CanAppend(nodes, current_parent, pending_element)
    /\ result = "ir" => pending_text = NoText /\ closing = 0

\* Parser and handlers never lose each other.
StacksAgree == StackMatchesTree /\ HandlersAgree

\* The children of every node are a well-formed list in document order.
ListsSound == \A p \in DOMAIN nodes : ListSound(nodes, p)

\* The code leaves no block in the pool of the representation that nothing refers
\* to, also where the second or third allocation of a constructor fails.  The pool
\* itself may keep some, on the versions of Lua where its calls do, and only when
\* the compile has failed.
BlocksOf[k \in 0..Len(nodes)] ==
    IF k = 0 THEN SourceBlocks ELSE NodeBlocks(nodes[k]) + BlocksOf[k - 1]
NoBlockLost ==
    /\ IF nodes = <<>> THEN blocks \in {0, SourceBlocks} ELSE blocks = BlocksOf[Len(nodes)]
    /\ stuck # 0 => (NilKeyAllocates \/ CallsRaise) /\ pc \in {"return", "done"} /\ result # "ir"

\* The representation is one that its readers can walk and its pool can account
\* for, also when a compile has failed half way.
RepresentationSound == ListsSound /\ NoBlockLost

\* compile's second result is always an error object: never the bare value that
\* was raised while one was being built.
ErrorsAreObjects == result # "error_value"
=============================================================================
