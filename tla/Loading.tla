------------------------------ MODULE Loading ------------------------------
(***************************************************************************)
(* Loading a program (load in userprog/process.c, built with VM): the      *)
(* command line is split into words, the segments of the executable are    *)
(* entered in the supplemental page table, and the arguments are laid out  *)
(* on the new stack, which grows by page faults of the kernel.  Pages of   *)
(* segments are read when the kernel or the program first touches them.    *)
(*                                                                         *)
(* A byte has ByteSize values.  A command line is a sequence of bytes, the *)
(* buffer one page of the kernel that holds it and a NUL.  The byte of the *)
(* executable at offset o is identified by o.  Words of the program that   *)
(* do not fit into argv[] are undefined behaviour ("overrun"), and so is   *)
(* the use of a page whose frame has been given back ("freed").            *)
(***************************************************************************)
EXTENDS Integers, Sequences, FiniteSets, FiniteSetsExt

CONSTANTS
  PGSIZE, WordSize, ByteSize,  \* bytes of a page and of a pointer, values of a byte
  USER_STACK, KERN_BASE,
  StackRange,   \* 0x100000 in vm_try_handle_fault
  CountRange,   \* 2^32: values of uint32_t
  AddressRange, \* 2^64
  MaxArgs,      \* elements of argv
  Space, Commands, FileNames,
  FileLength,
  Images,       \* executables
  OldStacks     \* rsp of the last system call of the process, 0 before the first

NUL == 0
Byte == 0..(ByteSize - 1)
Address == 0..(AddressRange - 1)

(* A program header as the program reads it.  "refused" are the types that *)
(* load gives up at.                                                       *)
Phdr ==
  [type : {"load", "ignored", "refused"}, offset : Address, vaddr : Address,
   filesz : Address, memsz : Address, writable : BOOLEAN]

(* phdrs are the headers that are there, of the phnum the file announces.  *)
ASSUME LoadingAssumption ==
  /\ {PGSIZE, WordSize, ByteSize, CountRange, MaxArgs} \subseteq Nat \ {0}
  /\ {USER_STACK, KERN_BASE, StackRange, AddressRange, FileLength} \subseteq Nat
  /\ PGSIZE % WordSize = 0 /\ CountRange % PGSIZE = 0
  /\ USER_STACK % PGSIZE = 0 /\ KERN_BASE % PGSIZE = 0
  /\ PGSIZE < USER_STACK /\ USER_STACK <= KERN_BASE /\ KERN_BASE <= AddressRange
  /\ PGSIZE <= StackRange /\ 2 * PGSIZE + StackRange <= USER_STACK
  /\ AddressRange = ByteSize ^ WordSize /\ \A k \in 0..WordSize : ByteSize ^ k \in Nat \ {0}
  /\ Space \in Byte \ {NUL} /\ Commands \subseteq Seq(Byte \ {NUL})
  /\ OldStacks \subseteq Address
  /\ Images \subseteq [valid : BOOLEAN, phnum : Nat, phdrs : Seq(Phdr)]
  /\ \A e \in Images : Len(e.phdrs) <= e.phnum

VARIABLES
  stage,
  command,   \* the line that was passed
  buffer,    \* file_name: the page that strtok_r writes NULs into
  save,      \* save_ptr, a position in buffer
  argv,      \* positions in buffer
  image,     \* the executable
  next,      \* number of the next program header; then words left to push
  spt,       \* the supplemental page table, a function of page addresses
  present,   \* pages that are in memory
  oldStack,  \* rsp_stack
  bottom,    \* stack_bottom
  curr,      \* bytes pushed
  address,   \* where the words are, by number
  memory,    \* what the kernel wrote to the stack, a function of addresses
  regs       \* rsp, rdi and rsi the program starts with

lineVars == <<command, buffer, save, argv>>
fileVars == <<image, next>>
pageVars == <<spt, present, oldStack, bottom>>
stackVars == <<curr, address, memory, regs>>
loadVars == <<stage, lineVars, fileVars, pageVars, stackVars>>

PageOf(a) == a - (a % PGSIZE)
RoundUp(n) == ((n + PGSIZE - 1) \div PGSIZE) * PGSIZE
Smaller(m, n) == IF m < n THEN m ELSE n

LoadInit ==
  /\ stage = "create"
  /\ command \in Commands /\ buffer = Append(command, NUL)
  /\ save = 1 /\ argv = <<>>
  /\ image \in Images /\ next = 1
  /\ spt = << >> /\ present = {} /\ oldStack \in OldStacks /\ bottom = 0
  /\ curr = 0 /\ address = << >> /\ memory = << >>
  /\ regs = [rsp |-> USER_STACK, rdi |-> 0, rsi |-> 0]

-----------------------------------------------------------------------------
(* pml4_create; a failure of load is returned to a caller whose own pages  *)
(* are gone since process_cleanup.                                         *)
Create ==
  /\ stage = "create"
  /\ stage' \in {"token", "failed"}
  /\ UNCHANGED <<lineVars, fileVars, pageVars, stackVars>>

(* strtok_r (file_name, " ", &save_ptr), once per word; the byte after the *)
(* word becomes NUL.                                                       *)
First(from, Bytes) == Min({p \in from..Len(buffer) : buffer[p] \in Bytes})

Token ==
  /\ stage = "token"
  /\ LET start == First(save, Byte \ {Space})
         end == First(start, {Space, NUL})
     IN IF buffer[start] = NUL
        THEN /\ stage' = "open" /\ save' = start /\ UNCHANGED <<buffer, argv>>
        ELSE /\ argv' = Append(argv, start)
             /\ buffer' = [buffer EXCEPT ![end] = NUL]
             /\ save' = IF buffer[end] = NUL THEN end ELSE end + 1
             /\ stage' = IF Len(argv) = MaxArgs THEN "overrun" ELSE "token"
  /\ UNCHANGED <<command, fileVars, pageVars, stackVars>>

(* The string at position p of the buffer.                                 *)
StringAt(p) == SubSeq(buffer, p, First(p, {NUL}) - 1)

(* filesys_open (file_name): the buffer from its start, not argv[0].  Then *)
(* the ELF header is read.                                                 *)
Open ==
  /\ stage = "open"
  /\ stage' = IF StringAt(1) \in FileNames /\ image.valid THEN "segments" ELSE "failed"
  /\ UNCHANGED <<lineVars, fileVars, pageVars, stackVars>>

-----------------------------------------------------------------------------
(* variant: the end of a segment is not looked at *)
ValidEndUnchecked(p) ==
  /\ p.offset % PGSIZE = p.vaddr % PGSIZE /\ p.offset <= FileLength
  /\ p.filesz <= p.memsz /\ p.memsz # 0
  /\ p.vaddr < KERN_BASE /\ p.vaddr >= PGSIZE

(* validate_segment; sums are those of uint64_t.                           *)
SegmentEnd(p) == (p.vaddr + p.memsz) % AddressRange
ValidateSegment(p) ==
  /\ p.offset % PGSIZE = p.vaddr % PGSIZE /\ p.offset <= FileLength
  /\ p.filesz <= p.memsz /\ p.memsz # 0
  /\ p.vaddr < KERN_BASE /\ SegmentEnd(p) < KERN_BASE /\ SegmentEnd(p) >= p.vaddr
  /\ p.vaddr >= PGSIZE

(* read_bytes and zero_bytes are uint32_t.                                 *)
Into(p) == p.vaddr % PGSIZE
ReadBytes(p) == IF p.filesz > 0 THEN (Into(p) + p.filesz) % CountRange ELSE 0

(* variant: the part of the page before p_vaddr is left out of the sum *)
ZeroBytesShort(p) == (RoundUp(p.memsz) - ReadBytes(p)) % CountRange
ZeroBytes(p) == (RoundUp(Into(p) + p.memsz) - ReadBytes(p)) % CountRange

(* The pages load_segment creates, each with the bytes to be read into it. *)
SegmentPages(p) ==
  LET count == (ReadBytes(p) + ZeroBytes(p)) \div PGSIZE
      pages == {PageOf(p.vaddr) + k * PGSIZE : k \in 0..(count - 1)}
      Before(va) == Smaller(va - PageOf(p.vaddr), ReadBytes(p))
  IN [va \in pages |->
       [offset |-> PageOf(p.offset) + Before(va),
        read |-> Smaller(PGSIZE, ReadBytes(p) - Before(va)),
        writable |-> p.writable]]

(* vm_alloc_page_with_initializer panics where a page exists.              *)
AllocPages(pages, then) ==
  IF DOMAIN pages \cap DOMAIN spt = {}
  THEN /\ spt' = [va \in DOMAIN spt \cup DOMAIN pages |->
                    IF va \in DOMAIN spt THEN spt[va] ELSE pages[va]]
       /\ stage' = then
  ELSE stage' = "panic" /\ UNCHANGED spt

(* One program header; those beyond the end of the file cannot be read.    *)
ProgramHeader ==
  /\ stage = "segments" /\ next <= image.phnum
  /\ next' = next + 1
  /\ IF next <= Len(image.phdrs)
     THEN LET p == image.phdrs[next]
          IN \/ p.type = "ignored" /\ UNCHANGED <<stage, spt>>
             \/ p.type = "refused" /\ stage' = "failed" /\ UNCHANGED spt
             \/ p.type = "load" /\ ValidateSegment(p) /\ AllocPages(SegmentPages(p), "segments")
             \/ p.type = "load" /\ ~ValidateSegment(p) /\ stage' = "failed" /\ UNCHANGED spt
     ELSE stage' = "failed" /\ UNCHANGED spt
  /\ UNCHANGED <<lineVars, image, present, oldStack, bottom, stackVars>>

StackPage == [offset |-> 0, read |-> 0, writable |-> TRUE]

SetupStack ==
  /\ stage = "segments" /\ next > image.phnum
  /\ AllocPages([va \in {USER_STACK - PGSIZE} |-> StackPage], "strings")
  /\ bottom' = USER_STACK - PGSIZE /\ next' = Len(argv)
  /\ present' = present \cup {USER_STACK - PGSIZE}
  /\ UNCHANGED <<lineVars, image, oldStack, stackVars>>

-----------------------------------------------------------------------------
(* lazy_load_segment: file_read must return as many bytes as the page is   *)
(* to have.  If it does not, the frame is given back.  Variant: nobody     *)
(* looks at what it returns.                                               *)
WholeUnchecked(page) == TRUE
Whole(page) == page.read = 0 \/ page.offset + page.read <= FileLength

(* vm_try_handle_fault.  A page the table knows is read.  If it does not   *)
(* know the page, or cannot read it, the stack grows by the page below it, *)
(* where the address fits the stack pointer, or the process is killed.     *)
Fault(a, fits) ==
  LET known == PageOf(a) \in DOMAIN spt
  IN IF known /\ Whole(spt[PageOf(a)])
     THEN present' = present \cup {PageOf(a)} /\ UNCHANGED <<stage, spt, bottom>>
     ELSE IF fits /\ USER_STACK - StackRange <= a /\ a <= USER_STACK
     THEN /\ AllocPages([va \in {bottom - PGSIZE} |-> StackPage],
                        IF known THEN "freed" ELSE stage)
          /\ bottom' = bottom - PGSIZE
          /\ present' = present \cup {bottom - PGSIZE}
     ELSE stage' = "killed" /\ UNCHANGED <<spt, bottom, present>>

(* The kernel looks at the stack pointer of the last system call.          *)
KernelFault(a) == Fault(a, (oldStack - WordSize) % AddressRange <= a)
Missing(a, n) == {b \in a..(a + n - 1) : PageOf(b) \notin present}

(* bytes are pushed and the work goes on with then; after a fault it is    *)
(* tried again.                                                            *)
Top == USER_STACK - curr
Push(bytes, then) ==
  LET a == Top - Len(bytes)
      missing == Missing(a, Len(bytes))
  IN IF missing # {}
     THEN KernelFault(Min(missing)) /\ UNCHANGED <<next, curr, address, memory>>
     ELSE /\ curr' = curr + Len(bytes)
          /\ memory' = [b \in DOMAIN memory \cup a..(Top - 1) |->
                          IF b \in a..(Top - 1) THEN bytes[b - a + 1] ELSE memory[b]]
          /\ then
          /\ UNCHANGED <<spt, present, bottom>>

Zeros(n) == [k \in 1..n |-> 0]
(* The bytes of a pointer, the lowest first.                               *)
Bytes(v) == [k \in 1..WordSize |-> (v \div (ByteSize ^ (k - 1))) % ByteSize]

(* variant: strlen without the NUL *)
PushStringBare ==
  /\ stage = "strings" /\ next > 0
  /\ LET s == StringAt(argv[next])
     IN Push(s, /\ address' = [i \in DOMAIN address \cup {next} |->
                                 IF i = next THEN Top - Len(s) ELSE address[i]]
                /\ next' = next - 1 /\ UNCHANGED stage)
  /\ UNCHANGED <<lineVars, image, oldStack, regs>>

PushString ==
  /\ stage = "strings" /\ next > 0
  /\ LET s == Append(StringAt(argv[next]), NUL)
     IN Push(s, /\ address' = [i \in DOMAIN address \cup {next} |->
                                 IF i = next THEN Top - Len(s) ELSE address[i]]
                /\ next' = next - 1 /\ UNCHANGED stage)
  /\ UNCHANGED <<lineVars, image, oldStack, regs>>

(* word_align_size, then the NULL that ends argv.                          *)
PushNull ==
  /\ stage = "strings" /\ next = 0
  /\ Push(Zeros((Top % WordSize) + WordSize),
          next' = Len(argv) /\ stage' = "pointers" /\ UNCHANGED address)
  /\ UNCHANGED <<lineVars, image, oldStack, regs>>

PushPointer ==
  /\ stage = "pointers" /\ next > 0
  /\ Push(Bytes(address[next]), next' = next - 1 /\ UNCHANGED <<stage, address>>)
  /\ UNCHANGED <<lineVars, image, oldStack, regs>>

(* The return address, and the registers of the program.                   *)
PushReturn ==
  /\ stage = "pointers" /\ next = 0
  /\ Push(Zeros(WordSize), stage' = "ready" /\ UNCHANGED <<next, address>>)
  /\ regs' = IF stage' = "ready"
             THEN [rsp |-> Top', rdi |-> Len(argv), rsi |-> Top' + WordSize]
             ELSE regs
  /\ UNCHANGED <<lineVars, image, oldStack>>

(* The program touches a page of its image that is not in memory; where    *)
(* its stack pointer is then is up to it.                                  *)
Touch(va) ==
  /\ stage = "ready" /\ va \notin present
  /\ \E a \in va..(va + PGSIZE - 1), fits \in BOOLEAN : Fault(a, fits)
  /\ UNCHANGED <<lineVars, fileVars, oldStack, stackVars>>

LoadNext ==
  \/ Create \/ Token \/ Open \/ ProgramHeader \/ SetupStack
  \/ PushString \/ PushNull \/ PushPointer \/ PushReturn
  \/ \E va \in DOMAIN spt : Touch(va)

LoadSpec == LoadInit /\ [][LoadNext]_loadVars

-----------------------------------------------------------------------------
(* Types of the variables. *)
LoadTypeOK ==
  /\ stage \in {"create", "token", "open", "segments", "strings", "pointers", "ready", "failed",
             "killed", "panic", "overrun", "freed"}
  /\ command \in Commands /\ buffer \in Seq(Byte) /\ save \in 1..Len(buffer)
  /\ argv \in Seq(1..Len(buffer)) /\ image \in Images /\ next \in Nat
  /\ oldStack \in OldStacks /\ bottom \in Address /\ curr \in Nat
  /\ present \subseteq Address
  /\ \A va \in DOMAIN spt :
       /\ va \in Address /\ va % PGSIZE = 0
       /\ spt[va] \in [offset : Nat, read : 0..PGSIZE, writable : BOOLEAN]
  /\ \A a \in DOMAIN memory : a \in Address /\ memory[a] \in Byte
  /\ DOMAIN regs = {"rsp", "rdi", "rsi"}

(* Whatever the executable says, its pages are in user space and page 0 is *)
(* not among them.                                                         *)
UserPages == \A va \in DOMAIN spt : va >= PGSIZE /\ va + PGSIZE <= KERN_BASE

(* What the program finds at address a of a segment when it first touches  *)
(* it: a byte of its file, identified by the offset, or zero; or nothing,  *)
(* since it is ended there.                                                *)
Zero == -1
Nothing == -2
Found(a) ==
  LET page == spt[PageOf(a)]
  IN IF ~Whole(page) THEN Nothing
     ELSE IF a % PGSIZE < page.read THEN page.offset + (a % PGSIZE) ELSE Zero

(* What header p promises at address a: a byte of its file, or zero behind *)
(* its filesz bytes; nothing on a page for which it wants bytes that the   *)
(* file does not have.                                                     *)
OffsetAt(p, b) == p.offset + b - p.vaddr
Promised(p, a) ==
  IF \E b \in PageOf(a)..(PageOf(a) + PGSIZE - 1) :
       b - p.vaddr < p.filesz /\ OffsetAt(p, b) >= FileLength
  THEN Nothing
  ELSE IF a - p.vaddr < p.filesz THEN OffsetAt(p, a) ELSE Zero

(* A program that is loaded finds each segment as its header says, and is  *)
(* never left with a page that could not be read.  A segment that does not *)
(* fit uint32_t is cut off, and arguments of more than a page may go over  *)
(* one that is next to the stack.                                          *)
SegmentsLoaded ==
  stage = "ready" =>
    \A i \in DOMAIN image.phdrs :
      LET p == image.phdrs[i]
      IN p.type = "load" /\ RoundUp(Into(p) + p.memsz) < CountRange =>
           \A a \in (p.vaddr..(p.vaddr + p.memsz - 1)) \ DOMAIN memory :
             /\ PageOf(a) \in DOMAIN spt /\ spt[PageOf(a)].writable = p.writable
             /\ Found(a) = Promised(p, a)
             /\ PageOf(a) \in present => Found(a) # Nothing

(* What load has built so far: pages only in user space, and in the end    *)
(* the image that the headers describe.                                    *)
ImageLoaded == LoadTypeOK /\ UserPages /\ SegmentsLoaded

(* The words of the command, by the positions at which they begin.         *)
Starts ==
  {p \in DOMAIN command : command[p] # Space /\ (p = 1 \/ command[p - 1] = Space)}
WordLength(p) ==
  Min({q \in p..(Len(command) + 1) : q = Len(command) + 1 \/ command[q] = Space}) - p
Pushed(a) == IF a \in DOMAIN memory THEN memory[a] ELSE 0
(* The word at address a is v.                                             *)
Word(a, v) == \A k \in 1..WordSize : Pushed(a + k - 1) = Bytes(v)[k]

(* The program finds what main expects: argc, argv with the words of the   *)
(* command in their order and a NULL behind them, each word ended by NUL,  *)
(* a return address of 0, an aligned stack; strings and pointers do not    *)
(* overwrite each other.                                                   *)
ArgumentsPassed ==
  stage = "ready" =>
    /\ regs.rdi = Cardinality(Starts) /\ regs.rsi = regs.rsp + WordSize
    /\ regs.rsp % WordSize = 0 /\ Word(regs.rsp, 0)
    /\ Word(regs.rsi + regs.rdi * WordSize, 0)
    /\ \A p \in Starts :
         LET i == Cardinality({q \in Starts : q < p})
         IN \E a \in Address :
              /\ Word(regs.rsi + i * WordSize, a)
              /\ \A k \in 0..(WordLength(p) - 1) : Pushed(a + k) = command[p + k]
              /\ Pushed(a + WordLength(p)) = NUL
=============================================================================
