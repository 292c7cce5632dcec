# TLA+ models of Glidix: the AHCI driver, the scheduler run queue and GWM widgets

This directory holds TLA+ specifications of parts of the Glidix sources under
`src/`. Each part is checked with TLC. `PROJECT.json` lists the components,
the runs, the mutants, and the map from each definition to the source lines it
translates. It also lists the findings and the hazards.

## The system

| Part | Source | State and operations | Interacts with |
|------|--------|----------------------|----------------|
| AHCI command issuance | `src/modules/sdahci/sdahci.c` `ahciIssueCmd`, `ahciStopCmd`, `ahciStartCmd` | Port registers PxCMD (ST, FRE, CR, FR), PxCI, PxIS, PxSERR and PxTFD. The operations are submitting a command, polling it with an 8 s deadline, draining BSY/DRQ, and the stop/start recovery. | The HBA and the drive, which change the registers. The callers in port.c, ata.c and atapi.c serialise on a per-port semaphore (spec §5). |
| AHCI controller lifecycle | `sdahci.c` `ahciEnumerator`, `ahciInit`, `MODULE_INIT`, `MODULE_FINI` | The controller list `firstCtrl`/`lastCtrl`, `numCtrlFound`, each controller's mapping, `numPorts` and `ports[]`. The operations are enumeration, the S64A check, the BIOS/OS handoff, the HBA reset, port initialisation and teardown. | The PCI subsystem, the firmware (BOHC.BOS), the HBA (GHC.HR), and `portInit`/`portRelease` in port.c. |
| Port, ATA and ATAPI drivers | port.c, ata.c, atapi.c: not in this repository | Port records, DMA buffers, the semaphore. | Both parts above. Only the behaviour they rely on is modelled, from spec.md. |
| Scheduler run queue | `src/src/sched.c` | A circular doubly linked list of threads. The operations are `switchTask`, `CreateKernelThread` and `kernelThreadExit`. | Timer interrupts, the heap. |
| GWM text field | `src/libgwm/textfield.c` | Text, cursor, selection, drag anchor, flags, the sorted colour-style list and the clipboard. The operations are the key and mouse events of `gwmTextFieldHandler`, the menu callbacks, and the editing, flag and style API. | The parent window (VALUE_CHANGED and COMMAND events), the clipboard, the redraw. |
| GWM radio group | `src/libgwm/radio.c` | The group's doubly linked button list, the group value, each button's value, disabled flag and normal/hover/pressed state, and what each button last drew. The operations are create and destroy for groups and buttons, the value setters, and the pointer, click and RETHEME events of `gwmRadioHandler`. | The parent window, which may handle the COMMAND event. |
| GWM menu bar | `src/libgwm/menubar.c` | The menu, label, offset and width arrays, the highlighted menu and the open menu. The operations are create, `gwmMenubarAdd`, the render, the click, `menuClose` and destroy. | The menus, whose close callback points back at the menubar. |
| Separator, sysinfo | `src/libgwm/separator.c`, `src/sysinfo/src/sysinfo.c` | Drawing and printing only. | None. |

## Modules

### `AHCIPort.tla`: one port, several issuing threads

- **State.** `cmd` holds ST, FRE, CR and FR. `ci`, `isFatal` and `serr` are PxCI, the fatal bits of PxIS, and PxSERR. `tfd` holds BSY|DRQ and ERR.
- **Per-thread state.** Each thread has a program counter `pc[t]` that follows `ahciIssueCmd` through poll, drain, stop, stop-wait and start. It also has a clock `elapsed[t]` and a return value `result[t]`. `sem` is the port semaphore. `dev` is a ghost that records what the drive really did with the current command.
- **Thread actions.** They mirror the code in order: `Issue` (lines 69-72), `Poll` (one pass of the loop at 74-101, with the timeout tested before the fatal test, and the fatal test before completion), `Drain` (103-121), `StopCmd`, `StopWaitCR` and `StopWaitFR` (52-58), `StartCmd` (60-65) and `ClearSerr` (82-83).
- **Stopping the engine.** Writing ST from 1 to 0 clears PxCI at once (AHCI 1.3 §3.3.14). This is part of `StopCmd`.
- **Hardware actions.** They have no fairness unless noted. The HBA makes CR follow ST and FR follow FRE. The drive may complete a command (ok or error, still busy or not), drop BSY, or raise a fatal error.
- **Fairness.** Thread steps are weakly fair because the kernel is preemptive. HbaRun, HbaHalt and HbaFis are weakly fair because the code spins on them with no deadline. The drive gets no fairness, so a hung drive is allowed.

### `AHCIController.tla`: load and unload

- **Inputs.** Each PCI function has a hidden `hw` record: whether it is AHCI, S64A, and which PI bits are set.
- **Driver state.** The module phase, the enumeration index, the controller list as the code keeps it (`firstCtrl`, `lastCtrl` and each record's `next`, with `NULL` as 0), `numCtrlFound`, and the `ctrl` pointer of `MODULE_INIT`'s loop. `CtrlList` reads the list from `firstCtrl` along `next`, as the loops of `MODULE_INIT` and `MODULE_FINI` do. Each controller record has its step, mapping count, `numPorts`, `ports` and bus-master bit. There is also the per-port engine state.
- **The `NEW` record.** It starts with `numPorts` holding any value in `0..GarbageMax`, because `NEW` does not zero it.
- **Actions.** `Enumerate` (161-186), `MapRegs`, `CheckS64A`, `Handoff`, `ResetDone` and `InitPorts` (124-159), `InitDone` (MODULE_INIT), and `Unload`, `Fini` and `FiniDone` (MODULE_FINI 202-228).
- **Environment actions.** The firmware releasing BOS and the HBA finishing its reset. Both are weakly fair, because the code spins on them forever.
- **Spec-modelled parts.** `portInit` and `portRelease` are modelled from the spec: one started port record per PI bit, and a stopped port.

### `TextField.tla`: the editing state machine of a text field

- **State.** `text` is a sequence of code points; UTF-8 decoding is abstracted away, and offsets count code points as the code does. The other variables are `cursorPos`, `selectStart`, `selectEnd`, `clickPos`, `flags`, and `styles`, the linked list as a sequence in list order. The rest are `clipboard`, `posted` (the events the last step posted) and `fault`.
- **Handler actions.** Each event that `gwmTextFieldHandler` handles is one action: `MouseDownLeft`, `KeyLeft`, `KeyRight`, `KeyCtrl`, `KeyEnter`, `KeyBackspace`, `KeyChar`, `MouseUpLeft`, `Motion` and `DoubleClick`.
- **Menu and API actions.** `MenuCommand` covers the menu entries. The API calls are `WriteTextField`, `SetTextFieldFlags`, `ClearTextFieldStyles` and `SetColorRange`.
- **Helpers.** The editing functions (`gwmTextFieldDeleteSelection`, `gwmTextFieldInsert`, `gwmTextFieldBackspace`, `gwmTextFieldSelectWord`, `removeStyle`, `insertStyle`) are operators. The actions use them inside one step, as the code calls them inside one handler.
- **Faults.** Two code paths leave defined behaviour, and the model records each one in `fault` and stops:
  - `insertStyle` dereferencing NULL;
  - a counting loop reading past the terminating NUL. What happens next depends on `ddiReadUTF8` in libddi, which is not in this repository.
- **Left out.** Drawing, scrolling, icons, fonts, placeholder, wrap and alignment. Focus events only set a flag that the redraw reads and post EDIT_END, so they are left out too.

### `AHCIUnload.tla`: unload with a command in flight

This module extends `AHCIPort` with a variable `fini`, which tracks MODULE_FINI's teardown of the port.

- **Why it is needed.** MODULE_FINI has its `sdHangup` call commented out (line 215). So nothing stops callers, and nothing takes the port semaphore before the port is released.
- **Actions.** `FiniStart`, then `portRelease`'s engine stop (`FiniStop`, `FiniWaitCR`, `FiniWaitFR`), then `FiniUnmap` (lines 219-223).
- **Spec-modelled part.** The engine stop is modelled from spec §5, because `portRelease` is in port.c, outside the repository. It is also what the commented-out `ahciStopCmd` of line 216 did.
- **Threads and hardware.** They run as in `AHCIPort` until the unmap. A register access after that is a page fault, which the model does not follow.

### `AHCICommand.tla`: what a port promises its callers

- **State.** `owner` holds the port, and `status[t]` is idle, acquired, submitted or returned. `outcome` is what the drive did with the command in flight, and `result[t]` is what the call returned.
- **Actions.** `Acquire`, `Submit`, `Settle` (ok, err, fatal or aborted), `Return` (ok only after an ok outcome) and `Release`.
- **Refinement.** `AHCIPort` ends with `Abs == INSTANCE AHCICommand WITH ...`. The mapping gives `owner` from `sem`, and the status from `pc[t]`: issue maps to acquired, any later step of `ahciIssueCmd` to submitted, and release to returned. `outcome` comes from the ghost `dev`. `Refinement == Abs!Spec` is a property of the `ahci_port` run. Its fairness says that a holder always returns and releases, and that a command the drive never settles is eventually abandoned.

### `RunQueue.tla`: the scheduler's run queue

- **State.** `next`/`prev` of every Thread record, `currentThread`, a control point `pc[t]` per thread (or "free" for a heap block nobody holds), the heap lock, and the block a `CreateKernelThread` in progress has obtained.
- **Actions.** `switchTask` (84-94) is the timer tick. `CreateKernelThread` is split at its preemption points: `CreateStart`, `KmallocLock`, `KmallocPick` and the interrupts-off `Link` (153-161). `kernelThreadExit` is `ExitStart`, `ExitLock` (the `acquireHeap` of line 106) and the interrupts-off `ExitBody` (107-117). Only `currentThread` takes steps.
- **Freeing.** After `ExitBody` the record is freed but `currentThread` still points at it. The next `switchTask` reads it, and then the heap may hand the block out again.
- **Left out.** Register contents, stacks and names.

### `RoundRobin.tla`: what the scheduler promises

- **State.** `order` is the runnable threads as a sequence that starts at firstThread, `running` is the thread on the CPU, and `resume` is, after an exit, the thread that followed the exited one.
- **Actions.** `Spawn(b)` inserts `b` right after the running thread. `Leave` drops the running thread (never firstThread) and records its successor. `Switch` moves to the successor, or to `resume` when the running thread has left. `Switch` is weakly fair.
- **Refinement.** `RunQueue` ends with `RR == INSTANCE RoundRobin WITH ...`. `order` is `Chain(First, ...)`, the walk of `dumpRunqueue` (lines 39-47) along `next` for at most one lap. `running` is `currentThread`. `resume` is the kept `next` of a halted `currentThread`, the pointer that line 90 follows. `Link` is `Spawn`, `ExitBody` is `Leave`, and `switchTask` is `Switch`. The heap and lock steps are stutters. `Refinement == RR!ASpec` is a property of the `runqueue` run. Its mutant splices the new thread in before its creator: the ring stays well formed, but the order is no longer round robin.

### `Menubar.tla`: the menu bar

- **State.** A label is abstracted to its pen advance. `offsets` and `widths` are the realloc'ed arrays, and an element appended by `gwmMenubarAdd` holds any `Garbage` value until the next render. `drawn` is what the surface shows.
- **Actions.** `gwmMenubarAdd`, `gwmRenderMenubar` (with a pen or with a NULL pen), its three callers (RETHEME, `menubarPosition` and `gwmMenubarAdjust`), `ClickUp` for the hit test of lines 129-142, `menuClose` and `gwmDestroyMenubar`. Writing through NULL and calling back into a destroyed menubar set `fault`, and then the model stops.

### `RadioGroup.tla`: a radio button group

- **State.** The group's `first`/`last` and each button's `next`/`prev`, liveness, value, disabled flag and state. The group value and liveness. `shownOn`/`shownRow` record what `gwmRedrawRadio` last drew: the check mark and the image row (normal, hover, pressed or disabled). `posted` records whether the parent handles COMMAND.
- **Actions.** Group and button create and destroy, `SetRadioGroupValue`, `SetRadioButtonValue`, `PointerEvent` (ENTER, LEAVE and DOWN), `LeftUp` (disabled, COMMAND handled, or select) `Retheme`, and the label setter and `radioPosition`, which end in the same redraw. A freed button is reset to fixed values, so the heap contents do not multiply states. Labels, symbols and geometry are left out.

### `TextField.tla`: destruction, select-all and the redraw loop

- **Destruction.** `gwmDestroyTextField` (937-947) frees the data and then reads fields of it, so it sets `fault`.
- **Select-all.** `gwmTextFieldSelectAll` (983-990) is the API twin of the menu's `txtSelectAll`.
- **Redraw loop.** The loop of `gwmRedrawTextField` that hands the text to the pen (219-275) is the recursive operator `Redraw`. It applies the styles at `currentPos` (`ApplyStyles`), switches the background at the selection bounds, and writes `NextCount` characters. The result is one record per character written: the character, its FG colour and whether it is on the selection background.

## Runs

| Run | Expect | What it checks |
|-----|--------|----------------|
| `ahci_port` | pass | Two threads and a 2-tick timeout (14,349 states). `NoIssueToStoppedEngine`: a command is only submitted to a started engine. `PortCleanOnReturn`: every return leaves the engine started and SERR clear. `ResultFaithful`: 0 only if the drive succeeded, and EIO only on drive error, fatal error or timeout. `IssueTerminates`: every issue returns, even when the drive hangs. `Refinement`: the port implements `AHCICommand`. |
| `ahci_controller` | pass | Two PCI functions, PI subsets of {0,1}, and a garbage `numPorts` in 0..1 (19,216 states). `RegistryInDiscoveryOrder`: the list built through the `lastCtrl` tail pointer (lines 171-179) holds the AHCI functions in enumeration order, ends in NULL at `lastCtrl`, and stays a suffix of that order while MODULE_FINI pops it. `PortsMatchImplemented`, `NoPortBeforeHandoffAndReset`, `UnloadReleasesInitialised`, and `ModuleInitCompletes` (liveness). |
| `fini_releases_unacquired` | violation | `FiniReleasesOnlyAcquired`: MODULE_FINI unmaps a skipped controller a second time and walks its uninitialised `numPorts`. |
| `textfield_edit` | pass | Every flag combination, a two-character clipboard from another program, texts up to 2 code points of two classes, and no styles (14,408 states). `DoubleClickSelectsWord` compares `gwmTextFieldSelectWord` with a reference definition of a maximal same-class run. |
| `textfield_styles` | pass | An enabled single-line field with up to three styles (452,120 states). `StylesSorted`: the style list stays sorted under every edit, as the redraw loop requires. `RedrawShowsState` checks the redraw loop against a reference: every character is written once, in the colour of the last style at or before it, and on the selection background exactly inside the selection. `ColorRangeApplied`: a non-empty `gwmSetTextFieldColorRange` recolours exactly `[start, end)`, judged by the colour the redraw loop would use at every position. A call may add two styles, so with room for three it starts from a list of at most one style. With room for four, TLC had found 680,000 distinct states after three minutes and was still growing, too large for a run. |
| `textfield_null_deref` | violation | `NoNullDereference`: `insertStyle` at the head of the list. |
| `runqueue` | pass | firstThread and three heap blocks (25,140 states). `RingWellFormed`: the threads reachable from firstThread are exactly the live, linked ones, and prev inverts next. `NoHangWithInterruptsOff`: kfree in `kernelThreadExit` never spins on a heap lock held by a preempted thread. `EveryThreadScheduled`: once thread creation stops, every queued thread runs. `Refinement`: the list implements `RoundRobin`, so a new thread runs right after its creator and an exit resumes at the exited thread's successor. |
| `runqueue_use_after_free` | violation | `NoUseAfterFree`: the tick after `kernelThreadExit` saves registers into, and follows `next` of, the freed Thread. |
| `menubar` | pass | Two menus with label advances of 1 or 2, garbage values 0 and 3, and clicks at x in 0..7 (841 states). `TypeOK` only: it catches an array that `gwmMenubarAdd` does not grow. With label text abstracted to its pen advance, where the render puts the extents and where it draws the labels are the same closed form, so the project states no property about it. The menu bar's real hazards are bugs listed below. |
| `radio` | pass | Three buttons and values {0,1}, created and destroyed in any order (88,510 states). `GroupListWellFormed`: the list from `first` along `next` holds exactly the live buttons of the group, with `prev` and `last` consistent. `SelectionShown`: every live button shows the check mark exactly when its value is the group value. |
| `ahci_unload_inflight` | violation | `ResultFaithfulUnderUnload`: MODULE_FINI's engine stop clears PxCI under a polling thread. The thread returns 0 for a command the drive never ran, although spec §5 allows no mid-command cancellation. |
| `radio_stale_image` | violation | `StateShown`: after a left release that the parent handles, the button keeps its pressed image while its state is hover (line 166). |

Every property of a passing run has a mutant in `PROJECT.json`. A mutant is a
plausible bug in the mapped code, such as a dropped guard, an off-by-one, a
missing reset or a swapped order, and TLC finds the property violated when the
mutant replaces the definition.

Some bugs the modules reach are not given a run of their own. They are listed
as hazards in `PROJECT.json`, with the steps that reach each one:

- a controller without S64A stays on the active list, against spec §4.5/§8 (`fini_releases_unacquired` shows its consequence);
- `WriteTextField`, `Backspace` and `Cut` put the cursor past the text;
- Cut, and Backspace over a selection, post no VALUE_CHANGED;
- `gwmDestroyTextField` reads the data it has freed;
- a click between `gwmMenubarAdd` and the next render is tested against uninitialised extents;
- `gwmSetTextFieldColorRange` with `start == end` inside the text recolours from `start` on, because `insertStyle` links the restore style before the new one at the same offset (with `[0:Black]` on "AA", `SetColorRange(1, 1, Red)` turns position 1 red);
- rendering an empty menubar writes `offsets[0]` through NULL (line 109), and `menuClose` after `gwmDestroyMenubar` calls into the freed menubar.

## Bounds

- **AHCI port.** Two threads are enough for one thread's command to follow another's recovery: the port semaphore runs them one after the other, so the second issue sees the registers the first left. A timeout of 2 ticks separates "completed just before", "at" and "after" the deadline.
- **AHCI controller.** Two controllers are enough for list order and for one skipped controller next to one used controller. Two port bits are enough for a sparse PI, and `GarbageMax = 1` gives a garbage count that differs from zero.
- **Text field.** A text of length 2 allows a selection with a style strictly inside it, a style at its end and one past the text.
  - `MaxLen + 1` bounds style offsets, because styles past the text drift forward without limit as text is typed before them.
  - `MaxLen + 1` also bounds the cursor, which has no upper bound in the code once it is past the text.
  - The styles run uses one flag value. Flags only gate edits, and the edit run covers all four values.

- **Run queue.** Three blocks allow two threads alive beside firstThread while a third block is free or halted. So a creation can happen while another thread is still exiting, and a freed block can be handed out again. The same configuration with four blocks also passes (1,863,783 states), but it needs about 9 minutes, so it is not one of the runs.
- **Menu bar.** Two menus give a first menu, which has the padding, and a later one, which has an offset. The garbage values 0 and 3 fall inside and outside the drawn extents.
- **Radio group.** Three buttons allow a button to be destroyed at the head, in the middle or at the tail of the list.

## Fairness

For the AHCI driver the code relies on three things:

- the kernel's preemptive scheduler, which gives threads weak fairness;
- the HBA, which reflects ST/FRE in CR/FR;
- the firmware handoff and the HBA reset, which finish (unbounded spins).

The drive gets no fairness, so the 8 s deadline is what the liveness property
exercises. The GUI runs have no fairness: the user decides which event comes
next.

In the run queue only `switchTask` is weakly fair, because the timer
interrupt fires periodically. Thread steps need no fairness, because a thread
may run for its whole time slice without reaching the next step.
`EveryThreadScheduled` is conditional on `CreationStops`. A thread that
creates a successor, which goes right after it in the queue, and exits within
every time slice keeps the timer from ever reaching the threads behind it. The
code promises nothing against that, so it is a hazard, not a finding.

## Not modelled, and the plan

Nothing more of the repository can be modelled faithfully in a way that a
property could tell apart. The text field's scrolling, placeholder, icon,
font, wrap, alignment and focus code (lines 126-218, 276-346, 702-726 and
999-1034 of `textfield.c`) only moves pixels or stores a value that the
drawing alone reads. Its getters (948-960) change no state. The
`txtGetSize`/`txtPosition`, `radioSize` and `menubarSize` callbacks are
geometry. `gwmNewRadioButton` and `gwmNewMenubar` are one-line wrappers of
the modelled create functions.

The bugs listed under "Runs" that have no run of their own stay hazards
without a property. Each would be a violation run of its own, and the project
keeps its twelve runs for one question each.

Left out for good: `separator.c` and `sysinfo.c` (drawing and printing), the
port, ATA and ATAPI drivers beyond the spec's contract, the drawing code of
the widgets other than the text field's text loop, and a reload of the AHCI
module. A reload would load a fresh module image with fresh globals, so the
stale `lastCtrl` is never seen.
