----------------------------- MODULE TuiScreens -----------------------------
(***************************************************************************)
(* The screens of the TUI (tui/src/app.rs): the stack of screens of the    *)
(* active tab, and who gets a key: the help page, a prompt, a query, a     *)
(* filter or the key table, in this order (event_loop).                    *)
(*                                                                         *)
(* One key is one step: the loop awaits each request before it reads the   *)
(* next key.  A request to the service or the daemon may fail, and has     *)
(* done nothing then.  A name is known by its identity, a filter by the    *)
(* names it matches, a text by whether it is empty.  What a key sends to   *)
(* the daemon is not looked at here; the playlists of the service are, and *)
(* this TUI alone edits them.                                              *)
(*                                                                         *)
(* Rows are numbered from 1, `selected` and the indices sent from 0.       *)
(***************************************************************************)
EXTENDS Integers, SequencesExt

CONSTANTS
    Songs, Playlists, Albums, Artists, Genres,   \* what there is to list
    NativeLists,   \* the full lists behind the sections of Home
    PreviewRows,   \* HOME_PREVIEW_ROWS
    NoFilter,      \* the empty filter
    NoPlaylist,    \* playlist_id: None
    MaxRows        \* bound: songs in a playlist, in the queue, in a result

ASSUME NamesAssumption ==
    /\ NoPlaylist \notin Playlists
    /\ \A listed \in {Songs, Playlists, Albums, Artists, Genres} : IsFiniteSet(listed)
    /\ NativeLists \in Seq(Seq(Songs)) /\ NativeLists # <<>>
    /\ PreviewRows \in Nat /\ MaxRows \in Nat

VARIABLES
    stack,           \* App.stack, the top screen last
    filter_editing,  \* App.filter_editing
    show_help,       \* App.show_help
    prompt,          \* App.prompt: its action, the playlist of a rename, is it named
    contents,        \* external: the service's playlists and the songs in them
    failed           \* requests of the last key that its message counts as failed

modeVars == <<filter_editing, show_help, prompt>>
vars == <<stack, modeVars, contents, failed>>

Roots == {"Home", "PlaylistList", "AlbumList", "ArtistList", "GenreList",
          "Search", "Queue", "Settings"}
Kinds == Roots \cup {"SongList", "PlaylistPicker", "Info"}

\* The screens with a `filter`, and those with a `marked`.
Filterable == {"AlbumList", "SongList", "ArtistList", "PlaylistList", "GenreList", "Queue"}
Markable   == {"SongList", "Search"}

NoPrompt == [action |-> "none", id |-> NoPlaylist, named |-> FALSE]

SongRows == BoundedSeq(Songs, MaxRows)

\* What a list of the library can hold: nothing, or all there is.
Listed(S) == {<<>>, SetToSeq(S)}

NamesOf(kind) ==
    CASE kind = "AlbumList"    -> Albums
      [] kind = "ArtistList"   -> Artists
      [] kind = "GenreList"    -> Genres
      [] kind = "PlaylistList" -> Playlists
      [] OTHER                 -> Songs

Screen(kind, rows) ==
    [kind |-> kind, rows |-> rows, section |-> 1, selected |-> 0,
     filter |-> NoFilter, marked |-> {}, playlist |-> NoPlaylist,
     editing |-> FALSE, typed |-> FALSE, sort |-> "none", ids |-> <<>>]

\* push_album_list, offering the sort of the Albums tab as well.
AlbumsSorted(rows) == [Screen("AlbumList", rows) EXCEPT !.sort = "az"]
\* push_album_list: the albums of an artist or a genre have no sort of their own.
AlbumsOf(rows) == Screen("AlbumList", rows)

SongList(rows, p) == [Screen("SongList", rows) EXCEPT !.playlist = p]

\* A set of indices in their order: the k-th is the one with k - 1 before it.
Rank(indices, i) == Cardinality({j \in indices : j < i})
InOrder(indices) ==
    [k \in 1..Cardinality(indices) |-> CHOOSE i \in indices : Rank(indices, i) = k - 1]

\* What of a sequence is at these indices, in its order.
At(s, indices) == [k \in 1..Cardinality(indices) |-> s[InOrder(indices)[k]]]

-----------------------------------------------------------------------------
(* Reading the top of the stack *)

Top == stack[Len(stack)]
SetTop(screen) == stack' = [stack EXCEPT ![Len(stack)] = screen]
Push(screen)   == stack' = Append(stack, screen)

Matching(screen) ==
    {i \in DOMAIN screen.rows : screen.filter = NoFilter \/ screen.rows[i] \in screen.filter}

\* visible_indices: the rows that match the filter, of the screens that have
\* such rows at all.
VisibleIndices == IF Top.kind \in Filterable \cup {"Search"} THEN Matching(Top) ELSE {}

\* The row under the cursor: visible.get(selected).
HasRow == Top.selected < Cardinality(VisibleIndices)
Row == InOrder(VisibleIndices)[Top.selected + 1]

HomeRow == Top.rows[Top.section]

\* selected_song_id, as the set of what it finds.
SelectedSong ==
    IF Top.kind = "Home"
    THEN IF Top.selected < Len(HomeRow) THEN {HomeRow[Top.selected + 1]} ELSE {}
    ELSE IF /\ Top.kind \in Markable \cup {"Queue"}
            /\ ~Top.editing /\ HasRow
         THEN {Top.rows[Row]} ELSE {}

\* marked_songs: the rows of the marked songs.
AnyMarked   == Top.kind \in Markable /\ Top.marked # {}
MarkedRows  == {i \in DOMAIN Top.rows : Top.rows[i] \in Top.marked}
Unmarked(screen) == [screen EXCEPT !.marked = {}]

Wrap(selected, delta, len) == (selected + delta) % len

-----------------------------------------------------------------------------
(* Who gets the key *)

SearchEditing == Top.kind = "Search" /\ Top.editing
FilterTakesKeys == filter_editing /\ Top.kind \in Filterable

\* No overlay is up, and no query is being typed: arrows and Enter get here
\* even while a filter is edited.
Reached == ~show_help /\ prompt = NoPrompt /\ ~SearchEditing

\* The key table is reached by a letter, Esc or Backspace.
KeyTable == Reached /\ ~FilterTakesKeys

\* What every key of the table leaves alone, and a message without a count.
Quiet == UNCHANGED modeVars /\ failed' = 0

ToggleHelp ==
    /\ show_help \/ KeyTable
    /\ show_help' = ~show_help
    /\ UNCHANGED <<stack, filter_editing, prompt, contents>> /\ failed' = 0

\* handle_search_edit: a letter, or Backspace, which may empty the query.
TypeQuery ==
    /\ ~show_help /\ prompt = NoPrompt /\ SearchEditing
    /\ \E typed \in BOOLEAN : SetTop([Top EXCEPT !.typed = typed])
    /\ UNCHANGED contents /\ Quiet

\* Esc; Enter on an empty query, and a search that fails.
LeaveQuery ==
    /\ ~show_help /\ prompt = NoPrompt /\ SearchEditing
    /\ SetTop([Top EXCEPT !.editing = FALSE])
    /\ UNCHANGED contents /\ Quiet

\* Enter: run_search, whose request may fail; an empty query sends none.
RunSearch ==
    /\ ~show_help /\ prompt = NoPrompt /\ SearchEditing /\ Top.typed
    /\ \E results \in SongRows :
          SetTop([Top EXCEPT !.editing = FALSE, !.rows = results, !.selected = 0])
    /\ UNCHANGED contents /\ Quiet

\* apply_filter_key.  A letter narrows what matches, Backspace widens it.
FilterType ==
    /\ Reached /\ FilterTakesKeys
    /\ \E f \in SUBSET (IF Top.filter = NoFilter THEN NamesOf(Top.kind) ELSE Top.filter) :
          SetTop([Top EXCEPT !.filter = f, !.selected = 0])
    /\ UNCHANGED contents /\ Quiet

FilterErase ==
    /\ Reached /\ FilterTakesKeys
    /\ \E f \in {NoFilter} \cup SUBSET NamesOf(Top.kind) :
          /\ Top.filter = NoFilter => f = NoFilter
          /\ f # NoFilter => Top.filter \subseteq f
          /\ SetTop([Top EXCEPT !.filter = f, !.selected = 0])
    /\ UNCHANGED contents /\ Quiet

FilterCancel ==
    /\ Reached /\ FilterTakesKeys
    /\ SetTop([Top EXCEPT !.filter = NoFilter, !.selected = 0])
    /\ filter_editing' = FALSE /\ failed' = 0
    /\ UNCHANGED <<show_help, prompt, contents>>

\* Enter stops the editing and goes on to activate_selection.
EnterKey ==
    /\ Reached
    /\ filter_editing' = (filter_editing /\ ~FilterTakesKeys)
    /\ UNCHANGED <<show_help, prompt>>

-----------------------------------------------------------------------------
(* Tabs: switch_tab replaces the stack by a fresh root; a list that cannot *)
(* be loaded is shown empty.                                               *)

Preview(list) == SubSeq(list, 1, IF Len(list) < PreviewRows THEN Len(list) ELSE PreviewRows)

HomeRoots ==
    {Screen("Home", [k \in DOMAIN NativeLists |->
                        IF k \in loaded THEN Preview(NativeLists[k]) ELSE <<>>]) :
        loaded \in SUBSET DOMAIN NativeLists}

\* The root of a tab, given the playlists the service has by then.
RootsOf(kind, playlists) ==
    CASE kind = "Home"         -> HomeRoots
      [] kind = "PlaylistList" -> {Screen(kind, rows) : rows \in {<<>>, SetToSeq(playlists)}}
      [] kind = "AlbumList"    -> {[Screen(kind, rows) EXCEPT !.sort = "az"] : rows \in Listed(Albums)}
      [] kind = "ArtistList"   -> {Screen(kind, rows) : rows \in Listed(Artists)}
      [] kind = "GenreList"    -> {Screen(kind, rows) : rows \in Listed(Genres)}
      [] kind = "Search"       -> {[Screen(kind, <<>>) EXCEPT !.editing = TRUE]}
      [] kind = "Queue"        -> {Screen(kind, rows) : rows \in SongRows}
      [] kind = "Settings"     -> {Screen(kind, <<>>)}

SwitchTab(kind) ==
    /\ \E root \in RootsOf(kind, DOMAIN contents') : stack' = <<root>>
    /\ filter_editing' = FALSE

Init ==
    /\ \E root \in HomeRoots : stack = <<root>>
    /\ filter_editing = FALSE /\ show_help = FALSE /\ prompt = NoPrompt
    /\ \E existing \in SUBSET Playlists : contents \in [existing -> {SetToSeq(Songs)}]
    /\ failed = 0

\* A digit, [ or ].
TabKey ==
    /\ KeyTable
    /\ UNCHANGED <<contents, show_help, prompt>> /\ failed' = 0
    /\ \E kind \in Roots : SwitchTab(kind)

\* A slip: a picker is taken for one more list.
SlashFiltersPicker == Top.kind \in Filterable \cup {"PlaylistPicker"}
\* `/` filters the list on top; elsewhere it is the Search tab, but never from
\* under a picker or an info page.
SlashFilters == Top.kind \in Filterable

Slash ==
    /\ KeyTable
    /\ UNCHANGED <<contents, show_help, prompt>> /\ failed' = 0
    /\ \/ SlashFilters /\ filter_editing' = TRUE /\ UNCHANGED stack
       \/ /\ ~SlashFilters /\ Top.kind \notin {"PlaylistPicker", "Info"}
          /\ SwitchTab("Search")

\* Esc, Backspace: a filter goes first, then the screen, but never the root.
Back ==
    /\ KeyTable
    /\ \/ /\ Top.kind \in Filterable /\ Top.filter # NoFilter
          /\ SetTop([Top EXCEPT !.filter = NoFilter, !.selected = 0])
       \/ /\ Top.kind \in Filterable => Top.filter = NoFilter
          /\ Len(stack) > 1
          /\ stack' = Front(stack)
    /\ UNCHANGED contents /\ Quiet

-----------------------------------------------------------------------------
(* Moving about a screen *)

\* home_move_selection: the rows of all sections as one list; a cursor that
\* is on none of them counts as on the first.
HomeCells == UNION {{<<k, i - 1>> : i \in DOMAIN Top.rows[k]} : k \in DOMAIN Top.rows}
CellsBefore(cell) ==
    Cardinality({c \in HomeCells : c[1] < cell[1] \/ (c[1] = cell[1] /\ c[2] < cell[2])})

HomeMove(delta) ==
    LET cursor == <<Top.section, Top.selected>>
        here   == IF cursor \in HomeCells THEN CellsBefore(cursor) ELSE 0
    IN \E there \in HomeCells :
          /\ CellsBefore(there) = Wrap(here, delta, Cardinality(HomeCells))
          /\ SetTop([Top EXCEPT !.section = there[1], !.selected = there[2]])

\* How many rows the cursor goes round in; none while there is nothing to move.
CursorRange ==
    IF Top.kind \in {"PlaylistPicker", "Info"} THEN Len(Top.rows) ELSE Cardinality(VisibleIndices)

MoveSelection(delta) ==
    /\ Reached
    /\ \/ Top.kind = "Home" /\ HomeMove(delta)
       \/ /\ Top.kind # "Home" /\ CursorRange > 0
          /\ SetTop([Top EXCEPT !.selected = Wrap(Top.selected, delta, CursorRange)])
    /\ UNCHANGED contents /\ Quiet

\* `v` marks by id, so every row of the same song is marked with it.
ToggleMark ==
    /\ KeyTable /\ Top.kind \in Markable /\ HasRow
    /\ LET s == Top.rows[Row] IN
       SetTop([Top EXCEPT !.marked = IF s \in Top.marked THEN Top.marked \ {s}
                                                         ELSE Top.marked \cup {s}])
    /\ UNCHANGED contents /\ Quiet

\* `t`, on the root of the Albums tab only.
ToggleAlbumSort ==
    /\ KeyTable /\ Top.kind = "AlbumList" /\ Top.sort # "none"
    /\ \E albums \in Listed(Albums) :
          SetTop([Top EXCEPT !.rows = albums, !.selected = 0, !.filter = NoFilter,
                             !.sort = IF Top.sort = "az" THEN "newest" ELSE "az"])
    /\ UNCHANGED contents /\ Quiet

-----------------------------------------------------------------------------
(* Opening a screen on top *)

\* Enter on a list: its songs or albums, pushed if they can be loaded.
OpenRow ==
    /\ EnterKey /\ HasRow
    /\ CASE Top.kind = "AlbumList"    -> \E rows \in Listed(Songs) : Push(SongList(rows, NoPlaylist))
         [] Top.kind \in {"ArtistList", "GenreList"} ->
                 \E rows \in Listed(Albums) : Push(AlbumsOf(rows))
         [] Top.kind = "PlaylistList" -> Push(SongList(contents[Top.rows[Row]], Top.rows[Row]))
         [] OTHER                     -> FALSE
    /\ UNCHANGED contents /\ failed' = 0

\* Enter on a song or a track plays it, which is the daemon's affair; a list
\* that cannot be loaded opens nothing.
EnterStays ==
    /\ EnterKey /\ ~AnyMarked /\ Top.kind # "PlaylistPicker"
    /\ UNCHANGED <<stack, contents>> /\ failed' = 0

\* Enter on an artist similar to the one whose page this is.
OpenSimilar ==
    /\ EnterKey /\ Top.kind = "Info" /\ Top.selected < Len(Top.rows)
    /\ \E rows \in Listed(Albums) : Push(AlbumsOf(rows))
    /\ UNCHANGED contents /\ failed' = 0

\* `e`: the section under the cursor in full; empty if it cannot be loaded.
ExpandHomeSection ==
    /\ KeyTable /\ Top.kind = "Home"
    /\ \E rows \in {<<>>, NativeLists[Top.section]} : Push(SongList(rows, NoPlaylist))
    /\ UNCHANGED contents /\ Quiet

\* `i`: pushed even when there is nothing to tell.
ShowInfo ==
    /\ KeyTable /\ HasRow
    /\ \/ Top.kind = "ArtistList" /\ \E similar \in Listed(Artists) : Push(Screen("Info", similar))
       \/ Top.kind = "AlbumList" /\ Push(Screen("Info", <<>>))
    /\ UNCHANGED contents /\ Quiet

\* `P`: which songs it will add is settled now.
OpenPlaylistPicker ==
    /\ KeyTable
    /\ AnyMarked \/ SelectedSong # {}
    /\ DOMAIN contents # {}
    /\ Push([Screen("PlaylistPicker", SetToSeq(DOMAIN contents)) EXCEPT
                !.ids = IF AnyMarked THEN At(Top.rows, MarkedRows) ELSE SetToSeq(SelectedSong)])
    /\ UNCHANGED contents /\ Quiet

-----------------------------------------------------------------------------
(* Keys that act on songs *)

\* Enter, `a`, `A`, `f` with marks: the songs go to the daemon or to the
\* service, and the marks go once that is over, whatever came of it.
UseMarked ==
    /\ AnyMarked
    /\ \/ EnterKey
       \/ KeyTable /\ UNCHANGED modeVars
    /\ SetTop(Unmarked(Top))
    /\ UNCHANGED contents /\ failed' = 0

\* Enter in the picker: one request for each song, of which some may fail, to
\* be counted in the message; back to the screen below.
AddToPlaylist ==
    /\ EnterKey /\ Top.kind = "PlaylistPicker" /\ Top.selected < Len(Top.rows)
    /\ LET p == Top.rows[Top.selected + 1]
           below == Front(stack)
       IN
       \E ok \in SUBSET DOMAIN Top.ids :
          /\ Len(contents[p]) + Cardinality(ok) <= MaxRows
          /\ contents' = [contents EXCEPT ![p] = @ \o At(Top.ids, ok)]
          /\ failed' = Len(Top.ids) - Cardinality(ok)
          /\ stack' = [below EXCEPT ![Len(below)] = Unmarked(@)]

\* A refresh that forgets that the list got shorter.
KeepPosition(len, selected) == selected
\* A refresh keeps the cursor's position, or takes the last one there is.
ClampTo(len, selected) == IF selected < len THEN selected ELSE IF len = 0 THEN 0 ELSE len - 1

Refreshed(screen, rows) ==
    [screen EXCEPT !.rows = rows, !.selected = ClampTo(Len(rows), screen.selected)]

\* The rows are left for the next visit to show.
PlaylistLeftAsShown(screen, songs) == {screen}
\* refresh_playlist_songs, as a request that may fail.
RefreshedPlaylist(screen, songs) == {Refreshed(screen, songs), Refreshed(screen, <<>>)}

\* One removal by index after the other.
RemoveRow(s, i) == IF i <= Len(s) THEN RemoveAt(s, i) ELSE s
RemoveInTurn(s, order) ==
    LET left[n \in 0..Len(order)] == IF n = 0 THEN s ELSE RemoveRow(left[n - 1], order[n])
    IN left[Len(order)]

\* In the order of the list.
RemovalOrderAscending(indices) == InOrder(indices)
\* The highest index first, so that no removal shifts one still to come.
RemovalOrder(indices) == Reverse(InOrder(indices))

RowsToRemove == IF Top.marked = {} THEN {Row} ELSE MarkedRows

\* `d` on a playlist's songs.
RemoveFromPlaylist ==
    /\ KeyTable /\ Top.kind = "SongList" /\ Top.playlist # NoPlaylist
    /\ Top.marked # {} \/ HasRow
    /\ \E ok \in SUBSET RowsToRemove :
          LET left == RemoveInTurn(contents[Top.playlist], RemovalOrder(ok)) IN
          /\ contents' = [contents EXCEPT ![Top.playlist] = left]
          /\ failed' = Cardinality(RowsToRemove \ ok)
          /\ \E screen \in RefreshedPlaylist(Top, left) : SetTop(Unmarked(screen))
    /\ UNCHANGED modeVars

-----------------------------------------------------------------------------
(* Playlists and their prompts *)

\* `d` on a playlist.
DeletePlaylist ==
    /\ KeyTable /\ Top.kind = "PlaylistList" /\ HasRow
    /\ contents' = [p \in DOMAIN contents \ {Top.rows[Row]} |-> contents[p]]
    /\ UNCHANGED <<show_help, prompt>> /\ failed' = 0
    /\ SwitchTab("PlaylistList")

Prompt(action, id, named) == prompt' = [action |-> action, id |-> id, named |-> named]

\* `N`, `c` and `S`.
OpenPrompt ==
    /\ KeyTable
    /\ \/ Top.kind = "PlaylistList" /\ Prompt("new", NoPlaylist, FALSE)
       \/ Top.kind = "PlaylistList" /\ HasRow /\ Prompt("rename", Top.rows[Row], TRUE)
       \/ Top.kind = "Queue" /\ Prompt("save", NoPlaylist, FALSE)
    /\ UNCHANGED <<stack, filter_editing, show_help, contents>> /\ failed' = 0

TypePrompt ==
    /\ ~show_help /\ prompt # NoPrompt
    /\ \E named \in BOOLEAN : prompt' = [prompt EXCEPT !.named = named]
    /\ UNCHANGED <<stack, filter_editing, show_help, contents>> /\ failed' = 0

\* Esc; also Enter without a name, and a request that fails.
ClosePrompt ==
    /\ ~show_help /\ prompt # NoPrompt
    /\ prompt' = NoPrompt
    /\ UNCHANGED <<stack, filter_editing, show_help, contents>> /\ failed' = 0

\* create_playlist gives an identity that no playlist has.
CreatePlaylist(songs) ==
    \E p \in Playlists \ DOMAIN contents :
        contents' = [q \in DOMAIN contents \cup {p} |-> IF q = p THEN songs ELSE contents[q]]

\* Enter with a name: submit_prompt, its request answered.
SubmitPrompt ==
    /\ ~show_help /\ prompt # NoPrompt /\ prompt.named
    /\ prompt' = NoPrompt
    /\ UNCHANGED show_help /\ failed' = 0
    /\ \/ prompt.action = "new" /\ CreatePlaylist(<<>>) /\ SwitchTab("PlaylistList")
       \/ prompt.action = "rename" /\ UNCHANGED contents /\ SwitchTab("PlaylistList")
       \/ /\ prompt.action = "save" /\ Top.kind = "Queue" /\ Top.rows # <<>>
          /\ CreatePlaylist(Top.rows)
          /\ UNCHANGED <<stack, filter_editing>>

-----------------------------------------------------------------------------
(* The Queue screen: what a command does to the queue is the daemon's      *)
(* affair, and so is what it answers to the refresh that follows.          *)

\* `d` and `D`.
EditQueue ==
    /\ KeyTable /\ Top.kind = "Queue"
    /\ \E rows \in SongRows : SetTop(Refreshed(Top, rows))
    /\ UNCHANGED contents /\ Quiet

\* `J` and `K`: the cursor follows to the new index, if that row is visible.
MoveQueueItem(delta) ==
    /\ KeyTable /\ Top.kind = "Queue" /\ HasRow
    /\ Row + delta \in DOMAIN Top.rows
    /\ \E rows \in SongRows :
          LET after == Refreshed(Top, rows)
          IN SetTop(IF Row + delta \in Matching(after)
                    THEN [after EXCEPT !.selected = Rank(Matching(after), Row + delta)]
                    ELSE after)
    /\ UNCHANGED contents /\ Quiet

-----------------------------------------------------------------------------
Typing == TypeQuery \/ LeaveQuery \/ RunSearch \/ FilterType \/ FilterErase \/ FilterCancel

Prompting == OpenPrompt \/ TypePrompt \/ ClosePrompt \/ SubmitPrompt

Opening == OpenRow \/ EnterStays \/ OpenSimilar \/ ExpandHomeSection \/ ShowInfo \/ OpenPlaylistPicker

Editing ==
    \/ ToggleMark \/ ToggleAlbumSort \/ UseMarked
    \/ AddToPlaylist \/ RemoveFromPlaylist \/ DeletePlaylist
    \/ EditQueue \/ \E delta \in {-1, 1} : MoveQueueItem(delta)

Next ==
    \/ ToggleHelp \/ TabKey \/ Slash \/ Back
    \/ \E delta \in {-1, 1} : MoveSelection(delta)
    \/ Typing \/ Prompting \/ Opening \/ Editing

Spec == Init /\ [][Next]_vars

-----------------------------------------------------------------------------
(* Properties *)

ScreenOK(screen) ==
    /\ screen.selected \in Nat
    /\ screen.filter = NoFilter \/ screen.filter \subseteq NamesOf(screen.kind)
    /\ screen.marked \subseteq Songs
    /\ screen.playlist \in Playlists \cup {NoPlaylist}

\* The type of every variable, and the shape of the stack: a root of the
\* active tab, and above it what can be opened from a list, of which only the
\* root of the Albums tab has a sort.
TypeOK ==
    /\ stack # <<>>
    /\ \A k \in DOMAIN stack :
          /\ ScreenOK(stack[k])
          /\ IF k = 1 THEN stack[k].kind \in Roots
             ELSE /\ stack[k].kind \in {"AlbumList", "SongList", "PlaylistPicker", "Info"}
                  /\ stack[k].sort = "none"
    /\ filter_editing \in BOOLEAN /\ show_help \in BOOLEAN
    /\ prompt \in [action : {"none", "new", "rename", "save"},
                   id : Playlists \cup {NoPlaylist}, named : BOOLEAN]
    /\ DOMAIN contents \subseteq Playlists /\ \A p \in DOMAIN contents : contents[p] \in Seq(Songs)
    /\ failed \in Nat

\* At most one of the help page, a prompt, a query and a filter takes the
\* keys, and it belongs to the screen that is shown: submit_prompt acts on
\* whatever is on top by then, and a filter flag left on under a screen
\* without a filter would make it swallow keys later.
OneTakesKeys ==
    /\ show_help => prompt = NoPrompt
    /\ filter_editing \/ SearchEditing => ~show_help /\ prompt = NoPrompt
    /\ filter_editing => Top.kind \in Filterable
    /\ \A k \in DOMAIN stack : stack[k].editing => k = Len(stack)
    /\ prompt.action \in {"new", "rename"} => Top.kind = "PlaylistList"
    /\ prompt.action = "rename" => prompt.id \in ToSet(Top.rows)
    /\ prompt.action = "save" => Top.kind = "Queue"

CursorOnRow(screen) ==
    LET rows == IF screen.kind = "Home" THEN screen.rows[screen.section] ELSE screen.rows
    IN screen.filter = NoFilter /\ rows # <<>> => screen.selected < Len(rows)
MarksOnRows(screen) == screen.marked \subseteq IF screen.kind \in Markable THEN ToSet(screen.rows) ELSE {}

\* On every screen of the stack the cursor is on a row as long as there are
\* rows and no filter, and what is marked is a row: play_from and append_from
\* slice the list at the cursor and would panic past its end, and marks of
\* rows that are gone would turn the next Enter into the play of nothing.
SelectionOnRows == \A k \in DOMAIN stack : CursorOnRow(stack[k]) /\ MarksOnRows(stack[k])

\* The k-th row of a playlist's songs is the k-th song of the playlist, as
\* long as that screen is on the stack: removals go by index, there is no
\* removal by id.  Songs added meanwhile are behind the rows.
RowsArePlaylist ==
    \A k \in DOMAIN stack :
        /\ stack[k].playlist # NoPlaylist =>
              /\ stack[k].playlist \in DOMAIN contents
              /\ IsPrefix(stack[k].rows, contents[stack[k].playlist])
        /\ stack[k].kind \in {"PlaylistList", "PlaylistPicker"} =>
              ToSet(stack[k].rows) \subseteq DOMAIN contents

Without(s, removed) == At(s, DOMAIN s \ removed)
MeantRows(p) ==
    IF Top.marked = {} THEN {Row}
    ELSE {i \in DOMAIN contents[p] : i <= Len(Top.rows) /\ contents[p][i] \in Top.marked}

\* `d` takes from the playlist shown only rows whose song is marked, or the
\* one under the cursor, and all of them but those its message counts as
\* failed; the other playlists stay as they are.
RemovesWhatIsMarked ==
    [][Top.kind = "SongList" /\ contents' # contents =>
          LET p == Top.playlist IN
          /\ p # NoPlaylist
          /\ \E gone \in SUBSET MeantRows(p) :
                /\ contents' = [contents EXCEPT ![p] = Without(@, gone)]
                /\ Cardinality(MeantRows(p) \ gone) = failed']_vars
=============================================================================
