---------------------------- MODULE MCJsonString ----------------------------
(* TLC instance of JsonString: bytes and code units at the edges. *)
EXTENDS JsonString

EdgeBytes ==
    {\h00, \h08, \h1E, \h1F, \h20, \h22, \h41, \h5C, \h7F, \h80, \h8F, \h90, \h9F, \hA0, \hBF,
     \hC0, \hC1, \hC2, \hDF, \hE0, \hE1, \hEC, \hED, \hEE, \hEF, \hF0, \hF1, \hF3, \hF4,
     \hF5, \hFF}

EdgeUnits ==
    {\h0000, \h0001, \h0008, \h0009, \h001E, \h001F, \h0020, \h0022, \h002F, \h0041, \h005C,
     \h007F, \h0080, \h07FF, \h0800, \h0FFF, \h1000, \hCFFF, \hD000, \hD7FF, \hD800, \hD8C0,
     \hDBFF, \hDC00, \hDFFF, \hE000, \hFFFF}
=============================================================================
